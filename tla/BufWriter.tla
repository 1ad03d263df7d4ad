------------------------------ MODULE BufWriter ------------------------------
(***************************************************************************)
(* writer/BufWriter.hpp: write_str() copies a string into the free part of  *)
(* a buffer, the write area, and calls flush() whenever there is no room    *)
(* left.  Four kinds of writers differ in flush() and finalize(): a growing *)
(* std::string, a C FILE, a std::ostream and an output iterator.            *)
(*                                                                         *)
(* The loop of write_str() is taken step by step, because every call of     *)
(* flush() may meet another outcome of the sink.  A byte is its position in *)
(* the whole text.                                                         *)
(***************************************************************************)
EXTENDS Integers, Sequences, SequencesExt

CONSTANTS
    Kinds,       \* among "string", "cfile", "ostream", "iterator"
    BufSize,     \* BUFSIZ
    StringSizes, \* sizes a std::string may have when it gets its writer
    MaxBytes,    \* bound of the model: bytes written
    MaxFaults    \* bound of the model: writes the sink does not take as a whole

ASSUME SizesAssumption ==
    /\ BufSize \in Nat \ {0} /\ StringSizes \subseteq Nat
    /\ MaxBytes \in Nat /\ MaxFaults \in Nat

VARIABLES
    kind,
    buffer,        \* buffer_, byte 1 is buffer_.data()[0]
    writeArea,     \* write_area_ - buffer_.data()
    writeAreaSize, \* write_area_size_
    str,           \* what write_str() has not copied yet
    pc,            \* "idle", "copy", "flush", "failed"; "done" or "abandoned"
    given,         \* every byte passed to write_str()
    sink,          \* what the file, the stream or the iterator has received
    faults         \* how many writes it did not take

vars == <<kind, buffer, writeArea, writeAreaSize, str, pc, given, sink, faults>>

Init ==
    /\ kind \in Kinds
    /\ \E size \in IF kind = "string" THEN StringSizes ELSE {BufSize} :
           buffer = [i \in 1 .. size |-> 0]
    /\ writeArea = 0 /\ writeAreaSize = Len(buffer)
    /\ str = <<>> /\ pc = "idle" /\ given = <<>> /\ sink = <<>> /\ faults = 0

-----------------------------------------------------------------------------
Filled == SubSeq(buffer, 1, writeArea)

\* A call of write_str() with the next n bytes of the text.
WriteStr(n) ==
    LET bytes == [i \in 1 .. n |-> Len(given) + i]
    IN  /\ pc = "idle" /\ Len(given) + n <= MaxBytes
        /\ str' = bytes /\ given' = given \o bytes
        /\ pc' = IF n = 0 THEN "idle" ELSE "copy"
        /\ UNCHANGED <<kind, buffer, writeArea, writeAreaSize, sink, faults>>

\* memcpy() of the front of the string to the write area.
CopiedTo(at, n) ==
    [i \in DOMAIN buffer |-> IF i \in at + 1 .. at + n THEN str[i - at] ELSE buffer[i]]

\* Mutation: the part that was copied is not removed from the string.
KeepPrefix(n) == str
RemovePrefix(n) == SubSeq(str, n + 1, Len(str))

Copy ==
    LET n == IF Len(str) < writeAreaSize THEN Len(str) ELSE writeAreaSize
    IN  /\ pc = "copy"
        /\ buffer' = CopiedTo(writeArea, n)
        /\ writeArea' = writeArea + n /\ writeAreaSize' = writeAreaSize - n
        /\ str' = IF n = Len(str) THEN <<>> ELSE RemovePrefix(n)
        /\ pc' = IF n = Len(str) THEN "idle" ELSE "flush"
        /\ UNCHANGED <<kind, given, sink, faults>>

\* After flush(): write_str() gives up when there is still no room.
\* Mutation: the size of the area is not looked at.
GoOnAnyhow(size) == "copy"
AfterFlush(size) == IF size = 0 THEN "failed" ELSE "copy"

\* The whole buffer is free again.
Emptied == writeArea' = 0 /\ writeAreaSize' = Len(buffer)

\* A stream that failed leaves everything as it is.
\* Mutation: the early return is missing.
EmptiedAnyhow == Emptied
KeepArea == UNCHANGED <<writeArea, writeAreaSize>>

\* std::bit_ceil(), the least power of two that is not less than n.
IsPowerOfTwo(c) == \A d \in 2 .. c : c % d = 0 => d % 2 = 0
BitCeil(n) == Min({c \in 1 .. 2 * n + 1 : c >= n /\ IsPowerOfTwo(c)})

\* StringWriter: the string grows and keeps what is in it.
FlushString ==
    LET size == BitCeil(Len(buffer) + Len(str))
    IN  /\ kind = "string"
        /\ buffer' = [i \in 1 .. size |-> IF i <= Len(buffer) THEN buffer[i] ELSE 0]
        /\ writeArea' = writeArea /\ writeAreaSize' = size - writeArea
        /\ UNCHANGED <<sink, faults>>

\* fwrite() takes n bytes, fewer than it was given when there was an error; a
\* later call may succeed again.
Fwrite(n) ==
    /\ n \in 0 .. writeArea
    /\ sink' = sink \o SubSeq(buffer, 1, n)
    /\ IF n < writeArea THEN faults < MaxFaults /\ faults' = faults + 1
       ELSE UNCHANGED faults

FlushCFile ==
    /\ kind = "cfile"
    /\ \E n \in 0 .. writeArea :
        /\ Fwrite(n)
        /\ writeArea' = writeArea - n /\ writeAreaSize' = writeAreaSize + n
    /\ UNCHANGED buffer

\* std::ostream::write() that succeeds, and one that fails: some of the bytes may
\* have come through, and the stream takes nothing more.
StreamTakesAll == faults = 0 /\ sink' = sink \o Filled /\ UNCHANGED faults
StreamFails ==
    /\ IF faults = 0
       THEN \E n \in 0 .. writeArea : sink' = sink \o SubSeq(buffer, 1, n)
       ELSE UNCHANGED sink
    /\ MaxFaults > 0 /\ faults' = 1

FlushOStream ==
    /\ kind = "ostream"
    /\ \/ StreamTakesAll /\ Emptied
       \/ StreamFails /\ KeepArea
    /\ UNCHANGED buffer

FlushIterator ==
    /\ kind = "iterator"
    /\ sink' = sink \o Filled /\ Emptied
    /\ UNCHANGED <<buffer, faults>>

Flush ==
    /\ pc = "flush"
    /\ FlushString \/ FlushCFile \/ FlushOStream \/ FlushIterator
    /\ pc' = AfterFlush(writeAreaSize')
    /\ UNCHANGED <<kind, str, given>>

-----------------------------------------------------------------------------
(***************************************************************************)
(* finalize(), and clear() of the StringWriter.                             *)
(***************************************************************************)
Finished(success) == IF success /\ pc = "idle" THEN "done" ELSE "abandoned"

FinalizeString ==
    /\ kind = "string"
    /\ buffer' = Filled /\ pc' = Finished(TRUE)
    /\ UNCHANGED <<sink, faults>>

FinalizeCFile ==
    /\ kind = "cfile"
    /\ \E n \in 0 .. writeArea : Fwrite(n) /\ pc' = Finished(n = writeArea)
    /\ UNCHANGED buffer

FinalizeOStream ==
    /\ kind = "ostream"
    /\ \/ StreamTakesAll /\ pc' = Finished(TRUE)
       \/ StreamFails /\ pc' = Finished(FALSE)
    /\ UNCHANGED buffer

FinalizeIterator ==
    /\ kind = "iterator"
    /\ sink' = sink \o Filled /\ pc' = Finished(TRUE)
    /\ UNCHANGED <<buffer, faults>>

\* Also after a write_str() that failed: operator<< of Graph and Dataset does not
\* look at what serialize() returns.
Finalize ==
    /\ pc \in {"idle", "failed"}
    /\ FinalizeString \/ FinalizeCFile \/ FinalizeOStream \/ FinalizeIterator
    /\ UNCHANGED <<kind, writeArea, writeAreaSize, str, given>>

\* The string is used again from its beginning.
Clear ==
    /\ kind = "string" /\ pc \in {"idle", "done"}
    /\ Emptied /\ pc' = "idle" /\ given' = <<>>
    /\ UNCHANGED <<kind, buffer, str, sink, faults>>

Next ==
    \/ \E n \in 0 .. MaxBytes : WriteStr(n)
    \/ Copy \/ Flush \/ Finalize \/ Clear

\* A call that was started runs on.
Spec == Init /\ [][Next]_vars /\ WF_vars(Copy) /\ WF_vars(Flush)

-----------------------------------------------------------------------------
(***************************************************************************)
(* Properties.                                                             *)
(***************************************************************************)

\* The write area ends where the buffer ends and never reaches behind it, which
\* is what makes the memcpy() stay inside; flush() is only asked for when the
\* area is full.  (finalize() of a string gives up the area.)
TypeOK ==
    /\ kind \in Kinds /\ pc \in {"idle", "copy", "flush", "failed", "done", "abandoned"}
    /\ writeArea \in 0 .. Len(buffer)
    /\ pc = "done" \/ writeArea + writeAreaSize = Len(buffer)
    /\ pc = "flush" => writeAreaSize = 0
    /\ str # <<>> => pc \notin {"idle", "done"}
    /\ Len(given) <= MaxBytes /\ faults \in 0 .. MaxFaults

\* Where the bytes of the text are: in the sink (of a string: in the buffer),
\* then in the buffer, then in the rest of the string.
Whole == IF pc = "done" THEN sink ELSE sink \o Filled \o str

\* As long as the sink takes what it gets, the writer neither loses nor repeats
\* nor reorders a byte, wherever in a string the buffer runs full, and after a
\* successful finalize() everything is in the sink.
NothingLost ==
    /\ TypeOK
    /\ faults = 0 => given = IF kind = "string" THEN Filled \o str ELSE Whole

\* A stream that fails, at any write and after any part of it, has received a
\* prefix of the text, and neither a later write_str() that needs room nor
\* finalize() reports success.
StreamGetsAPrefix ==
    kind = "ostream" =>
        IsPrefix(sink, given) /\ (faults > 0 => pc \in {"failed", "abandoned"})

\* BufWriter.hpp, write_str(): "true if serialization was successful".  When
\* every write_str() and finalize() said so, the sink has the text.
TrueMeansWritten == pc = "done" /\ kind # "string" => sink = given

\* A write_str() that was called comes to an end: each round of its loop copies
\* something or gives up, whatever the sink does.
WriteReturns == pc \in {"copy", "flush"} ~> pc \in {"idle", "failed"}
=============================================================================
