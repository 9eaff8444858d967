----------------------------- MODULE CaptureFile -----------------------------
(***************************************************************************)
(* The file of a capture, byte by byte: the sink that writes it through a  *)
(* window mapped into memory (sink.cpp), what the record writers put there *)
(* at which time, and the source and reader that read it once the process  *)
(* has ended, in whatever way (source.cpp, record_reader.cpp).             *)
(*                                                                         *)
(* The file grows in pages of zeros, the window slides over it, the header *)
(* is written again in the end, and the file is compressed on closing.     *)
(* What the records mean is RecordStream's: a record is its fields here,   *)
(* of bytes, one for each call of writeAll.                                *)
(***************************************************************************)
EXTENDS Integers, Sequences, SequencesExt

CONSTANTS
    PageSize, BUFFER_SIZE,  \* in bytes
    Formats,                \* the file formats of an instance
    Values,                 \* the bytes that fields have
    MaxRecords, MaxFaults   \* bounds

ASSUME SizeAssumption ==
    /\ PageSize \in Nat \ {0}
    /\ BUFFER_SIZE \in {n * PageSize : n \in 1..8}
    /\ Values \subseteq 0..1

VARIABLES
    format, compress,           \* of the capture, chosen when it begins
    stage, todo,                \* what is being written, and the fields left of it
    kept,                       \* the records an aggregating writer has yet to write
    file,                       \* the bytes of the file, d_fileSize of them
    window, d_bufferOffset,     \* is there a window? where?
    needle, end,                \* within the window
    lz4,                        \* has the compressed file replaced the file?
    rstate, d_readable_size, d_bytes_read, header, delivered,   \* the reader
    faults,
    written, broken, killed     \* histories: the complete records; has a write
                                \* failed? was the process killed?

writer == <<format, compress, stage, todo, kept, written>>
sink == <<file, window, d_bufferOffset, needle, end, lz4>>
reader == <<rstate, d_readable_size, d_bytes_read, header, delivered>>
vars == <<writer, sink, reader, faults, broken, killed>>

\* Tokens: type and flags in one byte.  The formats have different ones.
ALLOCATION == 17
THREAD_RECORD == 10
CONTEXT_SWITCH == 12
TRAILER == 16
MAGIC == 109

\* The fields of records: a varint of one byte, a word of two, a string.
Allocations == {<<<<ALLOCATION>>, <<v>>>> : v \in Values}
ContextSwitches == {<<<<CONTEXT_SWITCH>>, <<v, w>>>> : v, w \in Values}
ThreadRecords == {<<<<THREAD_RECORD>>, <<1, 0>>>>}
Records == Allocations \cup ContextSwitches \cup ThreadRecords

\* HeaderRecord, from its magic to trace_python_allocators; stats is 0 until the
\* writer knows what it has written.
Header(stats) == <<<<MAGIC>>, <<stats>>, <<0>>>>

Bytes(fields) == FlattenSeq(fields)
Zeros(n) == [i \in 1..n |-> 0]
Least(m, n) == IF m <= n THEN m ELSE n

Init ==
    /\ format \in Formats /\ compress \in BOOLEAN
    /\ IF format = "ALL_ALLOCATIONS" THEN stage = "header" /\ todo = Header(0)
                                     ELSE stage = "tracking" /\ todo = <<>>
    /\ kept = <<>> /\ written = <<>>
    /\ file = <<>> /\ window = "none" /\ d_bufferOffset = 0 /\ needle = 0 /\ end = 0
    /\ lz4 = FALSE
    /\ rstate = "closed" /\ d_readable_size = 0 /\ d_bytes_read = 0 /\ header = 0
    /\ delivered = <<>>
    /\ faults = 0 /\ broken = FALSE /\ killed = FALSE

Happens == faults < MaxFaults /\ faults' = faults + 1
Streaming == format = "ALL_ALLOCATIONS"

-----------------------------------------------------------------------------
(* The writers: what they write, in which order *)

Fields(s, k) ==
    CASE s = "header" -> Header(IF Streaming THEN 0 ELSE 1)
      [] s = "final header" -> Header(1)
      [] s = "record" -> Head(k)
      [] s = "trailer" -> <<<<TRAILER>>>>
      [] OTHER -> <<>>

Goes(s, k) == stage' = s /\ kept' = k /\ todo' = Fields(s, k)

\* After the header or a record: the aggregating writer goes on with the next.
Following(k) ==
    IF Streaming THEN "tracking" ELSE IF k = <<>> THEN "trailer" ELSE "record"

\* What follows a method that has written all of its fields.
Completes ==
    /\ CASE stage = "header" -> Goes(Following(kept), kept)
         [] stage = "record" -> Goes(Following(Tail(kept)), Tail(kept))
         [] stage = "trailer" -> Goes(IF Streaming THEN "rewind" ELSE "closing", kept)
         [] stage = "final header" -> Goes("closing", kept)
    /\ written' = IF stage = "record" THEN Append(written, Head(kept)) ELSE written

\* What follows one that could not: a Tracker without a header is not created,
\* one without a record tracks no more, and the aggregating writer gives up, but
\* for the visit of allocations, whose result nobody looks at.
Fails ==
    /\ CASE stage = "record" /\ Streaming -> Goes("tracking", kept)
         [] stage = "record" /\ ~Streaming ->
                Goes(IF Head(kept) \in Allocations THEN "trailer" ELSE "closing", kept)
         [] stage = "trailer" /\ Streaming -> Goes("rewind", kept)
         [] OTHER -> Goes("closing", kept)
    /\ broken' = TRUE /\ UNCHANGED written

\* StreamingRecordWriter writes a record, AggregatingRecordWriter keeps it.
WriteRecord(r) ==
    /\ stage = "tracking" /\ ~broken /\ Len(written) + Len(kept) < MaxRecords
    /\ IF Streaming THEN Goes("record", <<r>>) ELSE Goes("tracking", Append(kept, r))
    /\ UNCHANGED <<format, compress, written, sink, reader, faults, broken, killed>>

\* ~Tracker.
Stop ==
    /\ stage = "tracking"
    /\ Goes(IF Streaming THEN "trailer" ELSE "header", kept)
    /\ UNCHANGED <<format, compress, written, sink, reader, faults, broken, killed>>

-----------------------------------------------------------------------------
(* FileSink: writeAll for the first of the fields, and seek *)

Writing == todo # <<>>

\* A window that could not be mapped again leaves its pointers, whose difference
\* to a null pointer is out of all bounds.
BytesBeyondBufferNeedle == Len(file) - d_bufferOffset - needle
NeedsToGrow == window # "stale" /\ BytesBeyondBufferNeedle < Len(Head(todo))

\* The next multiple of the page size that is more than 110 % of what is needed.
NewSize ==
    LET size == ((Len(file) + Len(Head(todo)) - BytesBeyondBufferNeedle) * 11) \div 10
    IN (size \div PageSize + 1) * PageSize

Grow ==
    /\ Writing /\ NeedsToGrow
    /\ \/ /\ file' = file \o Zeros(NewSize - Len(file))
          /\ UNCHANGED <<stage, todo, kept, written, faults, broken>>
       \/ Happens /\ Fails /\ UNCHANGED file
    /\ UNCHANGED <<format, compress, window, d_bufferOffset, needle, end, lz4, reader, killed>>

\* Mutant: the window is taken to be full, whatever the file has.
MapsFull(offset) ==
    /\ window' = "mapped" /\ d_bufferOffset' = offset
    /\ needle' = 0 /\ end' = BUFFER_SIZE

Maps(offset) ==
    /\ window' = "mapped" /\ d_bufferOffset' = offset
    /\ needle' = 0 /\ end' = Least(Len(file) - offset, BUFFER_SIZE)

\* munmap fails and the window stays, or mmap fails and there is none.
DoesNotMap ==
    /\ \/ window = "mapped" /\ UNCHANGED window
       \/ window' = IF window = "none" THEN "none" ELSE "stale"
    /\ UNCHANGED <<d_bufferOffset, needle, end>>

Slide ==
    /\ Writing /\ ~NeedsToGrow /\ needle = end /\ window # "stale"
    /\ \/ Maps(d_bufferOffset + end) /\ UNCHANGED <<stage, todo, kept, written, faults, broken>>
       \/ Happens /\ DoesNotMap /\ Fails
    /\ UNCHANGED <<format, compress, file, lz4, reader, killed>>

\* An offset like that of no file: mmap fails, or what is mapped has no file
\* behind it and the process gets a signal.
SlideAstray ==
    /\ Writing /\ window = "stale"
    /\ \/ Fails /\ UNCHANGED killed
       \/ Goes("killed", kept) /\ killed' = TRUE /\ UNCHANGED <<written, broken>>
    /\ UNCHANGED <<format, compress, sink, reader, faults>>

\* The first n bytes of the field, as they are copied to the needle.
Copied(n) ==
    [i \in DOMAIN file |->
        LET j == i - d_bufferOffset - needle
        IN IF j \in 1..n THEN Head(todo)[j] ELSE file[i]]

MemCpy ==
    LET field == Head(todo)
        toCopy == Least(end - needle, Len(field))
    IN /\ Writing /\ ~NeedsToGrow /\ window = "mapped" /\ needle < end
       /\ file' = Copied(toCopy) /\ needle' = needle + toCopy
       /\ IF toCopy < Len(field)
          THEN /\ todo' = <<SubSeq(field, toCopy + 1, Len(field))>> \o Tail(todo)
               /\ UNCHANGED <<stage, kept, written>>
          ELSE IF Tail(todo) = <<>> THEN Completes
          ELSE todo' = Tail(todo) /\ UNCHANGED <<stage, kept, written>>
       /\ UNCHANGED <<format, compress, window, d_bufferOffset, end, lz4, reader, faults, broken,
                      killed>>

\* writeHeader(true)
Rewind ==
    /\ stage = "rewind"
    /\ \/ Maps(0) /\ Goes("final header", kept) /\ UNCHANGED <<written, faults, broken>>
       \/ Happens /\ DoesNotMap /\ Fails
    /\ UNCHANGED <<format, compress, file, lz4, reader, killed>>

\* ~FileSink: what has been compressed replaces the file in the end, or not.
Close ==
    /\ stage = "closing" /\ Goes("closed", kept)
    /\ \/ compress /\ lz4' = TRUE /\ UNCHANGED faults
       \/ compress /\ Happens /\ UNCHANGED lz4
       \/ ~compress /\ UNCHANGED <<lz4, faults>>
    /\ UNCHANGED <<format, compress, written, file, window, d_bufferOffset, needle, end, reader,
                   broken, killed>>

\* The process ends, between any two bytes.
Kill ==
    /\ stage \notin {"closed", "killed"}
    /\ killed' = TRUE /\ Goes("killed", kept)
    /\ \/ UNCHANGED file
       \/ /\ Writing /\ ~NeedsToGrow /\ window = "mapped" /\ needle < end
          /\ \E n \in 1..(Least(end - needle, Len(Head(todo))) - 1) : file' = Copied(n)
    /\ UNCHANGED <<format, compress, written, window, d_bufferOffset, needle, end, lz4, reader,
                   faults, broken>>

-----------------------------------------------------------------------------
(* FileSource and RecordReader, afterwards *)

\* Mutant: the zeros at the end are taken for data.
FindReadableSizeOfAll == Len(file)

\* 0 if there is no byte but zeros.
FindReadableSize ==
    LET data == {i \in DOMAIN file : file[i] # 0}
    IN IF data = {} THEN 0 ELSE CHOOSE i \in data : \A j \in data : j <= i

Open ==
    /\ stage \in {"closed", "killed"} /\ rstate = "closed"
    /\ rstate' = "header"
    /\ d_readable_size' = IF lz4 THEN 0 ELSE FindReadableSize
    /\ UNCHANGED <<writer, sink, d_bytes_read, header, delivered, faults, broken, killed>>

\* Can n bytes more be read after the first p?
Readable(p, n) ==
    p + n <= Len(file) /\ (d_readable_size = 0 \/ p + n <= d_readable_size)

\* The length of the string after the first p bytes, with its delimiter.
LineAt(p) ==
    LET ends == {n \in 1..(Len(file) - p) : file[p + n] = 0}
    IN IF ends = {} THEN Len(file) - p + 1 ELSE CHOOSE n \in ends : \A m \in ends : n <= m

ReadHeader ==
    /\ rstate = "header"
    /\ IF Readable(0, 3) /\ file[1] = MAGIC
       THEN rstate' = "reading" /\ header' = file[2] /\ d_bytes_read' = 3
       ELSE rstate' = "not a capture" /\ UNCHANGED <<header, d_bytes_read>>
    /\ UNCHANGED <<writer, sink, d_readable_size, delivered, faults, broken, killed>>

\* The fields after a token at p, by their lengths.
Layout(p) ==
    LET token == file[p + 1]
    IN CASE token = ALLOCATION -> <<1, 1>>
         [] token = CONTEXT_SWITCH -> <<1, 2>>
         [] token = THREAD_RECORD -> <<1, LineAt(p + 1)>>
         [] OTHER -> <<1>>

\* The n bytes after the token at p, or the string.  getline tests the pointer to
\* its stream and not the stream: where there is no readable size, a string that
\* the end cuts off is a string.
Gets(p, n) ==
    \/ Readable(p + 1, n)
    \/ d_readable_size = 0 /\ file[p + 1] = THREAD_RECORD

NextRecord ==
    LET p == d_bytes_read
        layout == Layout(p)
        last == p + layout[1] + layout[2]
    IN /\ rstate = "reading"
       /\ IF ~Readable(p, 1) \/ file[p + 1] = TRAILER
          THEN rstate' = "end" /\ UNCHANGED <<d_bytes_read, delivered>>
          ELSE IF Len(layout) = 1 \/ ~Gets(p, layout[2])
          THEN rstate' = "error" /\ UNCHANGED <<d_bytes_read, delivered>>
          ELSE /\ d_bytes_read' = last
               /\ LET rest == SubSeq(file, p + 2, Least(last, Len(file)))
                  IN delivered' = Append(delivered, <<<<file[p + 1]>>, rest>>)
               /\ UNCHANGED rstate
       /\ UNCHANGED <<writer, sink, d_readable_size, header, faults, broken, killed>>

-----------------------------------------------------------------------------
Next ==
    \/ \E r \in Records : WriteRecord(r)
    \/ Stop \/ Grow \/ Slide \/ SlideAstray \/ MemCpy \/ Rewind \/ Close \/ Kill
    \/ Open \/ ReadHeader \/ NextRecord

Spec == Init /\ [][Next]_vars

-----------------------------------------------------------------------------
\* The window lies within the file, at a page, and the needle within the window.
TypeOK ==
    /\ Len(file) % PageSize = 0 /\ d_bufferOffset % PageSize = 0
    /\ window = "mapped" => d_bufferOffset + end <= Len(file)
    /\ needle \in 0..end /\ end \in 0..BUFFER_SIZE
    /\ stage = "record" => kept # <<>>

IsPrefixedBy(s, t) == Len(t) <= Len(s) /\ SubSeq(s, 1, Len(t)) = t

\* Whatever windows it was written through and however the file has grown, the
\* file holds every complete record behind a header of three bytes, a trailer
\* once that is complete, and zeros after the last byte that was written.
FileHoldsStream ==
    LET records == FlattenSeq([i \in DOMAIN written |-> Bytes(written[i])])
        whole == stage \in {"rewind", "final header"} /\ ~broken
        at == d_bufferOffset + needle
    IN /\ TypeOK
       /\ written # <<>> =>
            IsPrefixedBy(SubSeq(file, 4, Len(file)), IF whole THEN Append(records, TRAILER) ELSE records)
       /\ stage \in {"header", "tracking", "record", "trailer"} /\ window = "mapped" =>
            \A i \in (at + 1)..Len(file) : file[i] = 0

IsRead == rstate \in {"end", "error", "not a capture"}
Lost == Len(written) - Len(delivered)

\* A process that is killed at any moment loses at most its last record, and
\* that only if it ends with a zero byte and nothing has been written after it;
\* and the header with it if there is nothing but the header.  One whose write
\* has failed may have a record more, that the trailer has completed.
KilledCaptureIsReadable ==
    IsRead /\ rstate # "not a capture" =>
        IF Lost >= 0
        THEN /\ IsPrefixedBy(written, delivered)
             /\ Lost > 0 => Lost = 1 /\ (killed \/ broken) /\ Last(Last(written)[2]) = 0
        ELSE Lost = -1 /\ broken /\ IsPrefixedBy(delivered, written)

NothingElseToRead ==
    IsRead /\ rstate = "not a capture" => (killed \/ broken) /\ written = <<>>

\* A capture that was closed without a failure is read as it was written, and
\* up to its end, compressed or not, with what the header says in the end.
ClosedCaptureIsWhole ==
    IsRead /\ ~killed /\ ~broken => rstate = "end" /\ delivered = written /\ header = 1

CaptureIsReadable == KilledCaptureIsReadable /\ NothingElseToRead /\ ClosedCaptureIsWhole
=============================================================================
