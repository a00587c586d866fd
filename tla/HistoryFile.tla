----------------------------- MODULE HistoryFile -----------------------------
(***************************************************************************)
(* crates/nshedit/src/history_file.rs: the container of a history file, a  *)
(* header frame and one frame per record, each written with COBS and ended *)
(* by a zero byte.  A byte is a natural number.  FullBlock is the code of  *)
(* a full block, 255 in the code; the magic is one byte; a length is one   *)
(* byte, as every length below 128 is.                                     *)
(***************************************************************************)
EXTENDS Naturals, Sequences, SequencesExt

CONSTANT FullBlock
ASSUME FullBlockAssumption == FullBlock \in Nat /\ FullBlock > 2

DELIMITER == 0
MAGIC == <<9>>
VERSION == 1

\* What `split(|&b| b == delimiter)` yields: always at least one part.
Split(s, delimiter) ==
  FoldLeft(LAMBDA parts, b : IF b = delimiter THEN Append(parts, <<>>)
                             ELSE Append(Front(parts), Append(Last(parts), b)),
           <<<<>>>>, s)

\* The blocks of a run without zeros, each behind its code.
EncodeRun(run) ==
  LET from[i \in 1..(Len(run) + 1)] ==
        LET left == Len(run) - i + 1
        IN IF left > FullBlock - 2
           THEN <<FullBlock>> \o SubSeq(run, i, i + FullBlock - 2) \o from[i + FullBlock - 1]
           ELSE <<left + 1>> \o SubSeq(run, i, Len(run))
  IN from[1]

cobs_encode(body) ==
  FoldLeft(LAMBDA out, run : out \o EncodeRun(run), <<>>, Split(body, 0))

\* [ok, bytes]: a code that is zero or overruns the frame is not COBS.
Damaged == [ok |-> FALSE, bytes |-> <<>>]

\* Mutant: a zero is put back after a full block as after any other.
DecodeEveryZero(frame) ==
  LET from[i \in 1..(Len(frame) + 1)] ==
        IF i > Len(frame) THEN [ok |-> TRUE, bytes |-> <<>>]
        ELSE LET next == i + frame[i]
             IN IF frame[i] = 0 \/ next > Len(frame) + 1 \/ ~from[next].ok THEN Damaged
                ELSE [ok |-> TRUE,
                      bytes |-> SubSeq(frame, i + 1, next - 1)
                                \o (IF next <= Len(frame) THEN <<0>> ELSE <<>>)
                                \o from[next].bytes]
  IN from[1]

cobs_decode(frame) ==
  LET from[i \in 1..(Len(frame) + 1)] ==
        IF i > Len(frame) THEN [ok |-> TRUE, bytes |-> <<>>]
        ELSE LET next == i + frame[i]
             IN IF frame[i] = 0 \/ next > Len(frame) + 1 \/ ~from[next].ok THEN Damaged
                ELSE [ok |-> TRUE,
                      bytes |-> SubSeq(frame, i + 1, next - 1)
                                \o (IF frame[i] # FullBlock /\ next <= Len(frame)
                                    THEN <<0>> ELSE <<>>)
                                \o from[next].bytes]
  IN from[1]

Frame(body) == Append(cobs_encode(body), DELIMITER)
HeaderFrame == Frame(Append(MAGIC, VERSION))

\* postcard: two byte strings, each behind its length; what follows is ignored.
Serialized(record) ==
  <<Len(record.text)>> \o record.text \o <<Len(record.blob)>> \o record.blob

RecordFrame(record) == Frame(Serialized(record))

NoRecord == [ok |-> FALSE]

decode_record(body) ==
  LET blobAt == body[1] + 2
      blobEnd == blobAt + body[blobAt]
  IN IF body = <<>> \/ Len(body) < blobAt \/ Len(body) < blobEnd THEN NoRecord
     ELSE [ok |-> TRUE,
           record |-> [text |-> SubSeq(body, 2, blobAt - 1),
                       blob |-> SubSeq(body, blobAt + 1, blobEnd)]]

\* Only a terminated first frame can say that a file is ours.
is_nshedit(file) ==
  LET frames == Split(file, DELIMITER)
      head == cobs_decode(frames[1])
  IN Len(frames) > 1 /\ head.ok /\ IsPrefix(MAGIC, head.bytes)

Refused(fault) == [records |-> <<>>, fault |-> fault]

\* One frame behind the header: a record, or a fault that keeps the first one.
TakeFrame(got, frame) ==
  LET body == cobs_decode(frame)
      read == IF body.ok THEN decode_record(body.bytes) ELSE NoRecord
  IN IF read.ok THEN [got EXCEPT !.records = Append(@, read.record)]
     ELSE [got EXCEPT !.fault = IF @ = "None" THEN "BadRecord" ELSE @]

read_nshedit(file) ==
  LET frames == Split(file, DELIMITER)
      head == cobs_decode(frames[1])
      version == head.bytes[Len(MAGIC) + 1]
      unfinished == Len(frames) > 1 /\ Last(frames) # <<>>
      whole == SelectSeq(Tail(IF unfinished THEN Front(frames) ELSE frames),
                         LAMBDA f : f # <<>>)
      got == FoldLeft(TakeFrame, [records |-> <<>>, fault |-> "None"], whole)
  IN IF ~head.ok \/ ~IsPrefix(MAGIC, head.bytes) \/ Len(head.bytes) = Len(MAGIC)
     THEN Refused("NotNsheditFormat")
     ELSE IF version # VERSION THEN Refused("UnsupportedVersion")
     ELSE IF unfinished THEN [got EXCEPT !.fault = "Truncated"]
     ELSE got

\* A file with neither signature is refused; libedit's own is left out.
read(file) ==
  IF is_nshedit(file) THEN read_nshedit(file) ELSE Refused("UnrecognisedFormat")

-----------------------------------------------------------------------------
(***************************************************************************)
(* A file is the header and a sequence of writes.  A write that fails, or  *)
(* a process that dies, leaves only the first `kept` bytes of its frame,   *)
(* at least one: a write that leaves none is no write.                     *)
(***************************************************************************)

IsWhole(w) == w.kept = Len(RecordFrame(w.record))

FileOf(writes) ==
  FoldLeft(LAMBDA f, w : f \o SubSeq(RecordFrame(w.record), 1, w.kept), HeaderFrame, writes)

\* The records whose frame is whole and begins where a frame may begin.
Owed(writes) ==
  LET clean == SelectSeq([i \in DOMAIN writes |-> i],
                         LAMBDA i : IsWhole(writes[i]) /\ (i = 1 \/ IsWhole(writes[i - 1])))
  IN [k \in DOMAIN clean |-> writes[clean[k]].record]

\* Is p what is left of s when some elements are taken out?
IsSubsequence(p, s) ==
  \E keep \in SUBSET DOMAIN s :
    LET kept == SelectSeq([i \in DOMAIN s |-> i], LAMBDA i : i \in keep)
    IN p = [k \in DOMAIN kept |-> s[kept[k]]]

\* Every record written whole at a frame boundary is read back, in order, and a
\* torn write costs no more than the record it runs into: what is read besides
\* comes from a frame some torn write began.  A torn end of the file, and only
\* that, is reported as truncation.
WritesReadBack(writes) ==
  LET got == read(FileOf(writes))
      torn == Cardinality({i \in DOMAIN writes : ~IsWhole(writes[i])})
      tornEnd == writes # <<>> /\ ~IsWhole(Last(writes))
  IN /\ IsSubsequence(Owed(writes), got.records)
     /\ Len(got.records) <= Len(Owed(writes)) + torn
     /\ (got.fault = "Truncated") = tornEnd
     /\ torn = 0 => got = [records |-> Owed(writes), fault |-> "None"]

=============================================================================
