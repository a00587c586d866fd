---------------------------- MODULE InputDecoder ----------------------------
(***************************************************************************)
(* crates/nshedit/src/editor/driver/decode.rs: bytes become text units as  *)
(* they arrive, in whatever pieces the host reads them.  A byte is         *)
(* abstracted to its part in UTF-8: ASCII, the lead of a character of two  *)
(* or of three bytes, a continuation, or a byte no character contains.     *)
(***************************************************************************)
EXTENDS Naturals, Sequences

CONSTANT MaxBytes   \* bound on the bytes of a session

ASSUME BytesAssumption == MaxBytes \in Nat

Bytes == {"ascii", "lead2", "lead3", "cont", "never"}

\* How many bytes the character begun by a byte has; 0 begins none.
CharLength(b) == CASE b = "ascii" -> 1 [] b = "lead2" -> 2 [] b = "lead3" -> 3
                   [] OTHER -> 0

\* How many bytes from i on fit the character that begins at i.
Fitting(s, i) ==
  CHOOSE n \in 0..CharLength(s[i]) :
    /\ \A k \in 1..(n - 1) : i + k \in DOMAIN s /\ s[i + k] = "cont"
    /\ n < CharLength(s[i]) => i + n > Len(s) \/ (n > 0 /\ s[i + n] # "cont")

Scalar(bytes) == [kind |-> "scalar", bytes |-> bytes]
RawByte(b) == [kind |-> "raw", bytes |-> <<b>>]
RawBytes(s) == [i \in DOMAIN s |-> RawByte(s[i])]

NoBytes == [pending |-> <<>>, ready |-> <<>>]

\* Decoder::decode: take whole characters, and byte by byte what can belong to
\* none; keep a character that is still short unless the input has ended.
Decode(d, final) ==
  LET s == d.pending
      from[i \in 1..(Len(s) + 1)] ==
        IF i > Len(s) THEN [ready |-> <<>>, kept |-> i]
        ELSE LET n == Fitting(s, i)
                 whole == CharLength(s[i]) > 0 /\ n = CharLength(s[i])
                 short == n > 0 /\ ~whole /\ i + n > Len(s)
                 bad == IF n = 0 THEN 1 ELSE n
             IN CASE whole -> [from[i + n] EXCEPT
                                 !.ready = <<Scalar(SubSeq(s, i, i + n - 1))>> \o @]
                  [] short /\ ~final -> [ready |-> <<>>, kept |-> i]
                  [] OTHER -> [from[i + bad] EXCEPT
                                 !.ready = RawBytes(SubSeq(s, i, i + bad - 1)) \o @]
  IN [pending |-> SubSeq(s, from[1].kept, Len(s)), ready |-> d.ready \o from[1].ready]

\* Mutant of Push: what a new chunk finds pending is given out as it is.
PushAfresh(d, bytes) ==
  Decode([pending |-> bytes, ready |-> d.ready \o RawBytes(d.pending)], FALSE)

Push(d, bytes) == Decode([d EXCEPT !.pending = @ \o bytes], FALSE)

Finish(d) == Decode(d, TRUE)

-----------------------------------------------------------------------------

\* Where the characters of a byte sequence are, said without reading it from
\* the left: no two of them overlap, for a lead is no continuation.
Characters(s) ==
  {c \in (1..Len(s)) \X (1..3) :
     /\ CharLength(s[c[1]]) = c[2]
     /\ c[1] + c[2] - 1 <= Len(s)
     /\ \A k \in 1..(c[2] - 1) : s[c[1] + k] = "cont"}

\* The units of a byte sequence: its characters, and every other byte raw.
UnitsOf(s) ==
  LET from[i \in 1..(Len(s) + 1)] ==
        IF i > Len(s) THEN <<>>
        ELSE IF \E n \in 1..3 : <<i, n>> \in Characters(s)
             THEN LET n == CHOOSE n \in 1..3 : <<i, n>> \in Characters(s)
                  IN <<Scalar(SubSeq(s, i, i + n - 1))>> \o from[i + n]
             ELSE <<RawByte(s[i])>> \o from[i + 1]
  IN from[1]

-----------------------------------------------------------------------------

VARIABLES
  decoder,    \* ReadDriver::decoder
  taken,      \* history: the units popped, and ...
  received,   \* ... the bytes pushed since the input last ended, and ...
  settled     \* ... the units of all that came before
decoderVars == <<decoder, taken, received, settled>>

DecoderInit == decoder = NoBytes /\ taken = <<>> /\ received = <<>> /\ settled = <<>>

\* The host's reads cut the bytes anywhere.
Receive(bytes) ==
  /\ decoder' = Push(decoder, bytes) /\ received' = received \o bytes
  /\ UNCHANGED <<taken, settled>>

\* The input ends; a terminal's may go on after that.
EndInput ==
  /\ decoder' = Finish(decoder)
  /\ settled' = settled \o UnitsOf(received) /\ received' = <<>> /\ UNCHANGED taken

Pop == /\ decoder.ready # <<>>
       /\ decoder' = [decoder EXCEPT !.ready = Tail(@)]
       /\ taken' = Append(taken, Head(decoder.ready)) /\ UNCHANGED <<received, settled>>

\* A read is given up, and what it has not taken with it.
Clear == /\ decoder' = NoBytes
         /\ settled' = taken /\ received' = <<>> /\ UNCHANGED taken

DecoderNext ==
  \/ \E n \in 1..MaxBytes : /\ Len(settled) + Len(received) + n <= MaxBytes
                            /\ \E bytes \in [1..n -> Bytes] : Receive(bytes)
  \/ EndInput \/ Pop \/ Clear

DecoderSpec == DecoderInit /\ [][DecoderNext]_decoderVars

\* However the host's reads cut the bytes, the units are those of the bytes as a
\* whole: no character is split, lost or doubled, and none reaches over an end.
DecodesAnyChunks ==
  taken \o Finish(decoder).ready = settled \o UnitsOf(received)

=============================================================================
