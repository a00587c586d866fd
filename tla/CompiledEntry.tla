---------------------------- MODULE CompiledEntry ----------------------------
(***************************************************************************)
(* Reading a compiled terminal description,                                *)
(* crates/nshterm/src/parser/compiled.rs: a header of five sizes, then the *)
(* names, booleans, numbers, string offsets and the table of strings, each *)
(* of them a claim of the file about itself.  Bytes are numbers below      *)
(* Radix, 256 in the code; of what is wrong with a file only that it is.   *)
(***************************************************************************)
EXTENDS Integers, Sequences, SequencesExt, FiniteSets, FiniteSetsExt

CONSTANTS Radix,        \* the values of a byte
          MaxBooleans, MaxNumbers, MaxStrings   \* the lengths of the standard tables of names

Legacy == 1     \* LEGACY_MAGIC: numbers of two bytes
Extended == 2   \* EXTENDED_NUMBER_MAGIC: numbers of four
Cancelled == [state |-> "cancelled"]
Absent == [state |-> "absent"]
Malformed == [state |-> "malformed"]
Value(v) == [state |-> "value", value |-> v]

IsText(bytes) == Radix - 1 \notin ToSet(bytes)     \* String::from_utf8 takes no 0xff

\* Little-endian and in two's complement.
Unsigned(bytes) == FoldRight(LAMBDA b, v : b + Radix * v, bytes, 0)
Signed(bytes) == LET n == Unsigned(bytes)
                 IN  IF 2 * n < Radix ^ Len(bytes) THEN n ELSE n - Radix ^ Len(bytes)

Slice(file, at, count) == SubSeq(file, at + 1, at + count)

\* decode_number, decode_string_offset
StateOf(n) == CASE n = -1 -> Absent [] n = -2 -> Cancelled [] n >= 0 -> Value(n) [] OTHER -> Malformed
\* decode_boolean
BooleanOf(b) == CASE b = 0 -> Absent [] b = 1 -> Value(TRUE) [] b = Radix - 2 -> Cancelled
                  [] OTHER -> Malformed

\* The string at an offset of the table, up to its NUL.
StringAt(table, offset) ==
  LET ends == {k \in DOMAIN table : k > offset /\ table[k] = 0}
  IN  IF ends = {} THEN Malformed ELSE Value(SubSeq(table, offset + 1, Min(ends) - 1))

\* Mutant: no byte is skipped before the numbers.
NoPadding(names, booleans) == 0

\* The byte that puts the numbers on an even address.
Padding(names, booleans) == (names + booleans) % 2

\* The numbers of the header; -1 is an absent section.
Header(file) == [field \in 0..5 |-> Signed(Slice(file, 2 * field, 2))]
Size(header, field) == IF header[field] = -1 THEN 0 ELSE header[field]

\* Where each section begins and how long it is.
Layout(header) ==
  LET wide == IF header[0] = Extended THEN 4 ELSE 2
      booleansAt == 12 + Size(header, 1)
      numbersAt == booleansAt + Size(header, 2) + Padding(Size(header, 1), Size(header, 2))
      offsetsAt == numbersAt + wide * Size(header, 3)
      tableAt == offsetsAt + 2 * Size(header, 4)
  IN  [names |-> Size(header, 1), booleans |-> Size(header, 2), numbers |-> Size(header, 3),
       strings |-> Size(header, 4), table |-> Size(header, 5), wide |-> wide,
       booleansAt |-> booleansAt, numbersAt |-> numbersAt, offsetsAt |-> offsetsAt,
       tableAt |-> tableAt,
       end |-> IF Size(header, 4) > 0 THEN tableAt + Size(header, 5) ELSE offsetsAt]

AdmissibleHeader(header) ==
  header[0] \in {Legacy, Extended} /\ \A field \in 1..5 : header[field] >= -1
AdmissibleLayout(file, l) ==
  /\ l.names > 0 /\ l.booleans <= MaxBooleans
  /\ l.numbers <= MaxNumbers /\ l.strings <= MaxStrings
  /\ Len(file) >= l.end
  /\ file[12 + l.names] = 0
  /\ IsText(Slice(file, 12, l.names - 1))

Booleans(file, l) == [k \in 1..l.booleans |-> BooleanOf(file[l.booleansAt + k])]
Numbers(file, l) ==
  [k \in 1..l.numbers |-> StateOf(Signed(Slice(file, l.numbersAt + l.wide * (k - 1), l.wide)))]
StringFrom(table, offset) ==
  IF offset \in {Absent, Cancelled, Malformed} THEN offset ELSE StringAt(table, offset.value)
Strings(file, l) ==
  [k \in 1..l.strings |->
     StringFrom(Slice(file, l.tableAt, l.table),
                StateOf(Signed(Slice(file, l.offsetsAt + 2 * (k - 1), 2))))]

\* A file is read as a whole or not at all.
Whole(entry) ==
  IF \/ Malformed \in ToSet(entry.booleans) \/ Malformed \in ToSet(entry.numbers)
     \/ Malformed \in ToSet(entry.strings)
  THEN Malformed ELSE entry
ParseSections(file, l) ==
  IF ~AdmissibleLayout(file, l) THEN Malformed
  ELSE Whole([names |-> Slice(file, 12, l.names - 1), booleans |-> Booleans(file, l),
              numbers |-> Numbers(file, l), strings |-> Strings(file, l)])
ParseHeader(file, header) ==
  IF AdmissibleHeader(header) THEN ParseSections(file, Layout(header)) ELSE Malformed
Parse(file) == IF Len(file) < 12 THEN Malformed ELSE ParseHeader(file, Header(file))

-----------------------------------------------------------------------------
(***************************************************************************)
(* The format as term(5) lays it out: a description compiled to a file.    *)
(***************************************************************************)

Encoded(n, bytes) == [k \in 1..bytes |-> ((n % Radix ^ bytes) \div Radix ^ (k - 1)) % Radix]
All(numbers, bytes) == FlattenSeq([k \in DOMAIN numbers |-> Encoded(numbers[k], bytes)])

\* The sizes a header gives, of which one may be false.
Sizes(entry, lie) ==
  LET true == <<Len(entry.names) + 1, Len(entry.booleans), Len(entry.numbers),
                Len(entry.offsets), Len(entry.table)>>
  IN  [k \in 1..5 |-> IF k = lie.field THEN lie.size ELSE true[k]]

Compiled(entry, lie) ==
  LET unpadded == entry.names \o <<0>> \o entry.booleans
  IN  Encoded(entry.magic, 2) \o All(Sizes(entry, lie), 2)
      \o unpadded \o (IF Len(unpadded) % 2 = 1 THEN <<0>> ELSE <<>>)
      \o All(entry.numbers, IF entry.magic = Extended THEN 4 ELSE 2)
      \o All(entry.offsets, 2) \o entry.table

IntegerMeant(n) == IF n >= 0 THEN Value(n) ELSE IF n = -1 THEN Absent ELSE Cancelled
StringsMeant(table, offset) ==
  {s \in {SubSeq(table, offset + 1, k) : k \in offset..Len(table)} :
     0 \notin ToSet(s) /\ IsPrefix(Append(s, 0), SubSeq(table, offset + 1, Len(table)))}
WellFormed(entry) ==
  /\ entry.magic \in {Legacy, Extended}
  /\ IsText(entry.names)
  /\ ToSet(entry.booleans) \subseteq {0, 1, Radix - 2}
  /\ \A n \in ToSet(entry.numbers) \cup ToSet(entry.offsets) : n >= -2
  /\ \A n \in ToSet(entry.offsets) : n >= 0 => StringsMeant(entry.table, n) # {}
Meant(entry) ==
  [names |-> entry.names,
   booleans |-> [k \in DOMAIN entry.booleans |->
                   CASE entry.booleans[k] = 0 -> Absent [] entry.booleans[k] = 1 -> Value(TRUE)
                     [] OTHER -> Cancelled],
   numbers |-> [k \in DOMAIN entry.numbers |-> IntegerMeant(entry.numbers[k])],
   strings |-> [k \in DOMAIN entry.offsets |->
                  IF entry.offsets[k] < 0 THEN IntegerMeant(entry.offsets[k])
                  ELSE Value(CHOOSE s \in StringsMeant(entry.table, entry.offsets[k]) : TRUE)]]

Honest == [field |-> 0, size |-> 0]

\* A description is read as it was compiled, one that is damaged is refused;
\* cut off anywhere it is refused too, unless all that counts was there; and
\* whatever a header claims, what is read was in the file.
EntryIsRead(entry, lie) ==
  \A file \in {Compiled(entry, lie)} : \A read \in {Parse(file)} :
    /\ lie = Honest => read = IF WellFormed(entry) THEN Meant(entry) ELSE Malformed
    /\ \A n \in 0..(Len(file) - 1) : Parse(SubSeq(file, 1, n)) \in {Malformed, read}
    /\ read # Malformed =>
         \A k \in DOMAIN read.strings : LET s == read.strings[k] IN
           s \notin {Absent, Cancelled} => Len(s.value) < Len(entry.table)
=============================================================================
