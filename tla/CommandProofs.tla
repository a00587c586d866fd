---------------------------- MODULE CommandProofs ----------------------------
(***************************************************************************)
(* Proofs about line states and the commands on them.                      *)
(*                                                                         *)
(* LineState: its operators keep every position inside its line, and undo  *)
(* and redo reverse each other.                                            *)
(*                                                                         *)
(* CommandSequences: an edit group is open on the line exactly for the     *)
(* change that is recorded and for the change that is replayed, and in Vi  *)
(* a command makes one undo record.  Sound says how that stands in the     *)
(* middle of a handler; "how" says how much of it is known.  After a       *)
(* history line, which closes the groups under those who opened them,      *)
(* there may be fewer groups ("below"), and after a read that was          *)
(* abandoned there is nothing to say ("none").  Where the record of a      *)
(* command is followed, "how" is how far the command has come: its group   *)
(* is open ("held"), it may still edit once ("fresh"), it has edited       *)
(* ("spent"), its handler has returned ("closed").  Each lemma about a     *)
(* handler is for every "how" the handler may begin in.                    *)
(***************************************************************************)
EXTENDS CommandSequences, SequenceTheorems, WellFoundedInduction, TLAPS

-----------------------------------------------------------------------------
(* Positions.                                                               *)

LEMMA SpliceProperties ==
  ASSUME NEW line \in Lines, NEW new \in Lines, NEW from \in Nat, NEW to \in Nat,
         from <= to, to <= Len(line)
  PROVE  /\ Splice(line, from, to, new) \in Lines
         /\ Len(Splice(line, from, to, new)) = Len(line) - (to - from) + Len(new)
<1> DEFINE left == SubSeq(line, 1, from)
           right == SubSeq(line, to + 1, Len(line))
<1>1. Len(line) \in Nat /\ \A i \in 1..Len(line) : line[i] \in Units
  BY LenProperties, ElementOfSeq DEF Lines
<1>2. left \in Lines /\ Len(left) = from
  <2>1. \A i \in 1..from : line[i] \in Units
    BY <1>1
  <2>. QED  BY <2>1, SubSeqProperties, SMT DEF Lines
<1>3. right \in Lines /\ Len(right) = Len(line) - to
  <2>1. \A i \in (to + 1)..Len(line) : line[i] \in Units
    BY <1>1
  <2>. QED  BY <1>1, <2>1, SubSeqProperties DEF Lines
<1>4. left \o new \in Lines /\ Len(left \o new) = from + Len(new)
  BY <1>2, ConcatProperties DEF Lines
<1>5. /\ left \o new \o right \in Lines
      /\ Len(left \o new \o right) = Len(left \o new) + Len(right)
  BY <1>3, <1>4, ConcatProperties DEF Lines
<1>6. Len(new) \in Nat
  BY LenProperties DEF Lines
<1>7. Splice(line, from, to, new) = left \o new \o right
  BY DEF Splice
<1>. HIDE DEF left, right
<1>8. from + Len(new) + (Len(line) - to) = Len(line) - (to - from) + Len(new)
  BY <1>1, <1>6
<1>. QED  BY <1>3, <1>4, <1>5, <1>7, <1>8

\* A mark of the line is a mark of the line after the replacement.
LEMMA MarkMoves ==
  ASSUME NEW length \in Nat, NEW from \in Nat, NEW to \in Nat, NEW n \in Nat,
         from <= to, to <= length,
         NEW mark \in {None} \cup Nat, mark # None => mark <= length
  PROVE  /\ AdjustMark(mark, from, to, n) \in {None} \cup Nat
         /\ AdjustMark(mark, from, to, n) # None =>
              AdjustMark(mark, from, to, n) <= length - (to - from) + n
  BY LineAssumption DEF AdjustMark, Lesser

LEMMA SnapshotKept == ASSUME NEW e, LineOK(e) PROVE Snapshot(e) \in Kept
  BY DEF LineOK, Editors, Placed, Kept, Snapshots, Snapshot

LEMMA RecordOK ==
  ASSUME NEW e, LineOK(e), NEW before \in Kept
  PROVE  LineOK(Record(e, before))
<1>1. Append(e.undo, before) \in Seq(Kept) /\ <<>> \in Seq(Kept)
  BY AppendProperties, EmptySeq DEF LineOK, Editors
<1>. QED  BY <1>1 DEF LineOK, Editors, Placed, Record

\* Replacing a span of the line keeps the cursor, if it is told one inside the
\* new line, the mark and all records inside their lines.
LEMMA ReplacedOK ==
  ASSUME NEW e, LineOK(e), NEW new \in Lines, NEW from \in Nat, NEW to \in Nat,
         from <= to, to <= Len(e.line), NEW cursor \in Nat,
         cursor <= Len(e.line) - (to - from) + Len(new)
  PROVE  LineOK(Replaced(e, from, to, new, cursor))
<1> DEFINE line == Splice(e.line, from, to, new)
           mark == AdjustMark(e.mark, from, to, Len(new))
           after == [e EXCEPT !.line = line, !.cursor = cursor, !.mark = mark]
<1>1. e \in Editors /\ Placed(e)
  BY DEF LineOK
<1>2. line \in Lines /\ Len(line) = Len(e.line) - (to - from) + Len(new)
  <2>1. e.line \in Lines
    BY <1>1 DEF Editors
  <2>. QED  BY <2>1, SpliceProperties
<1>3. Len(new) \in Nat /\ Len(e.line) \in Nat
  BY <1>1, LenProperties DEF Lines, Editors
<1>4. mark \in {None} \cup Nat /\ (mark # None => mark <= Len(line))
  <2>1. e.mark \in {None} \cup Nat /\ (e.mark # None => e.mark <= Len(e.line))
    BY <1>1 DEF Editors, Placed
  <2>. QED  BY <1>2, <1>3, <2>1, MarkMoves
<1>5. LineOK(after)
  <2>1. after \in Editors
    BY <1>1, <1>2, <1>4 DEF Editors
  <2>2. after.line = line /\ after.cursor = cursor /\ after.mark = mark
    BY <1>1 DEF Editors
  <2>. QED  BY <1>2, <1>4, <2>1, <2>2 DEF LineOK, Placed
<1>6. Replaced(e, from, to, new, cursor) = Edited(e, after)
  BY DEF Replaced
<1>7. LineOK(Edited(e, after))
  BY <1>5, SnapshotKept, RecordOK DEF Edited
<1>. QED  BY <1>6, <1>7

-----------------------------------------------------------------------------
(* Edits.                                                                   *)

LEMMA TextProperties ==
  ASSUME NEW line \in Lines, NEW from \in Nat, NEW to \in Nat,
         from <= to, to <= Len(line)
  PROVE  /\ Text(line, [from |-> from, to |-> to]) \in Lines
         /\ Len(Text(line, [from |-> from, to |-> to])) = to - from
<1>1. \A i \in (from + 1)..to : line[i] \in Units
  BY LenProperties, ElementOfSeq DEF Lines
<1>2. Text(line, [from |-> from, to |-> to]) = SubSeq(line, from + 1, to)
  BY DEF Text
<1>3. Len(line) \in Nat /\ from + 1 \in Nat
  BY LenProperties DEF Lines
<1>4. SubSeq(line, from + 1, to) \in Lines /\ Len(SubSeq(line, from + 1, to)) = to - from
  BY <1>1, <1>3, SubSeqProperties DEF Lines
<1>. QED  BY <1>2, <1>4

\* What LineOK says of the parts of a line state.
LEMMA Parts ==
  ASSUME NEW e, LineOK(e)
  PROVE  /\ e.line \in Lines /\ Len(e.line) \in Nat
         /\ e.cursor \in Nat /\ e.cursor <= Len(e.line)
         /\ e.mark \in {None} \cup Nat /\ (e.mark # None => e.mark <= Len(e.line))
         /\ e.kill \in {None} \cup Lines
         /\ e.input \in InputModes /\ e.keymap \in Keymaps
         /\ e.undo \in Seq(Kept) /\ e.redo \in Seq(Kept)
         /\ e.group \in {None} \cup [before : Kept, depth : Nat \ {0}]
  BY LenProperties DEF LineOK, Editors, Placed, Lines

LEMMA ReplaceSpanOK ==
  ASSUME NEW e, LineOK(e), NEW new \in Lines, NEW from \in Nat, NEW to \in Nat,
         from <= to, to <= Len(e.line)
  PROVE  LineOK(ReplaceSpan(e, new, from, to))
<1>1. Len(new) \in Nat /\ Len(e.line) \in Nat
  BY Parts, LenProperties DEF Lines
<1>2. /\ from + Len(new) \in Nat
      /\ from + Len(new) <= Len(e.line) - (to - from) + Len(new)
  BY <1>1
<1>. QED  BY <1>2, ReplacedOK DEF ReplaceSpan

\* Text typed or pasted, inserted or over what is there.
THEOREM InsertTextOK ==
  ASSUME NEW e, LineOK(e), NEW text \in Lines
  PROVE  LineOK(InsertText(e, text))
<1> DEFINE end == CASE e.input = "insert" -> e.cursor
                    [] e.input = "replace" -> Lesser(e.cursor + Len(text), Len(e.line))
                    [] e.input = "replace_once" -> Lesser(e.cursor + 1, Len(e.line))
           inserted == ReplaceSpan(e, text, e.cursor, end)
<1>1. Len(text) \in Nat
  BY LenProperties DEF Lines
<1>2. end \in Nat /\ e.cursor <= end /\ end <= Len(e.line)
  <2>1. /\ e.cursor \in Nat /\ Len(e.line) \in Nat /\ e.cursor <= Len(e.line)
        /\ e.input \in InputModes
    BY Parts
  <2>2. \A n \in Nat :
          /\ Lesser(e.cursor + n, Len(e.line)) \in Nat
          /\ e.cursor <= Lesser(e.cursor + n, Len(e.line))
          /\ Lesser(e.cursor + n, Len(e.line)) <= Len(e.line)
    BY <2>1 DEF Lesser
  <2>3. \/ end = e.cursor
        \/ end = Lesser(e.cursor + Len(text), Len(e.line))
        \/ end = Lesser(e.cursor + 1, Len(e.line))
    BY <2>1 DEF InputModes
  <2>. HIDE DEF end
  <2>4. CASE end = e.cursor
    BY <2>1, <2>4
  <2>5. CASE end = Lesser(e.cursor + Len(text), Len(e.line))
    BY <1>1, <2>2, <2>5
  <2>6. CASE end = Lesser(e.cursor + 1, Len(e.line))
    BY <2>2, <2>6
  <2>. QED  BY <2>3, <2>4, <2>5, <2>6
<1>3. LineOK(inserted)
  <2>. HIDE DEF end
  <2>. QED  BY <1>2, Parts, ReplaceSpanOK
<1>4. LineOK([inserted EXCEPT !.input = "insert"])
  <2>. HIDE DEF inserted
  <2>. QED  BY <1>3 DEF LineOK, Editors, Placed, InputModes
<1>5. \/ InsertText(e, text) = e
      \/ InsertText(e, text) = inserted
      \/ InsertText(e, text) = [inserted EXCEPT !.input = "insert"]
  BY DEF InsertText
<1>. QED  BY <1>3, <1>4, <1>5

\* Deleting a span of the line, and killing it.
THEOREM DeleteOK ==
  ASSUME NEW e, LineOK(e), NEW from \in Nat, NEW to \in Nat,
         from <= to, to <= Len(e.line)
  PROVE  /\ LineOK(Delete(e, [from |-> from, to |-> to]))
         /\ LineOK(Copy(e, [from |-> from, to |-> to]))
         /\ LineOK(Kill(e, [from |-> from, to |-> to]))
<1> DEFINE span == [from |-> from, to |-> to]
<1>1. <<>> \in Lines /\ Len(<<>>) = 0
  BY EmptySeq DEF Lines
<1>2. LineOK(Delete(e, span))
  <2>1. from <= Len(e.line) - (to - from) + Len(<<>>)
    BY <1>1, Parts
  <2>2. Delete(e, span) = Replaced(e, from, to, <<>>, from)
    BY DEF Delete
  <2>. QED  BY <1>1, <2>1, <2>2, ReplacedOK
<1>3. \A any : \A text \in Lines : LineOK(any) => LineOK([any EXCEPT !.kill = text])
  BY DEF LineOK, Editors, Placed
<1>4. Text(e.line, span) \in Lines
  BY Parts, TextProperties
<1>. QED  BY <1>2, <1>3, <1>4 DEF Copy, Kill

\* What was killed comes back at the cursor or after it.
THEOREM YankOK ==
  ASSUME NEW e, LineOK(e), NEW placement
  PROVE  LineOK(Yank(e, placement))
<1> DEFINE at == IF placement = "at_cursor" THEN e.cursor ELSE After(e)
<1>1. at \in Nat /\ at <= Len(e.line)
  <2>1. e.cursor \in Nat /\ Len(e.line) \in Nat /\ e.cursor <= Len(e.line)
    BY Parts
  <2>2. After(e) \in Nat /\ After(e) <= Len(e.line)
    BY <2>1 DEF After, Lesser
  <2>3. at \in {e.cursor, After(e)}
    OBVIOUS
  <2>. HIDE DEF at
  <2>. QED  BY <2>1, <2>2, <2>3
<1>2. CASE e.kill = None
  BY <1>2 DEF Yank
<1>3. CASE e.kill # None
  <2>1. e.kill \in Lines
    BY <1>3, Parts
  <2>2. Yank(e, placement) = ReplaceSpan(e, e.kill, at, at)
    BY <1>3 DEF Yank
  <2>. HIDE DEF at
  <2>. QED  BY <1>1, <2>1, <2>2, ReplaceSpanOK
<1>. QED  BY <1>2, <1>3

THEOREM ToggleCaseOK ==
  ASSUME NEW e, LineOK(e), NEW from \in Nat, NEW to \in Nat,
         from <= to, to <= Len(e.line)
  PROVE  LineOK(ToggleCase(e, [from |-> from, to |-> to]))
<1> DEFINE text == Text(e.line, [from |-> from, to |-> to])
           toggled == [i \in DOMAIN text |-> Toggled[text[i]]]
<1>1. text \in Lines
  BY Parts, TextProperties
<1>2. toggled \in Lines
  <2>. HIDE DEF text
  <2>1. Len(text) \in Nat /\ DOMAIN text = 1..Len(text)
    BY <1>1, LenProperties DEF Lines
  <2>2. \A i \in 1..Len(text) : text[i] \in Units
    BY <1>1, ElementOfSeq DEF Lines
  <2>3. \A i \in 1..Len(text) : Toggled[text[i]] \in Units
    BY <2>2, LineAssumption
  <2>. QED  BY <2>1, <2>3 DEF Lines
<1>3. ToggleCase(e, [from |-> from, to |-> to]) = ReplaceSpan(e, toggled, from, to)
  BY DEF ToggleCase
<1>. HIDE DEF toggled
<1>. QED  BY <1>2, <1>3, ReplaceSpanOK

\* The two units before the cursor, or around it, change places.
THEOREM TransposeOK ==
  ASSUME NEW e, LineOK(e)
  PROVE  LineOK(Transpose(e))
<1> DEFINE first == IF e.cursor = Len(e.line) THEN e.cursor - 2 ELSE e.cursor - 1
           new == <<e.line[first + 2], e.line[first + 1]>>
           line == Splice(e.line, first, first + 2, new)
           after == [e EXCEPT !.line = line, !.cursor = After(e)]
<1>1. CASE e.cursor = 0 \/ Len(e.line) < 2
  BY <1>1 DEF Transpose
<1>2. CASE ~(e.cursor = 0 \/ Len(e.line) < 2)
  <2>1. /\ e \in Editors
        /\ e.line \in Lines /\ Len(e.line) \in Nat
        /\ e.cursor \in Nat /\ e.cursor <= Len(e.line)
        /\ e.mark # None => e.mark <= Len(e.line)
    BY Parts DEF LineOK
  <2>2. first \in Nat /\ first + 2 <= Len(e.line)
    BY <1>2, <2>1
  <2>3. Transpose(e) = Edited(e, after)
    BY <1>2 DEF Transpose, Swap
  <2>. HIDE DEF first
  <2>4. new \in Lines /\ Len(new) = 2
    <3>1. first + 1 \in 1..Len(e.line) /\ first + 2 \in 1..Len(e.line)
      BY <2>1, <2>2
    <3>2. e.line[first + 1] \in Units /\ e.line[first + 2] \in Units
      BY <2>1, <3>1, ElementOfSeq DEF Lines
    <3>. QED  BY <3>2 DEF Lines
  <2>. HIDE DEF new
  <2>5. line \in Lines /\ Len(line) = Len(e.line)
    <3>1. /\ line \in Lines
          /\ Len(line) = Len(e.line) - (first + 2 - first) + Len(new)
      <4>1. first + 2 \in Nat /\ first <= first + 2
        BY <2>2
      <4>2. \A to \in Nat : first <= to /\ to <= Len(e.line) =>
              /\ Splice(e.line, first, to, new) \in Lines
              /\ Len(Splice(e.line, first, to, new)) =
                   Len(e.line) - (to - first) + Len(new)
        BY <2>1, <2>2, <2>4, SpliceProperties
      <4>. QED  BY <2>2, <4>1, <4>2
    <3>. QED  BY <2>1, <2>2, <2>4, <3>1
  <2>6. After(e) \in Nat /\ After(e) <= Len(e.line)
    BY <2>1 DEF After, Lesser
  <2>. HIDE DEF line
  <2>7. LineOK(after)
    BY <2>1, <2>5, <2>6 DEF LineOK, Editors, Placed
  <2>. QED  BY <2>3, <2>7, SnapshotKept, RecordOK DEF Edited
<1>. QED  BY <1>1, <1>2

\* The mark is set at the cursor, and the two are exchanged.
THEOREM MarksOK ==
  ASSUME NEW e, LineOK(e)
  PROVE  /\ LineOK(SetMark(e))
         /\ e.mark # None => LineOK(ExchangeMark(e))
  BY DEF LineOK, Editors, Placed, SetMark, ExchangeMark

-----------------------------------------------------------------------------
(* Undo records and groups.                                                 *)

LEMMA RestoredOK ==
  ASSUME NEW e, LineOK(e), NEW snapshot \in Kept, NEW undo \in Seq(Kept), NEW redo \in Seq(Kept)
  PROVE  LineOK([Restored(e, snapshot) EXCEPT !.undo = undo, !.redo = redo])
  BY DEF LineOK, Editors, Placed, Kept, Snapshots, Restored

LEMMA StackProperties ==
  ASSUME NEW stack \in Seq(Kept), stack # <<>>
  PROVE  /\ Latest(stack) \in Kept
         /\ Earlier(stack) \in Seq(Kept)
         /\ Append(Earlier(stack), Latest(stack)) = stack
<1>1. Len(stack) \in Nat /\ Len(stack) >= 1
  BY EmptySeq, LenProperties
<1>2. \A i \in 1..Len(stack) : stack[i] \in Kept
  BY ElementOfSeq
<1>3. /\ Earlier(stack) \in Seq(Kept)
      /\ Len(Earlier(stack)) = Len(stack) - 1
      /\ \A i \in 1..(Len(stack) - 1) : Earlier(stack)[i] = stack[i]
  <2> DEFINE n == Len(stack) - 1
             shorter == SubSeq(stack, 1, n)
  <2>1. n \in Nat /\ \A i \in 1..n : stack[i] \in Kept
    BY <1>1, <1>2
  <2>. HIDE DEF n
  <2>2. /\ shorter \in Seq(Kept)
        /\ Len(shorter) = IF 1 <= n THEN n - 1 + 1 ELSE 0
        /\ \A i \in 1..(n - 1 + 1) : shorter[i] = stack[1 + i - 1]
    BY <2>1, SubSeqProperties
  <2>. HIDE DEF shorter
  <2>3. Len(shorter) = n
    BY <2>1, <2>2
  <2>4. \A i \in 1..n : shorter[i] = stack[i]
    BY <2>1, <2>2
  <2>5. Earlier(stack) = shorter
    BY DEF Earlier, n, shorter
  <2>. QED  BY <2>2, <2>3, <2>4, <2>5 DEF n
<1>4. Latest(stack) \in Kept
  BY <1>1, <1>2 DEF Latest
<1>5. Append(Earlier(stack), Latest(stack)) = stack
  <2>1. /\ Append(Earlier(stack), Latest(stack)) \in Seq(Kept)
        /\ Len(Append(Earlier(stack), Latest(stack))) = Len(stack)
        /\ \A i \in 1..(Len(stack) - 1) :
             Append(Earlier(stack), Latest(stack))[i] = stack[i]
        /\ Append(Earlier(stack), Latest(stack))[Len(stack)] = stack[Len(stack)]
    BY <1>1, <1>3, <1>4, AppendProperties DEF Latest
  <2>. QED  BY <1>1, <2>1, SeqEqual
<1>. QED  BY <1>3, <1>4, <1>5

LEMMA PoppedOK ==
  ASSUME NEW stack \in Seq(Kept), NEW snapshot \in Kept
  PROVE  /\ Append(stack, snapshot) \in Seq(Kept)
         /\ Append(stack, snapshot) # <<>>
         /\ Latest(Append(stack, snapshot)) = snapshot
         /\ Earlier(Append(stack, snapshot)) = stack
<1> DEFINE longer == Append(stack, snapshot)
<1>1. /\ longer \in Seq(Kept) /\ longer # <<>> /\ Len(longer) = Len(stack) + 1
      /\ \A i \in 1..Len(stack) : longer[i] = stack[i]
      /\ longer[Len(stack) + 1] = snapshot
  BY AppendProperties
<1>2. Len(stack) \in Nat
  BY LenProperties
<1>. HIDE DEF longer
<1>3. Latest(longer) = snapshot
  BY <1>1 DEF Latest
<1>4. \A i \in 1..Len(longer) : longer[i] \in Kept
  BY <1>1, ElementOfSeq
<1>5. /\ Earlier(longer) \in Seq(Kept) /\ Len(Earlier(longer)) = Len(stack)
      /\ \A i \in 1..Len(stack) : Earlier(longer)[i] = stack[i]
  BY <1>1, <1>2, <1>4, SubSeqProperties DEF Earlier
<1>6. Earlier(longer) = stack
  BY <1>5, SeqEqual
<1>. QED  BY <1>1, <1>3, <1>6 DEF longer

\* Undo and redo leave a line state with every position in place.
THEOREM UndoOK ==
  ASSUME NEW e, LineOK(e)
  PROVE  LineOK(Undo(e)) /\ LineOK(Redo(e))
<1>1. /\ e.undo \in Seq(Kept) /\ e.redo \in Seq(Kept) /\ Snapshot(e) \in Kept
  BY Parts, SnapshotKept
<1>2. LineOK(Undo(e))
  <2>1. CASE e.undo = <<>>
    BY <2>1 DEF Undo
  <2>2. CASE e.undo # <<>>
    <3>1. /\ Latest(e.undo) \in Kept /\ Earlier(e.undo) \in Seq(Kept)
          /\ Append(e.redo, Snapshot(e)) \in Seq(Kept)
      BY <1>1, <2>2, StackProperties, PoppedOK
    <3>2. Undo(e) = [Restored(e, Latest(e.undo)) EXCEPT
                       !.undo = Earlier(e.undo), !.redo = Append(e.redo, Snapshot(e))]
      BY <2>2 DEF Undo, Restored, LineOK, Editors
    <3>3. LineOK([Restored(e, Latest(e.undo)) EXCEPT
                    !.undo = Earlier(e.undo), !.redo = Append(e.redo, Snapshot(e))])
      BY ONLY <3>1, LineOK(e), RestoredOK
    <3>. QED  BY ONLY <3>2, <3>3
  <2>. QED  BY <2>1, <2>2
<1>3. LineOK(Redo(e))
  <2>1. CASE e.redo = <<>>
    BY <2>1 DEF Redo
  <2>2. CASE e.redo # <<>>
    <3>1. /\ Latest(e.redo) \in Kept /\ Earlier(e.redo) \in Seq(Kept)
          /\ Append(e.undo, Snapshot(e)) \in Seq(Kept)
      BY <1>1, <2>2, StackProperties, PoppedOK
    <3>2. Redo(e) = [Restored(e, Latest(e.redo)) EXCEPT
                       !.undo = Append(e.undo, Snapshot(e)), !.redo = Earlier(e.redo)]
      BY <2>2 DEF Redo, Restored, LineOK, Editors
    <3>3. LineOK([Restored(e, Latest(e.redo)) EXCEPT
                    !.undo = Append(e.undo, Snapshot(e)), !.redo = Earlier(e.redo)])
      BY ONLY <3>1, LineOK(e), RestoredOK
    <3>. QED  BY ONLY <3>2, <3>3
  <2>. QED  BY <2>1, <2>2
<1>. QED  BY <1>2, <1>3

\* Opening a group, closing it and closing all of them.
THEOREM GroupsOK ==
  ASSUME NEW e, LineOK(e)
  PROVE  LineOK(BeginGroup(e)) /\ LineOK(FinishGroup(e)) /\ LineOK(FinishAllGroups(e))
<1>1. /\ e \in Editors /\ Snapshot(e) \in Kept
      /\ e.group # None => e.group \in [before : Kept, depth : Nat \ {0}]
  BY Parts, SnapshotKept DEF LineOK
<1>2. LineOK(BeginGroup(e))
  <2>1. CASE e.group = None
    BY <1>1, <2>1 DEF BeginGroup, LineOK, Editors, Placed
  <2>2. CASE e.group # None
    <3>1. BeginGroup(e) = [e EXCEPT !.group = [e.group EXCEPT !.depth = e.group.depth + 1]]
      BY <1>1, <2>2 DEF BeginGroup, Editors
    <3>2. [e.group EXCEPT !.depth = e.group.depth + 1] \in [before : Kept, depth : Nat \ {0}]
      BY <1>1, <2>2
    <3>. QED  BY <1>1, <3>1, <3>2 DEF LineOK, Editors, Placed
  <2>. QED  BY <2>1, <2>2
<1>3. LineOK(FinishAllGroups(e))
  <2> DEFINE closed == [e EXCEPT !.group = None]
  <2>1. LineOK(closed)
    BY DEF LineOK, Editors, Placed
  <2>2. CASE e.group = None \/ e.line = e.group.before.line
    BY <2>1, <2>2 DEF FinishAllGroups
  <2>3. CASE ~(e.group = None \/ e.line = e.group.before.line)
    <3>1. FinishAllGroups(e) = Record(closed, e.group.before)
      BY <2>3 DEF FinishAllGroups
    <3>2. e.group.before \in Kept
      BY <1>1, <2>3
    <3>. HIDE DEF closed
    <3>. QED  BY <2>1, <3>1, <3>2, RecordOK
  <2>. QED  BY <2>2, <2>3
<1>4. LineOK(FinishGroup(e))
  <2>1. CASE e.group # None /\ e.group.depth > 1
    <3>1. FinishGroup(e) = [e EXCEPT !.group = [e.group EXCEPT !.depth = e.group.depth - 1]]
      BY <1>1, <2>1 DEF FinishGroup, Editors
    <3>2. [e.group EXCEPT !.depth = e.group.depth - 1] \in [before : Kept, depth : Nat \ {0}]
      BY <1>1, <2>1
    <3>. QED  BY <1>1, <3>1, <3>2 DEF LineOK, Editors, Placed
  <2>2. CASE ~(e.group # None /\ e.group.depth > 1)
    BY <1>3, <2>2 DEF FinishGroup
  <2>. QED  BY <2>1, <2>2
<1>. QED  BY <1>2, <1>3, <1>4

\* A line taken from history, and a fresh one, are line states too.
THEOREM NewLinesOK ==
  ASSUME NEW e, LineOK(e), NEW line \in Lines
  PROVE  LineOK(RestoreHistory(e, line)) /\ LineOK(ResetLine(e))
<1>1. Len(line) \in Nat /\ <<>> \in Lines /\ Len(<<>>) = 0 /\ <<>> \in Seq(Kept)
  BY EmptySeq, LenProperties DEF Lines
<1>2. /\ e \in Editors
      /\ e.mark \in {None} \cup Nat /\ e.kill \in {None} \cup Lines /\ e.keymap \in Keymaps
  BY Parts DEF LineOK
<1>3. LineOK(RestoreHistory(e, line))
  <2> DEFINE mark == IF e.mark = None THEN None ELSE Lesser(e.mark, Len(line))
             cursor == IF e.keymap = "emacs" THEN Len(line) ELSE 0
  <2>1. mark \in {None} \cup Nat /\ (mark # None => mark <= Len(line))
    BY <1>1, <1>2 DEF Lesser
  <2>2. cursor \in Nat /\ cursor <= Len(line)
    BY <1>1
  <2>3. RestoreHistory(e, line) =
          [e EXCEPT !.line = line, !.cursor = cursor, !.mark = mark,
                    !.undo = <<>>, !.redo = <<>>, !.group = None]
    BY <1>2 DEF RestoreHistory, Editors
  <2>. HIDE DEF mark, cursor
  <2>. QED  BY <1>1, <1>2, <2>1, <2>2, <2>3 DEF LineOK, Editors, Placed
<1>4. LineOK(ResetLine(e))
  <2> DEFINE keymap == IF e.keymap = "emacs" THEN "emacs" ELSE "vi_insert"
             fresh == [line |-> <<>>, cursor |-> 0, mark |-> None, kill |-> e.kill,
                       input |-> "insert", keymap |-> keymap,
                       undo |-> <<>>, redo |-> <<>>, group |-> None]
  <2>1. ResetLine(e) = fresh
    <3>1. \A empty, k, kill :
            [[line |-> empty, cursor |-> 0, mark |-> None, kill |-> None,
              input |-> "insert", keymap |-> k,
              undo |-> empty, redo |-> empty, group |-> None] EXCEPT !.kill = kill]
            = [line |-> empty, cursor |-> 0, mark |-> None, kill |-> kill,
               input |-> "insert", keymap |-> k,
               undo |-> empty, redo |-> empty, group |-> None]
      OBVIOUS
    <3>. QED  BY <3>1, Zenon DEF ResetLine, Opened
  <2>2. keymap \in Keymaps /\ "insert" \in InputModes
    BY DEF Keymaps, InputModes
  <2>. HIDE DEF keymap
  <2>3. fresh \in Editors
    BY <1>1, <1>2, <2>2 DEF Editors
  <2>4. Placed(fresh)
    BY <1>1 DEF Placed
  <2>. QED  BY <2>1, <2>3, <2>4 DEF LineOK
<1>. QED  BY <1>3, <1>4

-----------------------------------------------------------------------------
(* What undo undoes.                                                        *)

LEMMA SameEditor ==
  ASSUME NEW e \in Editors, NEW f \in Editors,
         e.line = f.line, e.cursor = f.cursor, e.mark = f.mark, e.kill = f.kill,
         e.input = f.input, e.keymap = f.keymap, e.undo = f.undo, e.redo = f.redo,
         e.group = f.group
  PROVE  e = f
  BY DEF Editors

LEMMA UndoParts ==
  ASSUME NEW e, LineOK(e), e.undo # <<>>
  PROVE  /\ Snapshot(Undo(e)) = Latest(e.undo)
         /\ Undo(e).undo = Earlier(e.undo)
         /\ Undo(e).redo = Append(e.redo, Snapshot(e))
         /\ Undo(e).kill = e.kill /\ Undo(e).keymap = e.keymap /\ Undo(e).group = e.group
<1>1. e \in Editors /\ Latest(e.undo) \in Kept
  BY Parts, StackProperties DEF LineOK
<1>2. Undo(e) = [Restored(e, Latest(e.undo)) EXCEPT
                   !.undo = Earlier(e.undo), !.redo = Append(e.redo, Snapshot(e))]
  BY <1>1 DEF Undo, Restored, Editors
<1>3. /\ Undo(e).line = Latest(e.undo).line /\ Undo(e).cursor = Latest(e.undo).cursor
      /\ Undo(e).mark = Latest(e.undo).mark /\ Undo(e).input = Latest(e.undo).input
  BY <1>1, <1>2 DEF Restored, Editors
<1>4. /\ Undo(e).undo = Earlier(e.undo) /\ Undo(e).redo = Append(e.redo, Snapshot(e))
      /\ Undo(e).kill = e.kill /\ Undo(e).keymap = e.keymap /\ Undo(e).group = e.group
  BY <1>1, <1>2 DEF Restored, Editors
<1>5. Latest(e.undo) =
        [line |-> Latest(e.undo).line, cursor |-> Latest(e.undo).cursor,
         mark |-> Latest(e.undo).mark, input |-> Latest(e.undo).input]
  BY <1>1 DEF Kept, Snapshots
<1>. QED  BY <1>3, <1>4, <1>5 DEF Snapshot

LEMMA RedoParts ==
  ASSUME NEW e, LineOK(e), e.redo # <<>>
  PROVE  /\ Snapshot(Redo(e)) = Latest(e.redo)
         /\ Redo(e).redo = Earlier(e.redo)
         /\ Redo(e).undo = Append(e.undo, Snapshot(e))
         /\ Redo(e).kill = e.kill /\ Redo(e).keymap = e.keymap /\ Redo(e).group = e.group
<1>1. e \in Editors /\ Latest(e.redo) \in Kept
  BY Parts, StackProperties DEF LineOK
<1>2. Redo(e) = [Restored(e, Latest(e.redo)) EXCEPT
                   !.undo = Append(e.undo, Snapshot(e)), !.redo = Earlier(e.redo)]
  BY <1>1 DEF Redo, Restored, Editors
<1>3. /\ Redo(e).line = Latest(e.redo).line /\ Redo(e).cursor = Latest(e.redo).cursor
      /\ Redo(e).mark = Latest(e.redo).mark /\ Redo(e).input = Latest(e.redo).input
  BY <1>1, <1>2 DEF Restored, Editors
<1>4. /\ Redo(e).redo = Earlier(e.redo) /\ Redo(e).undo = Append(e.undo, Snapshot(e))
      /\ Redo(e).kill = e.kill /\ Redo(e).keymap = e.keymap /\ Redo(e).group = e.group
  BY <1>1, <1>2 DEF Restored, Editors
<1>5. Latest(e.redo) =
        [line |-> Latest(e.redo).line, cursor |-> Latest(e.redo).cursor,
         mark |-> Latest(e.redo).mark, input |-> Latest(e.redo).input]
  BY <1>1 DEF Kept, Snapshots
<1>. QED  BY <1>3, <1>4, <1>5 DEF Snapshot

\* Undoing an edit that was a record of its own gives back the line, the
\* cursor, the mark and the input mode it began with, and leaves the older
\* records as they were.
THEOREM UndoReverses ==
  ASSUME NEW e, LineOK(e), e.group = None,
         NEW new \in Lines, NEW from \in Nat, NEW to \in Nat,
         from <= to, to <= Len(e.line), NEW cursor \in Nat,
         cursor <= Len(e.line) - (to - from) + Len(new),
         Splice(e.line, from, to, new) # e.line
  PROVE  /\ Snapshot(Undo(Replaced(e, from, to, new, cursor))) = Snapshot(e)
         /\ Undo(Replaced(e, from, to, new, cursor)).undo = e.undo
<1> DEFINE line == Splice(e.line, from, to, new)
           mark == AdjustMark(e.mark, from, to, Len(new))
           after == [e EXCEPT !.line = line, !.cursor = cursor, !.mark = mark]
           replaced == Replaced(e, from, to, new, cursor)
<1>1. e \in Editors /\ e.undo \in Seq(Kept) /\ Snapshot(e) \in Kept
  BY Parts, SnapshotKept DEF LineOK
<1>2. after.line = line /\ after.group = None /\ after.undo = e.undo
  BY <1>1 DEF Editors
<1>3. replaced = Record(after, Snapshot(e))
  BY <1>2 DEF Replaced, Edited
<1>4. replaced.undo = Append(e.undo, Snapshot(e))
  BY <1>1, <1>3 DEF Record, Editors
<1>5. /\ replaced.undo # <<>>
      /\ Latest(replaced.undo) = Snapshot(e)
      /\ Earlier(replaced.undo) = e.undo
  BY <1>1, <1>4, PoppedOK
<1>6. LineOK(replaced)
  BY ReplacedOK
<1>. HIDE DEF replaced
<1>7. /\ Snapshot(Undo(replaced)) = Latest(replaced.undo)
      /\ Undo(replaced).undo = Earlier(replaced.undo)
  BY <1>5, <1>6, UndoParts
<1>. QED  BY <1>5, <1>7 DEF replaced

\* Redoing what was just undone gives back the whole line state: the line, its
\* positions and modes, the kill and both stacks.
THEOREM RedoReverses ==
  ASSUME NEW e, LineOK(e), e.undo # <<>>
  PROVE  Redo(Undo(e)) = e
<1> DEFINE undone == Undo(e)
           redone == Redo(undone)
<1>1. /\ e \in Editors /\ e.undo \in Seq(Kept) /\ e.redo \in Seq(Kept)
      /\ Snapshot(e) \in Kept
  BY Parts, SnapshotKept DEF LineOK
<1>2. LineOK(undone) /\ LineOK(redone)
  BY UndoOK
<1>3. /\ Snapshot(undone) = Latest(e.undo)
      /\ undone.undo = Earlier(e.undo)
      /\ undone.redo = Append(e.redo, Snapshot(e))
      /\ undone.kill = e.kill /\ undone.keymap = e.keymap /\ undone.group = e.group
  BY UndoParts
<1>4. /\ undone.redo # <<>>
      /\ Latest(undone.redo) = Snapshot(e)
      /\ Earlier(undone.redo) = e.redo
  BY <1>1, <1>3, PoppedOK
<1>. HIDE DEF undone
<1>5. /\ Snapshot(redone) = Snapshot(e)
      /\ redone.redo = e.redo
      /\ redone.undo = Append(undone.undo, Snapshot(undone))
      /\ redone.kill = e.kill /\ redone.keymap = e.keymap /\ redone.group = e.group
  BY <1>2, <1>3, <1>4, RedoParts
<1>6. redone.undo = e.undo
  BY <1>1, <1>3, <1>5, StackProperties
<1>. HIDE DEF redone
<1>7. /\ redone.line = e.line /\ redone.cursor = e.cursor
      /\ redone.mark = e.mark /\ redone.input = e.input
  BY <1>5 DEF Snapshot
<1>8. redone = e
  BY <1>1, <1>2, <1>5, <1>6, <1>7, SameEditor DEF LineOK
<1>. QED  BY <1>8 DEF redone, undone

-----------------------------------------------------------------------------
(* A line state, as far as edit groups are concerned: what it is made of    *)
(* does not matter, but that it has the fields does.                        *)

IsEditor(e) ==
  e \in [line : {e.line}, cursor : {e.cursor}, mark : {e.mark}, kill : {e.kill},
         input : {e.input}, keymap : Keymaps, undo : {e.undo}, redo : {e.redo},
         group : {e.group}]

\* f is a line state with the edit group of e.
SameGroup(e, f) == IsEditor(f) /\ f.group = e.group

\* f is what one edit of the line makes of e: a record of its own, unless the
\* line is as before or a group is open.
SameMode(e, f) == f.keymap = "emacs" => e.keymap = "emacs"
SingleEdit(e, f) ==
  /\ SameGroup(e, f) /\ SameMode(e, f)
  /\ IF e.group # None \/ f.line = e.line
     THEN f.undo = e.undo /\ f.redo = e.redo
     ELSE f.undo = Append(e.undo, Snapshot(e)) /\ f.redo = <<>>

\* f differs from e in what no record is about.
Aside(e, f) ==
  /\ SameGroup(e, f) /\ SameMode(e, f)
  /\ f.line = e.line /\ f.undo = e.undo /\ f.redo = e.redo

LEMMA AsideEdits ==
  /\ \A e, f : Aside(e, f) => SingleEdit(e, f)
  /\ \A e, f, g : SingleEdit(e, f) /\ Aside(f, g) => SingleEdit(e, g)
  /\ \A e, f, g : Aside(e, f) /\ Aside(f, g) => Aside(e, g)
  /\ \A e, f : SingleEdit(e, f) => SameGroup(e, f) /\ IsEditor(f)
  BY DEF Aside, SingleEdit, SameGroup, SameMode

LEMMA CursorMoves ==
  ASSUME NEW e, IsEditor(e), NEW p
  PROVE  Aside(e, [e EXCEPT !.cursor = p])
  BY DEF IsEditor, SameGroup, SameMode, Aside

LEMMA RecordKeeps ==
  ASSUME NEW e, NEW f, SameGroup(e, f), NEW before
  PROVE  /\ SameGroup(e, Record(f, before))
         /\ Record(f, before).undo = Append(f.undo, before)
         /\ Record(f, before).redo = <<>>
         /\ Record(f, before).line = f.line
         /\ Record(f, before).keymap = f.keymap
  BY DEF IsEditor, SameGroup, Record

LEMMA EditedKeeps ==
  ASSUME NEW e, NEW f, SameGroup(e, f), f.keymap = e.keymap, f.undo = e.undo, f.redo = e.redo
  PROVE  SingleEdit(e, Edited(e, f))
<1>1. CASE f.line # e.line /\ f.group = None
  <2>1. Edited(e, f) = Record(f, Snapshot(e))
    BY <1>1 DEF Edited
  <2>2. e.group = None
    BY <1>1 DEF SameGroup
  <2> QED
    BY <1>1, <2>1, <2>2, RecordKeeps DEF SingleEdit, SameMode
<1>2. CASE ~(f.line # e.line /\ f.group = None)
  <2>1. Edited(e, f) = f
    BY <1>2 DEF Edited
  <2> QED
    BY <1>2, <2>1 DEF SingleEdit, SameMode, SameGroup
<1> QED
  BY <1>1, <1>2

LEMMA ReplacedKeeps ==
  ASSUME NEW e, IsEditor(e), NEW from, NEW to, NEW new, NEW p
  PROVE  SingleEdit(e, Replaced(e, from, to, new, p))
<1> DEFINE f == [e EXCEPT !.line = Splice(e.line, from, to, new), !.cursor = p,
                          !.mark = AdjustMark(e.mark, from, to, Len(new))]
<1>1. SameGroup(e, f) /\ f.keymap = e.keymap /\ f.undo = e.undo /\ f.redo = e.redo
  BY DEF IsEditor, SameGroup
<1>2. Replaced(e, from, to, new, p) = Edited(e, f)
  BY DEF Replaced
<1> QED
  BY <1>1, <1>2, EditedKeeps

LEMMA EditsKeep ==
  ASSUME NEW e, IsEditor(e)
  PROVE  /\ \A new, from, to : SingleEdit(e, ReplaceSpan(e, new, from, to))
         /\ \A span : SingleEdit(e, Delete(e, span))
         /\ \A span : SingleEdit(e, Copy(e, span))
         /\ \A span : SingleEdit(e, Kill(e, span))
         /\ \A span : SingleEdit(e, ToggleCase(e, span))
         /\ \A placement : SingleEdit(e, Yank(e, placement))
<1>1. \A new, from, to : SingleEdit(e, ReplaceSpan(e, new, from, to))
  BY ReplacedKeeps DEF ReplaceSpan
<1>2. \A span : SingleEdit(e, Delete(e, span))
  BY ReplacedKeeps DEF Delete
<1>3. ASSUME NEW f, IsEditor(f), NEW text
      PROVE  Aside(f, [f EXCEPT !.kill = text])
  BY <1>3 DEF Aside, SameGroup, SameMode, IsEditor
<1>4. \A span : SingleEdit(e, Copy(e, span))
  BY <1>3, AsideEdits DEF Copy
<1>5. \A span : SingleEdit(e, Kill(e, span))
  BY <1>2, <1>3, AsideEdits DEF Kill
<1>6. \A span : SingleEdit(e, ToggleCase(e, span))
  BY <1>1 DEF ToggleCase
<1>7. \A placement : SingleEdit(e, Yank(e, placement))
  <2>1. Aside(e, e)
    BY DEF Aside, SameGroup, SameMode
  <2> QED
    BY <1>1, <2>1, AsideEdits DEF Yank
<1> QED
  BY <1>1, <1>2, <1>4, <1>5, <1>6, <1>7

LEMMA InsertKeeps ==
  ASSUME NEW e, IsEditor(e), NEW text
  PROVE  SingleEdit(e, InsertText(e, text))
<1> DEFINE end == CASE e.input = "insert" -> e.cursor
                    [] e.input = "replace" -> Lesser(e.cursor + Len(text), Len(e.line))
                    [] e.input = "replace_once" -> Lesser(e.cursor + 1, Len(e.line))
           f == ReplaceSpan(e, text, e.cursor, end)
<1> HIDE DEF end
<1>1. SingleEdit(e, f) /\ Aside(e, e)
  BY EditsKeep DEF Aside, SameGroup, SameMode
<1> HIDE DEF f
<1>2. Aside(f, [f EXCEPT !.input = "insert"])
  BY <1>1 DEF SingleEdit, Aside, SameGroup, SameMode, IsEditor
<1>3. InsertText(e, text) \in {e, f, [f EXCEPT !.input = "insert"]}
  BY DEF InsertText, f, end
<1> QED
  BY <1>1, <1>2, <1>3, AsideEdits

LEMMA SwapKeeps ==
  ASSUME NEW e, IsEditor(e), NEW first, NEW p
  PROVE  SingleEdit(e, Swap(e, first, p))
<1> DEFINE line == Splice(e.line, first, first + 2, <<e.line[first + 2], e.line[first + 1]>>)
           f == [e EXCEPT !.line = line, !.cursor = p]
<1> HIDE DEF line
<1>1. SameGroup(e, f) /\ f.keymap = e.keymap /\ f.undo = e.undo /\ f.redo = e.redo
  BY DEF SameGroup, IsEditor
<1>2. Swap(e, first, p) = Edited(e, f)
  BY DEF Swap, line
<1> QED
  BY <1>1, <1>2, EditedKeeps

LEMMA OthersKeep ==
  ASSUME NEW e, IsEditor(e)
  PROVE  /\ SingleEdit(e, Transpose(e))
         /\ Aside(e, SetMark(e)) /\ Aside(e, ExchangeMark(e))
         /\ Aside(e, ToggleInputMode(e))
         /\ \A input : \A keymap \in Keymaps \ {"emacs"} : Aside(e, SetModes(e, input, keymap))
         /\ Aside(e, e) /\ SingleEdit(e, e)
<1>1. Aside(e, e) /\ SingleEdit(e, e)
  BY DEF Aside, SingleEdit, SameGroup, SameMode
<1>2. SingleEdit(e, Transpose(e))
  BY <1>1, SwapKeeps DEF Transpose
<1>3. /\ Aside(e, SetMark(e)) /\ Aside(e, ExchangeMark(e))
      /\ Aside(e, ToggleInputMode(e))
      /\ \A input : \A keymap \in Keymaps \ {"emacs"} : Aside(e, SetModes(e, input, keymap))
  BY DEF Aside, SameGroup, SameMode, IsEditor, SetMark, ExchangeMark, ToggleInputMode, SetModes
<1> QED
  BY <1>1, <1>2, <1>3

LEMMA UndoKeeps ==
  ASSUME NEW e, IsEditor(e)
  PROVE  SameGroup(e, Undo(e)) /\ SameGroup(e, Redo(e))
<1>1. ASSUME NEW snapshot
      PROVE  SameGroup(e, Restored(e, snapshot))
  BY DEF SameGroup, IsEditor, Restored
<1>2. ASSUME NEW f, SameGroup(e, f), NEW undo, NEW redo
      PROVE  SameGroup(e, [f EXCEPT !.undo = undo, !.redo = redo])
  BY <1>2 DEF SameGroup, IsEditor
<1>3. SameGroup(e, Undo(e))
  <2> DEFINE f == Restored(e, Latest(e.undo))
             g == [f EXCEPT !.undo = Earlier(f.undo), !.redo = Append(f.redo, Snapshot(e))]
  <2>1. SameGroup(e, f)
    BY <1>1
  <2>2. Undo(e) = e \/ Undo(e) = g
    BY DEF Undo
  <2> HIDE DEF f
  <2>3. SameGroup(e, g)
    BY <1>2, <2>1
  <2> QED
    BY <2>2, <2>3 DEF SameGroup
<1>4. SameGroup(e, Redo(e))
  <2> DEFINE f == Restored(e, Latest(e.redo))
             g == [f EXCEPT !.redo = Earlier(f.redo), !.undo = Append(f.undo, Snapshot(e))]
  <2>1. SameGroup(e, f)
    BY <1>1
  <2>2. Redo(e) = e \/ Redo(e) = g
    BY DEF Redo
  <2> HIDE DEF f
  <2>3. SameGroup(e, g)
    BY <2>1 DEF SameGroup, IsEditor
  <2> QED
    BY <2>2, <2>3 DEF SameGroup
<1> QED
  BY <1>3, <1>4
-----------------------------------------------------------------------------
(* What the driver remembers.                                               *)

\* What a change may be made of: no step of it brings a history line or undoes.
Unrepeated == {"history_line", "undo", "redo", "undo_required"}
IsStep(step) ==
  step.kind = "invocation" =>
    /\ IsCommand(step.command) /\ step.command.kind \notin Unrepeated
    /\ step.count \in Nat
AllSteps(S) == \A step \in S : IsStep(step)
Listed(steps) == \E S : AllSteps(S) /\ steps \in Seq(S)

LEMMA StepsListed ==
  /\ Listed(<<>>)
  /\ \A steps, step : Listed(steps) /\ IsStep(step) => Listed(Append(steps, step))
  /\ \A steps, more : Listed(steps) /\ Listed(more) => Listed(steps \o more)
  /\ \A steps : Listed(steps) /\ steps # <<>> => IsStep(Head(steps)) /\ Listed(Tail(steps))
<1>1. Listed(<<>>)
  <2>1. <<>> \in Seq({}) /\ AllSteps({})
    BY DEF AllSteps
  <2> QED
    BY <2>1 DEF Listed
<1>2. ASSUME NEW steps, NEW step, Listed(steps), IsStep(step)
      PROVE  Listed(Append(steps, step))
  <2>1. PICK S : AllSteps(S) /\ steps \in Seq(S)
    BY <1>2 DEF Listed
  <2>2. AllSteps(S \cup {step})
    BY <1>2, <2>1 DEF AllSteps
  <2>3. steps \in Seq(S \cup {step})
    BY <2>1
  <2>4. Append(steps, step) \in Seq(S \cup {step})
    BY <2>3
  <2> QED
    BY <2>2, <2>4 DEF Listed
<1>3. ASSUME NEW steps, NEW more, Listed(steps), Listed(more)
      PROVE  Listed(steps \o more)
  <2>1. PICK S : AllSteps(S) /\ steps \in Seq(S)
    BY <1>3 DEF Listed
  <2>2. PICK T : AllSteps(T) /\ more \in Seq(T)
    BY <1>3 DEF Listed
  <2>3. AllSteps(S \cup T)
    BY <2>1, <2>2 DEF AllSteps
  <2>4. steps \in Seq(S \cup T) /\ more \in Seq(S \cup T)
    BY <2>1, <2>2
  <2>5. steps \o more \in Seq(S \cup T)
    BY <2>4
  <2> QED
    BY <2>3, <2>5 DEF Listed
<1>4. ASSUME NEW steps, Listed(steps), steps # <<>>
      PROVE  IsStep(Head(steps)) /\ Listed(Tail(steps))
  <2>1. PICK S : AllSteps(S) /\ steps \in Seq(S)
    BY <1>4 DEF Listed
  <2>2. Head(steps) \in S /\ Tail(steps) \in Seq(S)
    BY <1>4, <2>1
  <2> QED
    BY <2>1, <2>2 DEF AllSteps, Listed
<1> QED
  BY <1>1, <1>2, <1>3, <1>4

CountFits(argument) == argument # None => argument.count \in Nat
UnitFits(unit) == unit # None => unit.kind \in {"quoted", "replace", "search"}
RecordingFits(recording) ==
  recording # None =>
    /\ recording \in [before : {recording.before}, steps : {recording.steps},
                      cost : {recording.cost}]
    /\ Listed(recording.steps)
ChangeFits(change) == change # None => Listed(change.steps)
GroupFits(group) ==
  group # None => group \in [before : {group.before}, depth : Nat \ {0}]

IsDriver(d) ==
  /\ d \in [argument : {d.argument}, unit : {d.unit}, operator : {d.operator},
            recording : {d.recording}, lastChange : {d.lastChange}, queue : {d.queue},
            replaying : BOOLEAN, lastSearch : {d.lastSearch}]
  /\ CountFits(d.argument) /\ UnitFits(d.unit)
  /\ RecordingFits(d.recording) /\ ChangeFits(d.lastChange) /\ Listed(d.queue)

IsState(s) ==
  /\ s \in [e : {s.e}, d : {s.d}, outcome : {s.outcome}]
  /\ IsEditor(s.e) /\ GroupFits(s.e.group) /\ IsDriver(s.d)

Depth(e) == IF e.group = None THEN 0 ELSE e.group.depth
Holds(b) == IF b THEN 1 ELSE 0
Owners(d) == Holds(d.recording # None) + Holds(d.replaying)

\* What the command under way has made of the line since the last rest: a group
\* that will become its record is open, nothing has happened yet, or the record
\* is there if there is one to be.
Grouped(e) ==
  /\ e.group # None /\ e.group.before = Snapshot(rest.e)
  /\ e.undo = rest.e.undo /\ e.redo = rest.e.redo
Untouched(e) ==
  /\ e.group = None /\ Snapshot(e) = Snapshot(rest.e)
  /\ e.undo = rest.e.undo /\ e.redo = rest.e.redo
Filed(e) ==
  /\ e.group = None
  /\ IF e.line = rest.e.line
     THEN e.undo = rest.e.undo /\ e.redo = rest.e.redo
     ELSE e.undo = Append(rest.e.undo, Snapshot(rest.e)) /\ e.redo = <<>>

\* How far a command may have come that makes one record at most: its group is
\* open ("held"), it may still edit once ("fresh"), it has edited ("spent"), its
\* handler has returned ("closed").
Phases == {"held", "fresh", "spent", "closed"}
InPhase(e, d, how) ==
  /\ e.keymap # "emacs"
  /\ how # "closed" => d.unit = None \/ d.replaying = TRUE
  /\ \/ Grouped(e)
     \/ how \in {"fresh", "closed"} /\ Untouched(e) /\ d.operator = None
     \/ how \in {"spent", "closed"} /\ Filed(e) /\ d.operator = None /\ d.unit = None

\* How the groups that are open are to stand to those who opened them.
Stand(e, d, how) ==
  /\ how \in {"equal"} \cup Phases => Depth(e) = Owners(d)
  /\ how = "below" => Depth(e) <= Owners(d)
  /\ how \in Phases => InPhase(e, d, how)

\* What is left of "how" when a handler has returned, when a change has begun,
\* after an edit, and when a change is finished.
Loose(how) == IF how \in Phases THEN "closed" ELSE how
Begun(how) == IF how = "fresh" THEN "held" ELSE how
Touched(how) == IF how = "fresh" THEN "spent" ELSE how
Finished(how) == IF how \in {"held", "fresh"} THEN "spent" ELSE how
Plain == {"equal", "below", "none"}
Begins == Plain \cup {"held", "fresh"}
Middles == Begins \cup {"spent"}
Hows == Middles \cup {"closed"}

Sound(s, how) ==
  /\ IsState(s)
  /\ Stand(s.e, s.d, IF s.outcome = "reading" THEN how ELSE Loose(how))
  /\ s.outcome \notin {"reading", "abandoned"} =>
       s.e.group = None /\ s.d.recording = None /\ s.d.replaying = FALSE
Working(s, how) == Sound(s, how) /\ s.outcome = "reading"

LEMMA HowsFollow ==
  /\ \A how \in Hows : Loose(how) \in Hows /\ Loose(Loose(how)) = Loose(how)
  /\ \A how \in Hows : Loose(Finished(how)) = Loose(how) /\ Loose(Touched(how)) = Loose(how)
  /\ \A how \in Begins : Begun(how) \in Begins \ {"fresh"} /\ Loose(Begun(how)) = Loose(how)
  /\ \A how \in Begins : Touched(how) \in Middles /\ Touched(Touched(how)) = Touched(how)
  /\ \A how \in Middles : Finished(how) \in Middles /\ Touched(how) \in Middles
  /\ \A how \in Plain : Loose(how) = how /\ Begun(how) = how /\ Touched(how) = how /\ how \notin Phases
  /\ Plain \subseteq Begins /\ Begins \subseteq Middles /\ Middles \subseteq Hows
  BY DEF Loose, Begun, Touched, Finished, Plain, Begins, Middles, Hows, Phases

LEMMA DepthFits ==
  ASSUME NEW e, GroupFits(e.group)
  PROVE  Depth(e) \in Nat /\ (Depth(e) = 0 <=> e.group = None)
  BY DEF Depth, GroupFits

\* What no group is open for has no owner.
LEMMA NoOwners ==
  ASSUME NEW e, NEW d, GroupFits(e.group), Depth(e) = Owners(d), e.group = None, IsDriver(d)
  PROVE  d.recording = None /\ d.replaying = FALSE
  BY DEF Depth, Owners, Holds, IsDriver

\* Each phase is a weaker one of those that follow it.
LEMMA StandsLater ==
  ASSUME NEW e, NEW d, GroupFits(e.group), IsDriver(d), NEW how \in Hows, Stand(e, d, how)
  PROVE  /\ Stand(e, d, Loose(how)) /\ Stand(e, d, Finished(how)) /\ Stand(e, d, Touched(how))
         /\ how = "held" => Stand(e, d, "fresh")
<1>1. CASE how \notin Phases
  BY <1>1 DEF Loose, Finished, Touched, Phases
<1>2. CASE how \in Phases
  <2>1. Depth(e) = Owners(d) /\ InPhase(e, d, how)
    BY <1>2 DEF Stand
  <2>2. Untouched(e) => Filed(e)
    BY DEF Untouched, Filed, Snapshot
  <2>3. e.group = None => d.replaying # TRUE
    BY <2>1, NoOwners
  <2>4. Untouched(e) => e.group = None
    BY DEF Untouched
  <2>5. InPhase(e, d, "closed") /\ (how \in {"held", "fresh", "spent"} => InPhase(e, d, "spent"))
        /\ (how = "held" => InPhase(e, d, "fresh"))
    BY <1>2, <2>1, <2>2, <2>3, <2>4 DEF InPhase, Phases
  <2> QED
    BY <1>2, <2>1, <2>5 DEF Stand, Loose, Finished, Touched, Phases
<1> QED
  BY <1>1, <1>2

LEMMA SoundLater ==
  ASSUME NEW s, NEW how \in Hows, Sound(s, how)
  PROVE  /\ Sound(s, Loose(how)) /\ Sound(s, Touched(how)) /\ Sound(s, Finished(how))
         /\ how = "held" => Sound(s, "fresh")
<1>1. GroupFits(s.e.group) /\ IsDriver(s.d)
  BY DEF Sound, IsState
<1>2. /\ Loose(Loose(how)) = Loose(how) /\ Loose(Touched(how)) = Loose(how)
      /\ Loose(Finished(how)) = Loose(how)
      /\ how = "held" => Loose("fresh") = Loose(how)
  BY HowsFollow DEF Loose, Phases
<1>3. CASE s.outcome = "reading"
  BY <1>1, <1>3, StandsLater DEF Sound
<1>4. CASE s.outcome # "reading"
  BY <1>2, <1>4 DEF Sound
<1> QED
  BY <1>3, <1>4

\* A handler's line state and what the driver remembers, put together.
LEMMA WorkingParts ==
  ASSUME NEW s, NEW how, Working(s, how)
  PROVE  /\ IsEditor(s.e) /\ GroupFits(s.e.group) /\ IsDriver(s.d) /\ Stand(s.e, s.d, how)
         /\ Depth(s.e) \in Nat /\ Owners(s.d) \in Nat
         /\ s \in [e : {s.e}, d : {s.d}, outcome : {"reading"}]
  BY DepthFits DEF Working, Sound, IsState, Owners, Holds

LEMMA Assembled ==
  ASSUME NEW how, NEW e, IsEditor(e), GroupFits(e.group), NEW d, IsDriver(d), Stand(e, d, how),
         NEW u, u \in [e : {e}, d : {d}, outcome : {"reading"}]
  PROVE  Working(u, how) /\ u.e = e /\ u.d = d
<1>1. /\ u.e = e /\ u.d = d /\ u.outcome = "reading"
      /\ u \in [e : {u.e}, d : {u.d}, outcome : {u.outcome}]
  OBVIOUS
<1> QED
  BY <1>1 DEF Working, Sound, IsState

\* An edit, by a command that may still edit; what a command that makes one
\* record may not do, other commands may.
Permitted(how, e, f) == SameGroup(e, f) /\ (how \in Phases => SingleEdit(e, f))

LEMMA EditStands ==
  ASSUME NEW d, NEW how \in Begins, NEW e, Stand(e, d, how), GroupFits(e.group), IsDriver(d),
         NEW f, Permitted(how, e, f)
  PROVE  Stand(f, d, Touched(how))
<1>1. f.group = e.group /\ Depth(f) = Depth(e)
  BY DEF Permitted, SameGroup, Depth
<1>2. CASE how \notin Phases
  BY <1>1, <1>2 DEF Stand, Touched, Phases
<1>3. CASE how \in Phases
  <2>1. Depth(e) = Owners(d) /\ InPhase(e, d, how) /\ SingleEdit(e, f)
    BY <1>3 DEF Stand, Permitted
  <2>2. f.keymap # "emacs"
    BY <2>1 DEF InPhase, SingleEdit, SameMode
  <2>3. Grouped(e) => Grouped(f)
    BY <1>1, <2>1 DEF Grouped, SingleEdit
  <2>4. Untouched(e) => Filed(f)
    BY <1>1, <2>1 DEF Untouched, Filed, SingleEdit, Snapshot
  <2>5. Untouched(e) => d.replaying # TRUE
    BY <2>1, NoOwners DEF Untouched
  <2>6. how \in {"held", "fresh"}
    BY <1>3 DEF Begins, Plain, Phases
  <2>7. InPhase(f, d, Touched(how))
    BY <2>1, <2>2, <2>3, <2>4, <2>5, <2>6 DEF InPhase, Touched
  <2>8. Touched(how) \in Phases /\ Touched(how) # "below"
    BY <2>6 DEF Touched, Phases
  <2> QED
    BY <1>1, <2>1, <2>7, <2>8 DEF Stand
<1> QED
  BY <1>2, <1>3

LEMMA AsideStands ==
  ASSUME NEW d, NEW how \in Middles, NEW e, Stand(e, d, how), GroupFits(e.group), IsDriver(d),
         NEW f, Aside(e, f)
  PROVE  Stand(f, d, Touched(how))
<1>1. CASE how \in Begins
  BY <1>1, EditStands, AsideEdits DEF Permitted
<1>2. CASE how = "spent"
  <2>1. /\ f.group = e.group /\ Depth(f) = Depth(e) /\ f.line = e.line /\ f.undo = e.undo
        /\ f.redo = e.redo /\ (f.keymap = "emacs" => e.keymap = "emacs")
    BY DEF Aside, SameGroup, SameMode, Depth
  <2>2. (Grouped(e) => Grouped(f)) /\ (Filed(e) => Filed(f))
    BY <2>1 DEF Grouped, Filed
  <2>3. Depth(e) = Owners(d) /\ InPhase(e, d, "spent") /\ Touched(how) = "spent"
    BY <1>2 DEF Stand, Phases, Touched
  <2>4. InPhase(f, d, "spent")
    BY <2>1, <2>2, <2>3 DEF InPhase
  <2> QED
    BY <2>1, <2>3, <2>4 DEF Stand
<1> QED
  BY <1>1, <1>2 DEF Middles

LEMMA EditorChanges ==
  ASSUME NEW s, NEW how \in Begins, Working(s, how), NEW e, Permitted(how, s.e, e)
  PROVE  /\ Working([s EXCEPT !.e = e], Touched(how)) /\ [s EXCEPT !.e = e].e = e
         /\ [s EXCEPT !.e = e].d = s.d
<1> DEFINE t == [s EXCEPT !.e = e]
<1>1. t \in [e : {e}, d : {s.d}, outcome : {"reading"}]
  BY WorkingParts
<1> HIDE DEF t
<1>2. Stand(e, s.d, Touched(how))
  BY WorkingParts, EditStands
<1>3. IsEditor(e) /\ GroupFits(e.group)
  BY WorkingParts DEF Permitted, SameGroup
<1> QED
  BY <1>1, <1>2, <1>3, WorkingParts, Assembled DEF t

LEMMA AsideChanges ==
  ASSUME NEW s, NEW how \in Middles, Working(s, how), NEW e, Aside(s.e, e)
  PROVE  Working([s EXCEPT !.e = e], Touched(how))
<1> DEFINE t == [s EXCEPT !.e = e]
<1>1. t \in [e : {e}, d : {s.d}, outcome : {"reading"}]
  BY WorkingParts
<1> HIDE DEF t
<1>2. Stand(e, s.d, Touched(how))
  BY WorkingParts, AsideStands
<1>3. IsEditor(e) /\ GroupFits(e.group)
  BY WorkingParts DEF Aside, SameGroup
<1> QED
  BY <1>1, <1>2, <1>3, WorkingParts, Assembled DEF t

LEMMA DriverStands ==
  ASSUME NEW e, NEW how, NEW old, Stand(e, old, how), NEW d,
         d.recording = old.recording, d.replaying = old.replaying
  PROVE  /\ /\ d.operator = None \/ d.operator = old.operator \/ how \in Plain \cup {"held"}
            /\ d.unit = None \/ d.unit = old.unit
            => Stand(e, d, how)
         /\ d.operator = old.operator /\ how \in Begins => Stand(e, d, Loose(how))
<1>1. Owners(d) = Owners(old)
  BY DEF Owners
<1>2. ASSUME d.operator = None \/ d.operator = old.operator \/ how \in Plain \cup {"held"},
             d.unit = None \/ d.unit = old.unit
      PROVE  Stand(e, d, how)
  <2>1. InPhase(e, old, how) /\ how \in Phases => InPhase(e, d, how)
    BY <1>2 DEF InPhase, Plain, Phases
  <2> QED
    BY <1>1, <2>1 DEF Stand
<1>3. ASSUME d.operator = old.operator, how \in Begins
      PROVE  Stand(e, d, Loose(how))
  <2>1. InPhase(e, old, how) /\ how \in Phases => InPhase(e, d, Loose(how))
    BY <1>3 DEF InPhase, Begins, Plain, Phases, Loose
  <2> QED
    BY <1>1, <1>3, <2>1 DEF Stand, Loose, Phases
<1> QED
  BY <1>2, <1>3

LEMMA DriverChanges ==
  ASSUME NEW s, NEW how, Working(s, how), NEW d, IsDriver(d),
         d.recording = s.d.recording, d.replaying = s.d.replaying
  PROVE  /\ /\ d.operator = None \/ d.operator = s.d.operator \/ how \in Plain \cup {"held"}
            /\ d.unit = None \/ d.unit = s.d.unit
            => Working([s EXCEPT !.d = d], how)
         /\ d.operator = s.d.operator /\ how \in Begins => Working([s EXCEPT !.d = d], Loose(how))
<1> DEFINE t == [s EXCEPT !.d = d]
<1>1. t \in [e : {s.e}, d : {d}, outcome : {"reading"}]
  BY WorkingParts
<1> HIDE DEF t
<1>2. Stand(s.e, s.d, how) /\ IsEditor(s.e) /\ GroupFits(s.e.group)
  BY WorkingParts
<1>3. Stand(s.e, d, how) => Working(t, how)
  BY <1>1, <1>2, Assembled
<1>4. Stand(s.e, d, Loose(how)) => Working(t, Loose(how))
  BY <1>1, <1>2, Assembled
<1> QED
  BY <1>2, <1>3, <1>4, DriverStands DEF t

LEMMA FieldsChange ==
  ASSUME NEW s, NEW how, Working(s, how)
  PROVE  /\ \A argument : CountFits(argument) => Working([s EXCEPT !.d.argument = argument], how)
         /\ \A unit : UnitFits(unit) /\ how \in Begins =>
              Working([s EXCEPT !.d.unit = unit], Loose(how))
         /\ Working([s EXCEPT !.d.unit = None], how)
         /\ \A operator : operator = None \/ how \in Plain \cup {"held"} =>
              Working([s EXCEPT !.d.operator = operator], how)
         /\ \A search : Working([s EXCEPT !.d.lastSearch = search], how)
<1>1. IsDriver(s.d)
  BY WorkingParts
<1>2. ASSUME NEW argument, CountFits(argument)
      PROVE  Working([s EXCEPT !.d.argument = argument], how)
  <2> DEFINE d == [s.d EXCEPT !.argument = argument]
  <2>1. IsDriver(d) /\ d.recording = s.d.recording /\ d.replaying = s.d.replaying
        /\ d.unit = s.d.unit /\ d.operator = s.d.operator
    BY <1>1, <1>2 DEF IsDriver
  <2> QED
    BY <2>1, DriverChanges
<1>3. ASSUME NEW unit, UnitFits(unit)
      PROVE  /\ how \in Begins => Working([s EXCEPT !.d.unit = unit], Loose(how))
             /\ unit = None => Working([s EXCEPT !.d.unit = unit], how)
  <2> DEFINE d == [s.d EXCEPT !.unit = unit]
  <2>1. IsDriver(d) /\ d.recording = s.d.recording /\ d.replaying = s.d.replaying
        /\ d.unit = unit /\ d.operator = s.d.operator
    BY <1>1, <1>3 DEF IsDriver
  <2> QED
    BY <2>1, DriverChanges
<1>4. ASSUME NEW operator, operator = None \/ how \in Plain \cup {"held"}
      PROVE  Working([s EXCEPT !.d.operator = operator], how)
  <2> DEFINE d == [s.d EXCEPT !.operator = operator]
  <2>1. IsDriver(d) /\ d.recording = s.d.recording /\ d.replaying = s.d.replaying
        /\ d.unit = s.d.unit /\ d.operator = operator
    BY <1>1 DEF IsDriver
  <2> QED
    BY <1>4, <2>1, DriverChanges
<1>5. ASSUME NEW search
      PROVE  Working([s EXCEPT !.d.lastSearch = search], how)
  <2> DEFINE d == [s.d EXCEPT !.lastSearch = search]
  <2>1. IsDriver(d) /\ d.recording = s.d.recording /\ d.replaying = s.d.replaying
        /\ d.unit = s.d.unit /\ d.operator = s.d.operator
    BY <1>1 DEF IsDriver
  <2> QED
    BY <2>1, DriverChanges
<1>6. UnitFits(None)
  BY DEF UnitFits
<1> QED
  BY <1>2, <1>3, <1>4, <1>5, <1>6

-----------------------------------------------------------------------------
(* Opening and closing groups.  "None" marks what is not there; it must not *)
(* be mistaken for a group or a recording.                                  *)

NoneIsApart ==
  /\ \A before, depth : None # [before |-> before, depth |-> depth]
  /\ \A before, steps, cost : None # [before |-> before, steps |-> steps, cost |-> cost]

LEMMA GroupOpens ==
  ASSUME NoneIsApart, NEW e, IsEditor(e), GroupFits(e.group)
  PROVE  /\ IsEditor(BeginGroup(e)) /\ GroupFits(BeginGroup(e).group)
         /\ Depth(BeginGroup(e)) = Depth(e) + 1
<1> DEFINE g == IF e.group = None THEN [before |-> Snapshot(e), depth |-> 1]
                ELSE [e.group EXCEPT !.depth = @ + 1]
<1>1. g # None /\ g \in [before : {g.before}, depth : Nat \ {0}]
  <2>1. CASE e.group = None
    BY <2>1 DEF NoneIsApart
  <2>2. CASE e.group # None
    <3>1. g = [before |-> e.group.before, depth |-> e.group.depth + 1]
      BY <2>2 DEF GroupFits
    <3>2. e.group.depth \in Nat \ {0}
      BY <2>2 DEF GroupFits
    <3> QED
      BY <3>1, <3>2 DEF NoneIsApart
  <2> QED
    BY <2>1, <2>2
<1>2. g.depth = Depth(e) + 1
  BY DEF Depth, GroupFits
<1>3. BeginGroup(e) = [e EXCEPT !.group = g]
  BY DEF BeginGroup
<1> HIDE DEF g
<1>4. IsEditor([e EXCEPT !.group = g]) /\ [e EXCEPT !.group = g].group = g
  BY DEF IsEditor
<1> QED
  BY <1>1, <1>2, <1>3, <1>4 DEF GroupFits, Depth

LEMMA GroupsClose ==
  ASSUME NEW e, IsEditor(e)
  PROVE  IsEditor(FinishAllGroups(e)) /\ FinishAllGroups(e).group = None
<1> DEFINE closed == [e EXCEPT !.group = None]
<1>1. IsEditor(closed) /\ closed.group = None
  BY DEF IsEditor
<1>2. FinishAllGroups(e) = closed \/ FinishAllGroups(e) = Record(closed, e.group.before)
  BY DEF FinishAllGroups
<1> HIDE DEF closed
<1>3. SameGroup(closed, Record(closed, e.group.before))
  BY <1>1, RecordKeeps DEF SameGroup
<1> QED
  BY <1>1, <1>2, <1>3 DEF SameGroup

LEMMA GroupCloses ==
  ASSUME NoneIsApart, NEW e, IsEditor(e), GroupFits(e.group)
  PROVE  /\ IsEditor(FinishGroup(e)) /\ GroupFits(FinishGroup(e).group)
         /\ Depth(FinishGroup(e)) = IF Depth(e) = 0 THEN 0 ELSE Depth(e) - 1
<1>1. CASE e.group # None /\ e.group.depth > 1
  <2> DEFINE g == [e.group EXCEPT !.depth = @ - 1]
  <2>1. g = [before |-> e.group.before, depth |-> e.group.depth - 1]
    BY <1>1 DEF GroupFits
  <2>2. e.group.depth \in Nat \ {0, 1}
    BY <1>1 DEF GroupFits
  <2>3. g # None /\ g \in [before : {g.before}, depth : Nat \ {0}]
    BY <2>1, <2>2 DEF NoneIsApart
  <2>4. g.depth = Depth(e) - 1 /\ Depth(e) # 0
    BY <1>1, <2>1, <2>2 DEF Depth
  <2>5. FinishGroup(e) = [e EXCEPT !.group = g]
    BY <1>1 DEF FinishGroup
  <2> HIDE DEF g
  <2>6. IsEditor([e EXCEPT !.group = g]) /\ [e EXCEPT !.group = g].group = g
    BY DEF IsEditor
  <2> QED
    BY <2>3, <2>4, <2>5, <2>6 DEF GroupFits, Depth
<1>2. CASE ~(e.group # None /\ e.group.depth > 1)
  <2>1. FinishGroup(e) = FinishAllGroups(e)
    BY <1>2 DEF FinishGroup
  <2>2. Depth(e) \in {0, 1}
    BY <1>2 DEF Depth, GroupFits
  <2> QED
    BY <2>1, <2>2, GroupsClose DEF GroupFits, Depth
<1> QED
  BY <1>1, <1>2

\* What opening and closing make of the record of the command under way.
LEMMA GroupsHold ==
  ASSUME NoneIsApart, NEW e, IsEditor(e), GroupFits(e.group)
  PROVE  /\ BeginGroup(e).keymap = e.keymap /\ FinishGroup(e).keymap = e.keymap
         /\ FinishAllGroups(e).keymap = e.keymap
         /\ Grouped(e) \/ Untouched(e) => Grouped(BeginGroup(e))
         /\ Grouped(e) \/ Untouched(e) \/ Filed(e) => Filed(FinishAllGroups(e))
         /\ Grouped(e) => IF Depth(e) = 1 THEN Filed(FinishGroup(e)) ELSE Grouped(FinishGroup(e))
<1>1. BeginGroup(e).keymap = e.keymap /\ (Grouped(e) \/ Untouched(e) => Grouped(BeginGroup(e)))
  <2>1. CASE e.group = None
    <3> DEFINE g == [before |-> Snapshot(e), depth |-> 1]
    <3>1. BeginGroup(e) = [e EXCEPT !.group = g]
      BY <2>1 DEF BeginGroup
    <3>2. g # None /\ g.before = Snapshot(e)
      BY DEF NoneIsApart
    <3> HIDE DEF g
    <3>3. /\ BeginGroup(e).group = g /\ BeginGroup(e).keymap = e.keymap
          /\ BeginGroup(e).undo = e.undo /\ BeginGroup(e).redo = e.redo
      BY <3>1 DEF IsEditor
    <3> QED
      BY <2>1, <3>2, <3>3 DEF Grouped, Untouched
  <2>2. CASE e.group # None
    <3> DEFINE g == [e.group EXCEPT !.depth = @ + 1]
    <3>1. BeginGroup(e) = [e EXCEPT !.group = g]
      BY <2>2 DEF BeginGroup
    <3>2. g = [before |-> e.group.before, depth |-> e.group.depth + 1]
      BY <2>2 DEF GroupFits
    <3>3. g # None /\ g.before = e.group.before
      BY <3>2 DEF NoneIsApart
    <3> HIDE DEF g
    <3>4. /\ BeginGroup(e).group = g /\ BeginGroup(e).keymap = e.keymap
          /\ BeginGroup(e).undo = e.undo /\ BeginGroup(e).redo = e.redo
      BY <3>1 DEF IsEditor
    <3> QED
      BY <2>2, <3>3, <3>4 DEF Grouped, Untouched
  <2> QED
    BY <2>1, <2>2
<1>2. /\ FinishAllGroups(e).keymap = e.keymap
      /\ Grouped(e) \/ Untouched(e) \/ Filed(e) => Filed(FinishAllGroups(e))
  <2> DEFINE closed == [e EXCEPT !.group = None]
  <2>1. /\ closed.line = e.line /\ closed.keymap = e.keymap /\ closed.undo = e.undo
        /\ closed.redo = e.redo /\ closed.group = None /\ IsEditor(closed)
    BY DEF IsEditor
  <2>2. FinishAllGroups(e) = IF e.group = None \/ e.line = e.group.before.line THEN closed
                             ELSE Record(closed, e.group.before)
    BY DEF FinishAllGroups
  <2> HIDE DEF closed
  <2>3. SameGroup(closed, closed)
    BY <2>1 DEF SameGroup
  <2>4. CASE e.group = None \/ e.line = e.group.before.line
    <3>1. FinishAllGroups(e) = closed
      BY <2>2, <2>4
    <3> QED
      BY <2>1, <2>4, <3>1 DEF Grouped, Untouched, Filed, Snapshot
  <2>5. CASE ~(e.group = None \/ e.line = e.group.before.line)
    <3>1. FinishAllGroups(e) = Record(closed, e.group.before)
      BY <2>2, <2>5
    <3>2. /\ Record(closed, e.group.before).undo = Append(e.undo, e.group.before)
          /\ Record(closed, e.group.before).redo = <<>>
          /\ Record(closed, e.group.before).line = e.line
          /\ Record(closed, e.group.before).keymap = e.keymap
          /\ Record(closed, e.group.before).group = None
      BY <2>1, <2>3, RecordKeeps DEF SameGroup
    <3> QED
      BY <2>5, <3>1, <3>2 DEF Grouped, Untouched, Filed, Snapshot
  <2> QED
    BY <2>4, <2>5
<1>3. /\ FinishGroup(e).keymap = e.keymap
      /\ Grouped(e) => IF Depth(e) = 1 THEN Filed(FinishGroup(e)) ELSE Grouped(FinishGroup(e))
  <2>1. CASE e.group # None /\ e.group.depth > 1
    <3> DEFINE g == [e.group EXCEPT !.depth = @ - 1]
    <3>1. g = [before |-> e.group.before, depth |-> e.group.depth - 1]
      BY <2>1 DEF GroupFits
    <3>2. g # None /\ g.before = e.group.before
      BY <3>1 DEF NoneIsApart
    <3>3. FinishGroup(e) = [e EXCEPT !.group = g]
      BY <2>1 DEF FinishGroup
    <3> HIDE DEF g
    <3>4. /\ FinishGroup(e).group = g /\ FinishGroup(e).keymap = e.keymap
          /\ FinishGroup(e).undo = e.undo /\ FinishGroup(e).redo = e.redo
      BY <3>3 DEF IsEditor
    <3>5. Depth(e) # 1
      BY <2>1 DEF Depth
    <3> QED
      BY <3>2, <3>4, <3>5 DEF Grouped
  <2>2. CASE ~(e.group # None /\ e.group.depth > 1)
    <3>1. FinishGroup(e) = FinishAllGroups(e)
      BY <2>2 DEF FinishGroup
    <3>2. Grouped(e) => Depth(e) = 1
      BY <2>2 DEF Grouped, Depth, GroupFits
    <3> QED
      BY <1>2, <3>1, <3>2
  <2> QED
    BY <2>1, <2>2
<1> QED
  BY <1>1, <1>2, <1>3

\* In a phase that may still edit, whoever has an owner has a group open.
LEMMA OwnedIsGrouped ==
  ASSUME NEW e, GroupFits(e.group), NEW d, IsDriver(d), NEW how \in Middles, Stand(e, d, how),
         how \in Phases, d.recording # None \/ d.replaying = TRUE
  PROVE  Grouped(e)
<1>1. Depth(e) = Owners(d) /\ InPhase(e, d, how)
  BY DEF Stand
<1>2. e.group # None
  BY <1>1, NoOwners
<1> QED
  BY <1>1, <1>2 DEF InPhase, Untouched, Filed

LEMMA ChangeBegins ==
  ASSUME NoneIsApart, NEW s, NEW how \in Begins, Working(s, how)
  PROVE  Working(BeginChange(s), Begun(how))
<1>0. /\ Stand(s.e, s.d, how) /\ IsDriver(s.d) /\ IsEditor(s.e) /\ GroupFits(s.e.group)
      /\ s \in [e : {s.e}, d : {s.d}, outcome : {"reading"}]
  BY WorkingParts
<1>1. CASE s.d.recording # None \/ s.d.replaying
  <2>1. BeginChange(s) = s
    BY <1>1 DEF BeginChange
  <2>2. how \in Phases => Grouped(s.e)
    BY <1>0, <1>1, OwnedIsGrouped, HowsFollow DEF IsDriver
  <2>3. Stand(s.e, s.d, Begun(how))
    BY <1>0, <2>2 DEF Stand, InPhase, Begun, Phases
  <2> QED
    BY <2>1, <2>3, WorkingParts, Assembled
<1>2. CASE ~(s.d.recording # None \/ s.d.replaying)
  <2> DEFINE r == [before |-> s.e.line, steps |-> <<>>, cost |-> 0]
             e == BeginGroup(s.e)
             d == [s.d EXCEPT !.recording = r]
             t == [s EXCEPT !.e = e, !.d = d]
  <2>1. BeginChange(s) = t
    BY <1>2 DEF BeginChange
  <2>2. r # None /\ RecordingFits(r)
    BY StepsListed DEF NoneIsApart, RecordingFits
  <2>3. IsEditor(e) /\ GroupFits(e.group) /\ Depth(e) = Depth(s.e) + 1 /\ e.keymap = s.e.keymap
    BY <1>0, GroupOpens, GroupsHold
  <2>4. how \in Phases => Grouped(e)
    <3>1. how \in Phases => Grouped(s.e) \/ Untouched(s.e)
      BY <1>0 DEF Stand, InPhase, Begins, Plain, Phases
    <3> QED
      BY <1>0, <3>1, GroupsHold
  <2> HIDE DEF e, r
  <2>5. /\ IsDriver(d) /\ d.recording = r /\ d.replaying = s.d.replaying
        /\ d.unit = s.d.unit /\ d.operator = s.d.operator
    BY <1>0, <2>2 DEF IsDriver
  <2> HIDE DEF d
  <2>6. t \in [e : {e}, d : {d}, outcome : {"reading"}]
    BY <1>0
  <2> HIDE DEF t
  <2>7. Owners(d) = Owners(s.d) + 1
    BY <1>2, <2>2, <2>5 DEF Owners, Holds
  <2>8. Stand(e, d, Begun(how))
    <3>1. Depth(s.e) \in Nat /\ Owners(s.d) \in Nat
      BY WorkingParts
    <3>2. how \in Phases => InPhase(e, d, Begun(how))
      <4> SUFFICES ASSUME how \in Phases PROVE InPhase(e, d, Begun(how))
        OBVIOUS
      <4>1. InPhase(s.e, s.d, how) /\ how # "closed"
        BY <1>0 DEF Stand, Begins, Plain, Phases
      <4> QED
        BY <2>3, <2>4, <2>5, <4>1 DEF InPhase
    <3>3. /\ Begun(how) \in Phases => how \in Phases
          /\ Begun(how) = "equal" => how = "equal"
          /\ Begun(how) = "below" => how = "below"
      BY DEF Begun, Phases
    <3> QED
      BY <1>0, <2>3, <2>7, <3>1, <3>2, <3>3 DEF Stand
  <2> QED
    BY <2>1, <2>3, <2>5, <2>6, <2>8, Assembled
<1> QED
  BY <1>1, <1>2

LEMMA ChangeFinishes ==
  ASSUME NoneIsApart, NEW s, NEW how \in Middles, Working(s, how),
         how \in Phases => s.d.operator = None
  PROVE  Working(FinishChange(s), Finished(how)) /\ FinishChange(s).d.recording = None
<1>0. /\ Stand(s.e, s.d, how) /\ IsDriver(s.d) /\ IsEditor(s.e) /\ GroupFits(s.e.group)
      /\ s \in [e : {s.e}, d : {s.d}, outcome : {"reading"}]
  BY WorkingParts
<1>1. CASE s.d.recording = None
  <2>1. FinishChange(s) = s /\ Working(s, Finished(how))
    BY <1>1, SoundLater, HowsFollow DEF FinishChange, Working
  <2> QED
    BY <1>1, <2>1
<1>2. CASE s.d.recording # None
  <2> DEFINE change == s.d.recording
             remembered == IF s.e.line = change.before \/ change.steps = <<>> THEN s.d.lastChange
                           ELSE [steps |-> change.steps, cost |-> change.cost]
             e == FinishGroup(s.e)
             d == [s.d EXCEPT !.recording = None, !.lastChange = remembered]
             t == [s EXCEPT !.e = e, !.d = d]
  <2>1. ChangeFits(remembered)
    BY <1>0, <1>2 DEF IsDriver, RecordingFits, ChangeFits
  <2>2. FinishChange(s) = t
    BY <1>2 DEF FinishChange
  <2> HIDE DEF remembered
  <2>3. /\ IsEditor(e) /\ GroupFits(e.group) /\ e.keymap = s.e.keymap
        /\ Depth(e) = IF Depth(s.e) = 0 THEN 0 ELSE Depth(s.e) - 1
    BY <1>0, GroupCloses, GroupsHold
  <2>4. Grouped(s.e) => IF Depth(s.e) = 1 THEN Filed(e) ELSE Grouped(e)
    BY <1>0, GroupsHold
  <2> HIDE DEF e
  <2>5. /\ IsDriver(d) /\ d.recording = None /\ d.replaying = s.d.replaying
        /\ d.unit = s.d.unit /\ d.operator = s.d.operator
    BY <1>0, <2>1 DEF IsDriver, RecordingFits
  <2> HIDE DEF d
  <2>6. t \in [e : {e}, d : {d}, outcome : {"reading"}]
    BY <1>0
  <2> HIDE DEF t
  <2>7. /\ Owners(d) = Owners(s.d) - 1 /\ Owners(s.d) \in Nat \ {0}
        /\ Owners(s.d) = 1 => s.d.replaying # TRUE
    <3>1. Owners(d) = Owners(s.d) - 1 /\ Owners(s.d) \in Nat \ {0}
      BY <1>2, <2>5 DEF Owners, Holds
    <3>2. s.d.replaying = TRUE => Owners(s.d) = 2
      <4> SUFFICES ASSUME s.d.replaying = TRUE PROVE Owners(s.d) = 2
        OBVIOUS
      <4>1. Holds(s.d.replaying) = 1 /\ Holds(s.d.recording # None) = 1
        BY <1>2, Zenon DEF Holds
      <4>2. Owners(s.d) = 1 + 1
        BY <4>1, Zenon DEF Owners
      <4> QED
        BY <4>2
    <3>3. 1 # 2
      OBVIOUS
    <3>4. Owners(s.d) = 1 => s.d.replaying # TRUE
      BY <3>2, <3>3, Zenon
    <3> QED
      BY <3>1, <3>4, Zenon
  <2>8. Stand(e, d, Finished(how))
    <3>1. Depth(s.e) \in Nat
      BY WorkingParts
    <3>2. how \in Phases => InPhase(e, d, "spent")
      <4> SUFFICES ASSUME how \in Phases PROVE InPhase(e, d, "spent")
        OBVIOUS
      <4>1. InPhase(s.e, s.d, how) /\ how # "closed" /\ Depth(s.e) = Owners(s.d)
        BY <1>0 DEF Stand, Middles, Begins, Plain, Phases
      <4>2. Grouped(s.e)
        BY <1>0, <1>2, OwnedIsGrouped
      <4>3. CASE Depth(s.e) = 1
        <5>1. d.unit = None
          BY <2>5, <2>7, <4>1, <4>3 DEF InPhase
        <5> QED
          BY <2>3, <2>4, <2>5, <4>1, <4>2, <4>3, <5>1 DEF InPhase
      <4>4. CASE Depth(s.e) # 1
        BY <2>3, <2>4, <2>5, <4>1, <4>2, <4>4 DEF InPhase
      <4> QED
        BY <4>3, <4>4
    <3>3. /\ how \in Phases => Finished(how) = "spent"
          /\ how \notin Phases => Finished(how) = how
      BY DEF Finished, Phases, Middles, Begins, Plain
    <3> QED
      BY <1>0, <2>3, <2>7, <3>1, <3>2, <3>3 DEF Stand
  <2> QED
    BY <2>2, <2>3, <2>5, <2>6, <2>8, Assembled
<1> QED
  BY <1>1, <1>2

\* A change is finished, and every group is closed, when a read ends.
LEMMA FinishedLine ==
  ASSUME NoneIsApart, NEW s, NEW how \in Hows, Working(s, how)
  PROVE  LET t == FinishChange(s)
         IN  /\ IsEditor(t.e) /\ GroupFits(t.e.group) /\ ChangeFits(t.d.lastChange)
             /\ how \in Phases => t.e.keymap # "emacs" /\ Filed(FinishAllGroups(t.e))
<1> DEFINE t == FinishChange(s)
<1>0. /\ Stand(s.e, s.d, how) /\ IsDriver(s.d) /\ IsEditor(s.e) /\ GroupFits(s.e.group)
      /\ s \in [e : {s.e}, d : {s.d}, outcome : {"reading"}]
  BY WorkingParts
<1>1. /\ how \in Phases => s.e.keymap # "emacs" /\ (Grouped(s.e) \/ Untouched(s.e) \/ Filed(s.e))
      /\ how \in Phases => Depth(s.e) = Owners(s.d)
  BY <1>0 DEF Stand, InPhase
<1>2. CASE s.d.recording = None
  <2>1. t = s
    BY <1>2 DEF FinishChange
  <2> QED
    BY <1>0, <1>1, <2>1, GroupsHold DEF IsDriver
<1>3. CASE s.d.recording # None
  <2>1. t.e = FinishGroup(s.e) /\ ChangeFits(t.d.lastChange)
    <3> DEFINE change == s.d.recording
               remembered == IF s.e.line = change.before \/ change.steps = <<>> THEN s.d.lastChange
                             ELSE [steps |-> change.steps, cost |-> change.cost]
               e == FinishGroup(s.e)
               d == [s.d EXCEPT !.recording = None, !.lastChange = remembered]
    <3>1. ChangeFits(remembered)
      BY <1>0, <1>3 DEF IsDriver, RecordingFits, ChangeFits
    <3>2. t = [s EXCEPT !.e = e, !.d = d]
      BY <1>3 DEF FinishChange
    <3> HIDE DEF remembered, e, t
    <3>3. d.lastChange = remembered
      BY <1>0 DEF IsDriver
    <3> HIDE DEF d
    <3>4. t.e = e /\ t.d = d
      BY <1>0, <3>2
    <3> QED
      BY <3>1, <3>3, <3>4 DEF e
  <2> HIDE DEF t
  <2>2. IsEditor(t.e) /\ GroupFits(t.e.group) /\ t.e.keymap = s.e.keymap
    BY <1>0, <2>1, GroupCloses, GroupsHold
  <2>3. how \in Phases => Grouped(t.e) \/ Filed(t.e)
    <3>1. s.e.group = None => s.d.recording = None \/ Depth(s.e) # Owners(s.d)
      BY <1>0, NoOwners
    <3>2. how \in Phases => Grouped(s.e)
      BY <1>1, <1>3, <3>1 DEF Untouched, Filed
    <3> QED
      BY <1>0, <2>1, <3>2, GroupsHold
  <2>4. how \in Phases => Filed(FinishAllGroups(t.e))
    BY <2>2, <2>3, GroupsHold
  <2> QED
    BY <1>1, <2>1, <2>2, <2>4 DEF t
<1> QED
  BY <1>2, <1>3

LEMMA ReadEnds ==
  ASSUME NoneIsApart, NEW s, NEW how \in Hows, Working(s, how), NEW result, result # "reading"
  PROVE  Sound(End(s, result), Loose(how)) /\ End(s, result).outcome = result
<1> DEFINE t == FinishChange(s)
           e == FinishAllGroups(t.e)
           d == ClearTransient(t.d)
           u == [e |-> e, d |-> d, outcome |-> result]
<1>1. /\ IsEditor(t.e) /\ GroupFits(t.e.group) /\ ChangeFits(t.d.lastChange)
      /\ how \in Phases => t.e.keymap # "emacs" /\ Filed(e)
  BY FinishedLine
<1>2. End(s, result) = u
  BY DEF End
<1> HIDE DEF t
<1>3. IsEditor(e) /\ e.group = None /\ e.keymap = t.e.keymap
  BY <1>1, GroupsClose, GroupsHold
<1>4. IsDriver(d) /\ d.recording = None /\ d.replaying = FALSE /\ d.unit = None /\ d.operator = None
  <2>1. ChangeFits(t.d.lastChange)
    BY <1>1
  <2>2. /\ d.argument = None /\ d.unit = None /\ d.recording = None /\ d.queue = <<>>
        /\ d.replaying = FALSE /\ d.lastChange = t.d.lastChange /\ d.operator = None
    BY DEF ClearTransient, Idle
  <2>3. d \in [argument : {d.argument}, unit : {d.unit}, operator : {d.operator},
               recording : {d.recording}, lastChange : {d.lastChange}, queue : {d.queue},
               replaying : BOOLEAN, lastSearch : {d.lastSearch}]
    BY DEF ClearTransient, Idle
  <2> HIDE DEF d
  <2> QED
    BY <2>1, <2>2, <2>3, StepsListed DEF IsDriver, CountFits, UnitFits, RecordingFits
<1> HIDE DEF e, d
<1>5. IsState(u) /\ u.outcome = result /\ u.e = e /\ u.d = d
  BY <1>3, <1>4 DEF IsState, GroupFits
<1>6. Stand(e, d, Loose(how))
  <2>1. Depth(e) = Owners(d)
    BY <1>3, <1>4 DEF Depth, Owners, Holds
  <2>2. Owners(d) \in Nat
    BY DEF Owners, Holds
  <2>3. how \in Phases => InPhase(e, d, "closed")
    BY <1>1, <1>3, <1>4 DEF InPhase
  <2>4. (how \in Phases => Loose(how) = "closed") /\ (Loose(how) \in Phases => how \in Phases)
    BY DEF Loose
  <2> QED
    BY <2>1, <2>2, <2>3, <2>4 DEF Stand
<1>7. Loose(Loose(how)) = Loose(how)
  BY HowsFollow
<1> QED
  BY <1>2, <1>3, <1>4, <1>5, <1>6, <1>7 DEF Sound

LEMMA ReadIsAbandoned ==
  ASSUME NEW s, NEW how \in Hows, Working(s, how)
  PROVE  Sound(Abandon(s), Loose(how))
<1>1. /\ Abandon(s).e = s.e /\ Abandon(s).d = s.d /\ Abandon(s).outcome = "abandoned"
      /\ Abandon(s) \in [e : {s.e}, d : {s.d}, outcome : {"abandoned"}]
  BY DEF Working, Sound, IsState, Abandon
<1>2. Stand(s.e, s.d, Loose(how)) /\ Loose(Loose(how)) = Loose(how)
  BY WorkingParts, StandsLater, HowsFollow
<1> QED
  BY <1>1, <1>2 DEF Working, Sound, IsState

-----------------------------------------------------------------------------
(* The parts handlers are made of.                                          *)

\* What comes after a part of a handler ends as the handler does.
LEMMA Tries ==
  ASSUME NEW how \in Begins, NEW early \in {how, Begun(how), Touched(how)},
         NEW s, NEW next, Sound(s, early),
         s.outcome = "reading" => Sound(next, Loose(how))
  PROVE  Sound(Try(s, next), Loose(how))
<1>1. Loose(early) = Loose(how) /\ early \in Hows
  BY HowsFollow
<1>2. Sound(s, Loose(how))
  BY <1>1, SoundLater
<1> QED
  BY <1>2 DEF Try

LEMMA CursorWorks ==
  ASSUME NEW s, NEW how \in Middles, Working(s, how), NEW p
  PROVE  Working([s EXCEPT !.e.cursor = p], Touched(how))
<1> DEFINE e == [s.e EXCEPT !.cursor = p]
<1>1. Aside(s.e, e)
  BY CursorMoves, WorkingParts
<1>2. Working([s EXCEPT !.e = e], Touched(how))
  BY <1>1, AsideChanges
<1> QED
  BY <1>2

LEMMA WithWorks ==
  ASSUME NEW s, NEW how \in Begins, Working(s, how), NEW e, Permitted(how, s.e, e)
  PROVE  Working(With(s, e), Touched(how))
  BY EditorChanges DEF With

LEMMA ChangeMayFinish ==
  ASSUME NoneIsApart, NEW s, NEW how \in Middles, Working(s, how)
  PROVE  /\ Sound(Schedule(s), Loose(how)) /\ Sound(Cancel(s), Loose(how))
         /\ Working(Clamped(s), Touched(how))
<1>1. ASSUME NEW u, NEW early \in Middles, Working(u, early), Loose(early) = Loose(how)
      PROVE  Sound(Schedule(u), Loose(how))
  <2> DEFINE t == [u EXCEPT !.d.operator = None]
  <2>1. Working(t, early)
    BY <1>1, FieldsChange
  <2>2. t.d.operator = None
    BY <1>1, WorkingParts DEF IsDriver
  <2>3. Schedule(u) \in {t, FinishChange(t)}
    BY DEF Schedule
  <2> HIDE DEF t
  <2>4. Working(FinishChange(t), Finished(early))
    BY <2>1, <2>2, ChangeFinishes
  <2>5. early \in Hows /\ Finished(early) \in Hows /\ Loose(Finished(early)) = Loose(how)
    BY <1>1, HowsFollow
  <2>6. Sound(t, Loose(how)) /\ Sound(FinishChange(t), Loose(how))
    BY <1>1, <2>1, <2>4, <2>5, SoundLater DEF Working
  <2> QED
    BY <2>3, <2>6
<1>2. Sound(Cancel(s), Loose(how))
  <2> DEFINE t == [s EXCEPT !.d.operator = None]
  <2>1. Working(t, how)
    BY FieldsChange
  <2>2. t.d.operator = None
    BY WorkingParts DEF IsDriver
  <2>3. Cancel(s) = Schedule(FinishChange(t))
    BY DEF Cancel
  <2> HIDE DEF t
  <2>4. Working(FinishChange(t), Finished(how))
    BY <2>1, <2>2, ChangeFinishes
  <2>5. Finished(how) \in Middles /\ Loose(Finished(how)) = Loose(how)
    BY HowsFollow
  <2> QED
    BY <1>1, <2>3, <2>4, <2>5
<1>3. Working(Clamped(s), Touched(how))
  <2>1. Working(s, Touched(how))
    BY HowsFollow, SoundLater DEF Working
  <2> QED
    BY <2>1, CursorWorks DEF Clamped
<1> QED
  BY <1>1, <1>2, <1>3

LEMMA RepeatIsTaken ==
  ASSUME NEW s, NEW how, Working(s, how), NEW own, own = None \/ own \in Nat
  PROVE  /\ Repeat(s, own) \in Nat /\ Working(TakeRepeat(s, own), how)
         /\ CountOr(s, 0) \in Nat /\ CountOr(s, 1) \in Nat
<1>1. CountOr(s, 0) \in Nat /\ CountOr(s, 1) \in Nat
  BY DEF Working, Sound, IsState, IsDriver, CountFits, CountOr
<1>2. Working(TakeRepeat(s, own), how)
  BY FieldsChange DEF TakeRepeat, CountFits
<1> QED
  BY <1>1, <1>2 DEF Repeat

LEMMA RecordingGrows ==
  ASSUME NoneIsApart, NEW old, old # None, RecordingFits(old), NEW step, IsStep(step), NEW cost
  PROVE  /\ [old EXCEPT !.steps = Append(@, step), !.cost = @ + cost] # None
         /\ RecordingFits([old EXCEPT !.steps = Append(@, step), !.cost = @ + cost])
<1> DEFINE before == old.before
           steps == Append(old.steps, step)
           sum == old.cost + cost
           new == [old EXCEPT !.steps = steps, !.cost = sum]
<1>1. old \in [before : {before}, steps : {old.steps}, cost : {old.cost}] /\ Listed(old.steps)
  BY DEF RecordingFits
<1>2. Listed(steps)
  BY <1>1, StepsListed
<1> HIDE DEF steps, sum, before
<1>3. new = [before |-> before, steps |-> steps, cost |-> sum]
  <2>1. new \in [before : {before}, steps : {steps}, cost : {sum}]
    BY <1>1
  <2> HIDE DEF new
  <2> QED
    BY <2>1
<1>4. new # None
  BY <1>3 DEF NoneIsApart
<1>5. RecordingFits(new)
  BY <1>2, <1>3 DEF RecordingFits
<1> QED
  BY <1>4, <1>5 DEF steps, sum

LEMMA StepIsRecorded ==
  ASSUME NoneIsApart, NEW s, NEW how, Working(s, how), NEW step, IsStep(step), NEW cost
  PROVE  Working(Recorded(s, step, cost), how)
<1>1. CASE ~Records(s)
  BY <1>1 DEF Recorded
<1>2. CASE Records(s)
  <2> DEFINE old == s.d.recording
             new == [old EXCEPT !.steps = Append(@, step), !.cost = @ + cost]
             d == [s.d EXCEPT !.recording = new]
             t == [s EXCEPT !.d = d]
  <2>1. old # None /\ RecordingFits(old) /\ IsDriver(s.d)
    BY <1>2 DEF Records, Working, Sound, IsState, IsDriver
  <2>2. RecordingFits(new) /\ new # None
    BY <2>1, RecordingGrows
  <2>4. Recorded(s, step, cost) = t
    BY <1>2 DEF Recorded
  <2> HIDE DEF new
  <2>6. /\ IsDriver(d) /\ d.recording = new /\ d.replaying = s.d.replaying
        /\ d.unit = s.d.unit /\ d.operator = s.d.operator
    BY <2>1, <2>2 DEF IsDriver
  <2> HIDE DEF d
  <2>7. t \in [e : {s.e}, d : {d}, outcome : {"reading"}]
    BY WorkingParts
  <2> HIDE DEF t
  <2>8. Stand(s.e, d, how)
    <3>1. Stand(s.e, s.d, how)
      BY WorkingParts
    <3>2. Owners(d) = Owners(s.d)
      BY <2>1, <2>2, <2>6 DEF Owners, Holds
    <3>3. InPhase(s.e, s.d, how) => InPhase(s.e, d, how)
      BY <2>6 DEF InPhase
    <3> QED
      BY <3>1, <3>2, <3>3 DEF Stand
  <2> QED
    BY <2>4, <2>6, <2>7, <2>8, WorkingParts, Assembled
<1> QED
  BY <1>1, <1>2

LEMMA RecordingWorks ==
  ASSUME NoneIsApart, NEW s, NEW how \in Begins, Working(s, how),
         NEW c, IsCommand(c), NEW n \in Nat
  PROVE  /\ c.kind \notin Unrepeated => Sound(RecordInvocation(s, c, n), how)
         /\ c.kind \notin {"history_line", "undo_required"} =>
              Sound(PrepareRecording(s, c, n), IF ChangesLine(c) THEN Begun(how) ELSE how)
<1>1. c.kind \notin Unrepeated => IsStep(Invocation(c, n))
  BY DEF IsStep, Invocation
<1>2. ASSUME c.kind \notin Unrepeated
      PROVE  Sound(RecordInvocation(s, c, n), how)
  <2>1. Working(Recorded(s, Invocation(c, n), n), how)
    BY <1>1, <1>2, StepIsRecorded
  <2>2. Sound(Fail(s), Loose(how)) /\ Fail(s).outcome = "failed"
    BY ReadEnds, HowsFollow DEF Fail
  <2>3. Sound(Fail(s), how)
    BY <2>2, HowsFollow DEF Sound
  <2> QED
    BY <2>1, <2>3 DEF RecordInvocation, RecordStep, Working
<1>3. ASSUME c.kind \notin {"history_line", "undo_required"}
      PROVE  Sound(PrepareRecording(s, c, n), IF ChangesLine(c) THEN Begun(how) ELSE how)
  <2> DEFINE later == IF ChangesLine(c) THEN Begun(how) ELSE how
             begun == IF ChangesLine(c) /\ s.e.keymap # "emacs" THEN BeginChange(s) ELSE s
  <2>1. Working(begun, later)
    <3>1. CASE ChangesLine(c) /\ s.e.keymap # "emacs"
      BY <3>1, ChangeBegins
    <3>2. CASE s.e.keymap = "emacs"
      <4>1. how \notin Phases
        BY <3>2, WorkingParts DEF Stand, InPhase
      <4>2. Begun(how) = how
        BY <4>1 DEF Begun, Phases
      <4> QED
        BY <3>2, <4>2
    <3>3. CASE ~ChangesLine(c)
      BY <3>3
    <3> QED
      BY <3>1, <3>2, <3>3
  <2>2. \/ PrepareRecording(s, c, n) = begun
        \/ PrepareRecording(s, c, n) = Abandon(begun)
        \/ PrepareRecording(s, c, n) = Recorded(begun, Invocation(c, n), n) /\ BelongsInReplay(c)
    BY DEF PrepareRecording
  <2>3. BelongsInReplay(c) => c.kind \notin Unrepeated
    BY <1>3 DEF BelongsInReplay, Unrepeated
  <2>4. later \in Hows
    BY HowsFollow
  <2> HIDE DEF begun, later
  <2>5. BelongsInReplay(c) => Sound(Recorded(begun, Invocation(c, n), n), later)
    BY <1>1, <2>1, <2>3, StepIsRecorded DEF Working
  <2>6. Sound(Abandon(begun), later)
    <3>1. Sound(Abandon(begun), Loose(later)) /\ Abandon(begun).outcome = "abandoned"
      BY <2>1, <2>4, ReadIsAbandoned DEF Abandon, Working, Sound, IsState
    <3> QED
      BY <2>4, <3>1, HowsFollow DEF Sound
  <2>7. Sound(PrepareRecording(s, c, n), later)
    BY <2>1, <2>2, <2>5, <2>6 DEF Working
  <2> QED
    BY <2>7 DEF later
<1> QED
  BY <1>2, <1>3

-----------------------------------------------------------------------------
(* Actions, once and again.                                                 *)

Executed ==
  {"insert", "delete", "delete_or_end", "kill", "kill_word", "kill_to", "kill_region",
   "copy_region", "toggle", "yank", "set_mark", "exchange_mark", "toggle_input_mode", "undo",
   "redo", "refresh"}

LEMMA ExecutionKeeps ==
  ASSUME NEW e, IsEditor(e), NEW c, c.kind \in Executed
  PROVE  /\ SameGroup(e, Execute(e, c))
         /\ c.kind \notin {"undo", "redo"} => SingleEdit(e, Execute(e, c))
<1>1. CASE c.kind \in {"insert"}
  BY <1>1, InsertKeeps, AsideEdits DEF Execute
<1>2. CASE c.kind \in {"delete", "copy_region", "toggle", "yank"}
  BY <1>2, EditsKeep, AsideEdits DEF Execute
<1>3. CASE c.kind \in {"delete_or_end"}
  BY <1>3, EditsKeep, OthersKeep, AsideEdits DEF Execute
<1>4. CASE c.kind \in {"kill", "kill_word", "kill_to", "kill_region"}
  <2>1. Execute(e, c) = Kill(e, Target(e, c))
    BY <1>4 DEF Execute
  <2> QED
    BY <2>1, EditsKeep, AsideEdits
<1>5. CASE c.kind \in {"set_mark", "exchange_mark", "toggle_input_mode", "refresh"}
  BY <1>5, OthersKeep, AsideEdits DEF Execute
<1>6. CASE c.kind \in {"undo", "redo"}
  BY <1>6, UndoKeeps DEF Execute
<1> QED
  BY <1>1, <1>2, <1>3, <1>4, <1>5, <1>6 DEF Executed

\* What a command that makes one record may do once.
Tame(c, how) == how \in Phases => c.kind \notin {"undo", "redo"}

LEMMA OnceWorks ==
  ASSUME NoneIsApart, NEW s, NEW how \in Begins, Working(s, how),
         NEW c, c.kind \in Executed \cup {"accept", "end_of_input"}, Tame(c, how)
  PROVE  Sound(ExecuteOnce(s, c), Touched(how))
<1>1. /\ Sound(End(s, "accepted"), Touched(how)) /\ Sound(End(s, "end_of_input"), Touched(how))
      /\ Sound(Fail(s), Touched(how))
  <2>1. ASSUME NEW result, result # "reading"
        PROVE  Sound(End(s, result), Touched(how))
    <3>1. Sound(End(s, result), Loose(how)) /\ End(s, result).outcome = result
      BY <2>1, ReadEnds, HowsFollow
    <3>2. Loose(Loose(how)) = Loose(how) /\ Loose(Touched(how)) = Loose(how)
      BY HowsFollow
    <3> QED
      BY <2>1, <3>1, <3>2 DEF Sound
  <2> QED
    BY <2>1 DEF Fail
<1>2. c.kind \in Executed => Sound(With(s, Execute(s.e, c)), Touched(how))
  BY ExecutionKeeps, WithWorks, WorkingParts DEF Working, Permitted, Tame
<1>3. CASE c.kind = "accept"
  BY <1>1, <1>3 DEF ExecuteOnce
<1>4. CASE c.kind = "end_of_input"
  BY <1>1, <1>4 DEF ExecuteOnce
<1>5. CASE c.kind \in Executed
  <2>1. ExecuteOnce(s, c) \in {End(s, "end_of_input"), Fail(s), With(s, Execute(s.e, c))}
    BY <1>5 DEF ExecuteOnce, Executed
  <2> QED
    BY <1>1, <1>2, <1>5, <2>1
<1> QED
  BY <1>3, <1>4, <1>5

\* Induction along an interval.
LEMMA LeastElement ==
  ASSUME NEW T \in SUBSET Nat, T # {}
  PROVE  \E n \in T : \A m \in T : n <= m
<1> DEFINE Lt == {ss \in Nat \X Nat : ss[1] < ss[2]}
<1>1. IsWellFoundedOn(Lt, Nat)
  BY NatLessThanWellFounded DEF OpToRel
<1>2. PICK x \in T : \A y \in T : ~(<<y, x>> \in Lt)
  <2> HIDE DEF Lt
  <2> QED
    BY ONLY <1>1, T \in SUBSET Nat, T # {}, WFMin
<1>3. \A y \in T : x <= y
  <2> TAKE y \in T
  <2>1. x \in Nat /\ y \in Nat /\ ~(<<y, x>> \in Lt)
    BY <1>2
  <2> QED
    BY <2>1
<1> QED
  BY <1>3

LEMMA Inducts ==
  ASSUME NEW n \in Nat, NEW T \in SUBSET (0 .. n), 0 \in T,
         \A k \in 1 .. n : k - 1 \in T => k \in T
  PROVE  T = 0 .. n
<1> DEFINE U == {k \in 0 .. n : k \notin T}
<1> SUFFICES ASSUME U # {} PROVE FALSE
  OBVIOUS
<1>1. PICK u \in U : \A v \in U : u <= v
  <2>1. U \in SUBSET Nat
    OBVIOUS
  <2> QED
    BY <2>1, LeastElement
<1>2. u \in 1 .. n /\ u - 1 \in 0 .. n /\ u - 1 \notin U
  BY <1>1
<1> QED
  BY <1>1, <1>2

\* A command repeated: what each time makes of what the time before has left.
Once(s, c) == Try(s, ExecuteOnce(s, c))
Times(s, c, n, g) ==
  g = [k \in 0 .. n |-> IF k = 0 THEN s ELSE Once(g[k - 1], c)]

LEMMA TimesExist ==
  ASSUME NEW s, NEW c, NEW n \in Nat
  PROVE  \E g : Times(s, c, n, g)
<1> DEFINE Good(g, m) == /\ g = [k \in 0 .. n |-> g[k]] /\ g[0] = s
                         /\ \A k \in 1 .. m : g[k] = Once(g[k - 1], c)
           T == {m \in 0 .. n : \E g : Good(g, m)}
<1>1. 0 \in T
  <2> DEFINE g == [k \in 0 .. n |-> s]
  <2>1. Good(g, 0) /\ 0 \in 0 .. n
    OBVIOUS
  <2> HIDE DEF Good, g
  <2> QED
    BY <2>1
<1>2. \A m \in 1 .. n : m - 1 \in T => m \in T
  <2> SUFFICES ASSUME NEW m \in 1 .. n, m - 1 \in T PROVE \E g : Good(g, m)
    <3> HIDE DEF Good
    <3> QED
      OBVIOUS
  <2>1. PICK g : Good(g, m - 1)
    <3> HIDE DEF Good
    <3> QED
      OBVIOUS
  <2> DEFINE x == Once(g[m - 1], c)
             f == [k \in 0 .. n |-> IF k = m THEN x ELSE g[k]]
  <2> HIDE DEF x
  <2>2. f = [k \in 0 .. n |-> f[k]] /\ f[0] = s
    BY <2>1
  <2>3. \A k \in 1 .. m : f[k] = Once(f[k - 1], c)
    <3> TAKE k \in 1 .. m
    <3>1. k - 1 \in 0 .. n /\ k \in 0 .. n /\ k - 1 # m /\ f[k - 1] = g[k - 1]
      OBVIOUS
    <3>2. CASE k = m
      BY <3>1, <3>2 DEF x
    <3>3. CASE k # m
      <4>1. k \in 1 .. m - 1 /\ f[k] = g[k]
        BY <3>1, <3>3
      <4> QED
        BY <2>1, <3>1, <4>1
    <3> QED
      BY <3>2, <3>3
  <2> QED
    BY <2>2, <2>3
<1> HIDE DEF Good
<1>3. n \in T
  <2>1. T \in SUBSET (0 .. n)
    OBVIOUS
  <2> HIDE DEF T
  <2>2. T = 0 .. n
    BY <1>1, <1>2, <2>1, Inducts
  <2> QED
    BY <2>2
<1>4. PICK g : Good(g, n)
  BY <1>3
<1>5. Times(s, c, n, g)
  <2>1. g = [k \in 0 .. n |-> g[k]]
    BY <1>4, Zenon DEF Good
  <2>2. \A k \in 0 .. n : g[k] = IF k = 0 THEN s ELSE Once(g[k - 1], c)
    <3>1. g[0] = s /\ \A k \in 1 .. n : g[k] = Once(g[k - 1], c)
      BY <1>4, Zenon DEF Good
    <3> QED
      BY <3>1
  <2> DEFINE h == [k \in 0 .. n |-> IF k = 0 THEN s ELSE Once(g[k - 1], c)]
  <2>3. g = h
    BY <2>1, <2>2
  <2> QED
    BY <2>3 DEF Times
<1> QED
  BY <1>5

LEMMA OnceAgainWorks ==
  ASSUME NoneIsApart, NEW s, NEW how \in Begins, Sound(s, how),
         NEW c, c.kind \in Executed \cup {"accept", "end_of_input"}, Tame(c, how)
  PROVE  Sound(Once(s, c), Touched(how))
<1>1. Sound(s, Touched(how))
  BY SoundLater, HowsFollow
<1> QED
  BY <1>1, OnceWorks DEF Once, Try, Working

LEMMA TimesWork ==
  ASSUME NoneIsApart, NEW s, NEW how \in Begins, Working(s, how), NEW n \in Nat,
         NEW c, c.kind \in Executed \cup {"accept", "end_of_input"}, Tame(c, how),
         how = "fresh" => n \in {0, 1},
         NEW g, Times(s, c, n, g)
  PROVE  Sound(g[n], Touched(how))
<1>0. Sound(s, how) /\ Sound(s, Touched(how))
  BY SoundLater, HowsFollow DEF Working
<1>1. g[0] = s /\ \A k \in 1 .. n : g[k] = Once(g[k - 1], c)
  BY DEF Times
<1>2. CASE how = "fresh"
  <2>1. CASE n = 0
    BY <1>0, <1>1, <2>1
  <2>2. CASE n = 1
    <3>1. g[1] = Once(s, c)
      BY <1>1, <2>2
    <3> QED
      BY <1>0, <2>2, <3>1, OnceAgainWorks
  <2> QED
    BY <1>2, <2>1, <2>2
<1>3. CASE how # "fresh"
  <2> DEFINE T == {k \in 0 .. n : Sound(g[k], how)}
  <2>0. Touched(how) = how
    BY <1>3 DEF Touched
  <2>1. 0 \in T
    BY <1>0, <1>1
  <2>2. \A k \in 1 .. n : k - 1 \in T => k \in T
    <3> TAKE k \in 1 .. n
    <3> HAVE k - 1 \in T
    <3>1. g[k] = Once(g[k - 1], c) /\ Sound(g[k - 1], how) /\ k \in 0 .. n
      BY <1>1
    <3>2. Sound(Once(g[k - 1], c), how)
      BY <2>0, <3>1, OnceAgainWorks
    <3> QED
      BY <3>1, <3>2
  <2> HIDE DEF T
  <2>3. T = 0 .. n
    BY <2>1, <2>2, Inducts DEF T
  <2> QED
    BY <2>0, <2>3 DEF T
<1> QED
  BY <1>2, <1>3

LEMMA RepetitionWorks ==
  ASSUME NoneIsApart, NEW s, NEW how \in Begins, Working(s, how), NEW n \in Nat,
         NEW c, c.kind \in Executed \cup {"accept", "end_of_input"}, Tame(c, how),
         how = "fresh" => n \in {0, 1}
  PROVE  Sound(Repeated(s, c, n), Loose(how))
<1> DEFINE after == CHOOSE g : Times(s, c, n, g)
           t == after[n]
<1>1. Times(s, c, n, after)
  BY TimesExist
<1>2. Repeated(s, c, n) = Try(t, Schedule(IF RefreshesCursor(c) THEN Clamped(t) ELSE t))
  BY DEF Repeated, Once, Times
<1> HIDE DEF after
<1>3. Sound(t, Touched(how))
  BY <1>1, TimesWork
<1> HIDE DEF t
<1>4. ASSUME t.outcome = "reading"
      PROVE  Sound(Schedule(IF RefreshesCursor(c) THEN Clamped(t) ELSE t), Loose(how))
  <2>1. /\ Touched(how) \in Middles /\ Touched(Touched(how)) = Touched(how)
        /\ Loose(Touched(how)) = Loose(how)
    BY HowsFollow
  <2>2. Working(t, Touched(how)) /\ Working(Clamped(t), Touched(how))
    BY <1>3, <1>4, <2>1, ChangeMayFinish DEF Working
  <2> QED
    BY <2>1, <2>2, ChangeMayFinish
<1> QED
  BY <1>2, <1>3, <1>4, Tries

-----------------------------------------------------------------------------
(* The handlers.  Each keeps how the groups stand to those who opened them.  *)

LEMMA StateIsMade ==
  ASSUME NEW s, NEW how \in Begins, Working(s, how), NEW e, SingleEdit(s.e, e),
         NEW d, IsDriver(d),
         d.recording = s.d.recording, d.replaying = s.d.replaying, d.unit = s.d.unit,
         d.operator = None \/ d.operator = s.d.operator,
         NEW u, u \in [e : {e}, d : {d}, outcome : {"reading"}]
  PROVE  Working(u, Touched(how))
<1>1. Stand(e, s.d, Touched(how))
  BY WorkingParts, EditStands DEF Permitted, SingleEdit
<1>2. Stand(e, d, Touched(how))
  BY <1>1, DriverStands
<1>3. IsEditor(e) /\ GroupFits(e.group)
  BY WorkingParts DEF SingleEdit, SameGroup
<1> QED
  BY <1>2, <1>3, Assembled

LEMMA Finishes ==
  ASSUME NoneIsApart, NEW s, NEW how \in Middles, Working(s, how)
  PROVE  /\ Sound(Schedule(s), Loose(how)) /\ Sound(Schedule(Clamped(s)), Loose(how))
         /\ Sound(Cancel(s), Loose(how)) /\ Sound(Fail(s), Loose(how)) /\ Sound(s, Loose(how))
         /\ \A p : Sound(Schedule([s EXCEPT !.e.cursor = p]), Loose(how))
         /\ \A p : Sound(Schedule(Clamped([s EXCEPT !.e.cursor = p])), Loose(how))
<1>0. /\ Touched(how) \in Middles /\ Touched(Touched(how)) = Touched(how)
      /\ Loose(Touched(how)) = Loose(how) /\ how \in Hows
  BY HowsFollow DEF Touched
<1>1. ASSUME NEW t, Working(t, Touched(how))
      PROVE  Sound(Schedule(t), Loose(how)) /\ Sound(Schedule(Clamped(t)), Loose(how))
  <2>1. Working(Clamped(t), Touched(how))
    BY <1>0, <1>1, ChangeMayFinish
  <2> QED
    BY <1>0, <1>1, <2>1, ChangeMayFinish
<1>2. \A p : Working([s EXCEPT !.e.cursor = p], Touched(how))
  BY CursorWorks
<1>3. Sound(Cancel(s), Loose(how)) /\ Sound(Fail(s), Loose(how)) /\ Sound(s, Loose(how))
  BY <1>0, ChangeMayFinish, ReadEnds, SoundLater DEF Working, Fail
<1>4. Working(s, Touched(how))
  BY <1>0, SoundLater DEF Working
<1> QED
  BY <1>1, <1>2, <1>3, <1>4

LEMMA EditFinishes ==
  ASSUME NoneIsApart, NEW s, NEW how \in Begins, Working(s, how), NEW e, SingleEdit(s.e, e)
  PROVE  Sound(Schedule(With(s, e)), Loose(how)) /\ Sound(Schedule(Clamped(With(s, e))), Loose(how))
<1>1. Working(With(s, e), Touched(how))
  BY WithWorks DEF Permitted, SingleEdit
<1>2. Touched(how) \in Middles /\ Loose(Touched(how)) = Loose(how)
  BY HowsFollow
<1> QED
  BY <1>1, <1>2, Finishes

LEMMA EditorIsMade ==
  ASSUME NEW s, NEW how, Working(s, how)
  PROVE  IsEditor(s.e) /\ IsDriver(s.d)
  BY DEF Working, Sound, IsState

LEMMA CountedMoveWorks ==
  ASSUME NoneIsApart, NEW s, NEW how \in Begins, Working(s, how), NEW motion, NEW n
  PROVE  Sound(CountedMove(s, motion, n), Loose(how))
<1>1. \E p : CountedMove(s, motion, n) = Schedule(Clamped([s EXCEPT !.e.cursor = p]))
  BY Zenon DEF CountedMove
<1>2. how \in Middles
  BY HowsFollow
<1> QED
  BY <1>1, <1>2, Finishes

LEMMA CountedDeleteWorks ==
  ASSUME NoneIsApart, NEW s, NEW how \in Begins, Working(s, how), NEW direction, NEW n
  PROVE  Sound(CountedDelete(s, direction, n), Loose(how))
<1>1. PICK span : CountedDelete(s, direction, n) = Schedule(Clamped(With(s, Delete(s.e, span))))
  BY Zenon DEF CountedDelete
<1>2. SingleEdit(s.e, Delete(s.e, span))
  BY EditorIsMade, EditsKeep
<1> QED
  BY <1>1, <1>2, EditFinishes

LEMMA TransposeWorks ==
  ASSUME NoneIsApart, NEW s, NEW how \in Begins, Working(s, how)
  PROVE  Sound(DispatchTranspose(s), Loose(how))
<1>1. SingleEdit(s.e, Transpose(s.e))
  BY EditorIsMade, OthersKeep
<1>2. DispatchTranspose(s) \in {Schedule(s), Schedule([s EXCEPT !.e.cursor = 1]),
                                Schedule(Clamped(With(s, Transpose(s.e))))}
  BY DEF DispatchTranspose
<1>3. how \in Middles
  BY HowsFollow
<1> QED
  BY <1>1, <1>2, <1>3, EditFinishes, Finishes

LEMMA ActionWorks ==
  ASSUME NoneIsApart, NEW s, NEW how \in Begins, Working(s, how),
         NEW c, c.kind \in Actions, Tame(c, how), how = "fresh" => ~RepeatsWithCount(c),
         NEW n \in Nat
  PROVE  Sound(DispatchAction(s, c, n), Loose(how))
<1>1. CASE n = 0
  BY <1>1, Finishes, HowsFollow DEF DispatchAction
<1>2. CASE n # 0 /\ c.kind = "move"
  BY <1>2, CountedMoveWorks DEF DispatchAction
<1>3. CASE n # 0 /\ c.kind = "delete_character"
  BY <1>3, CountedDeleteWorks DEF DispatchAction
<1>4. CASE n # 0 /\ c.kind = "transpose"
  BY <1>4, TransposeWorks DEF DispatchAction
<1>5. CASE n # 0 /\ c.kind \notin {"move", "delete_character", "transpose"}
  <2> DEFINE k == IF RepeatsWithCount(c) THEN n ELSE 1
  <2>1. DispatchAction(s, c, n) = Repeated(s, c, k)
    BY <1>5 DEF DispatchAction
  <2>2. k \in Nat /\ c.kind \in Executed \cup {"accept", "end_of_input"}
    BY <1>5 DEF Actions, Executed
  <2>3. how = "fresh" => k \in {0, 1}
    OBVIOUS
  <2> HIDE DEF k
  <2> QED
    BY <2>1, <2>2, <2>3, RepetitionWorks
<1> QED
  BY <1>1, <1>2, <1>3, <1>4, <1>5

LEMMA PerformanceWorks ==
  ASSUME NoneIsApart, NEW s, NEW how \in Begins, Working(s, how),
         NEW c, c.kind \in Actions, Tame(c, how), NEW n \in Nat
  PROVE  /\ ChangesLine(c) => Sound(PrepareRecording(s, c, n), Begun(how))
         /\ LET t == PrepareRecording(s, c, n) IN Sound(Try(t, DispatchAction(t, c, n)), Loose(how))
         /\ Sound(Perform(s, c), Loose(how))
<1>1. IsCommand(c) /\ c.kind \notin {"history_line", "undo_required"}
  BY DEF IsCommand, Actions, Arguments
<1>2. ASSUME NEW m \in Nat
      PROVE  /\ ChangesLine(c) => Sound(PrepareRecording(s, c, m), Begun(how))
             /\ LET t == PrepareRecording(s, c, m)
                IN  Sound(Try(t, DispatchAction(t, c, m)), Loose(how))
  <2> DEFINE t == PrepareRecording(s, c, m)
             later == IF ChangesLine(c) THEN Begun(how) ELSE how
  <2>1. Sound(t, later)
    BY <1>1, RecordingWorks
  <2>2. /\ later \in Begins /\ later \in {how, Begun(how), Touched(how)}
        /\ Loose(later) = Loose(how) /\ Tame(c, later)
    BY HowsFollow DEF Tame, Begun, Phases
  <2>3. later = "fresh" => ~RepeatsWithCount(c)
    BY DEF ChangesLine, RepeatsWithCount, Begun
  <2>4. ChangesLine(c) => Sound(t, Begun(how))
    BY <2>1
  <2> HIDE DEF t, later
  <2>5. t.outcome = "reading" => Sound(DispatchAction(t, c, m), Loose(how))
    BY <2>1, <2>2, <2>3, ActionWorks DEF Working
  <2>6. Sound(Try(t, DispatchAction(t, c, m)), Loose(how))
    BY <2>1, <2>2, <2>5, Tries
  <2> QED
    BY <2>4, <2>6 DEF t
<1> QED
  BY <1>2 DEF Perform

\* A command as it comes to its handler, read from a key or from a replay.
Given(s, how, c, own) ==
  /\ Working(s, how)
  /\ IsCommand(c) /\ c.kind \notin Unrepeated
  /\ own = None \/ own \in Nat

LEMMA GivenWorks ==
  ASSUME NoneIsApart, NEW s, NEW how \in Begins, NEW c, NEW own, Given(s, how, c, own)
  PROVE  /\ Repeat(s, own) \in Nat /\ Working(TakeRepeat(s, own), how)
         /\ Sound(RecordInvocation(TakeRepeat(s, own), c, Repeat(s, own)), how)
         /\ Sound(Starting(s, c, own), Begun(how))
         /\ Begun(how) \in Begins /\ Loose(Begun(how)) = Loose(how) /\ Begun(how) # "fresh"
<1>1. Repeat(s, own) \in Nat /\ Working(TakeRepeat(s, own), how)
  BY RepeatIsTaken DEF Given
<1>2. Working(BeginChange(TakeRepeat(s, own)), Begun(how))
  BY <1>1, ChangeBegins
<1>3. Begun(how) \in Begins /\ Loose(Begun(how)) = Loose(how) /\ Begun(how) # "fresh"
  BY HowsFollow
<1> QED
  BY <1>1, <1>2, <1>3, RecordingWorks DEF Given, Starting

LEMMA OperationWorks ==
  ASSUME NoneIsApart, NEW s, NEW how \in Begins, Working(s, how)
  PROVE  /\ \A span : Sound(Operate(s, span), Loose(how))
         /\ \A to, inclusive : Sound(OperateTo(s, to, inclusive), Loose(how))
<1>1. ASSUME NEW span
      PROVE  Sound(Operate(s, span), Loose(how))
  <2> DEFINE o == s.d.operator.operator
             e == IF o = "yank" THEN Copy(s.e, span) ELSE Kill(s.e, span)
             f == IF o = "change" THEN SetModes(e, "insert", "vi_insert") ELSE e
             d == [s.d EXCEPT !.operator = None]
             u == [s EXCEPT !.d.operator = None, !.e = f]
  <2>1. SingleEdit(s.e, e) /\ IsEditor(e)
    BY EditorIsMade, EditsKeep, AsideEdits
  <2> HIDE DEF e
  <2>2. Aside(e, SetModes(e, "insert", "vi_insert"))
    BY <2>1, OthersKeep DEF Keymaps
  <2>3. SingleEdit(s.e, f)
    BY <2>1, <2>2, AsideEdits
  <2>4. Operate(s, span) = Schedule(u)
    BY DEF Operate, e
  <2> HIDE DEF f
  <2>5. /\ IsDriver(d) /\ d.recording = s.d.recording /\ d.replaying = s.d.replaying
        /\ d.unit = s.d.unit /\ d.operator = None
    BY EditorIsMade DEF IsDriver
  <2>6. u \in [e : {f}, d : {d}, outcome : {"reading"}]
    BY DEF Working, Sound, IsState
  <2> HIDE DEF d, u
  <2>7. Working(u, Touched(how))
    BY <2>3, <2>5, <2>6, StateIsMade
  <2>8. Touched(how) \in Middles /\ Loose(Touched(how)) = Loose(how)
    BY HowsFollow
  <2> QED
    BY <2>4, <2>7, <2>8, Finishes
<1> QED
  BY <1>1 DEF OperateTo

LEMMA OperatorMotionWorks ==
  ASSUME NoneIsApart, NEW s, NEW how \in Begins, NEW c, NEW own, Given(s, how, c, own)
  PROVE  Sound(OperatorMotion(s, c, own), Loose(how))
<1> DEFINE t == RecordInvocation(TakeRepeat(s, own), c, Repeat(s, own))
           to == RepeatedDestination(t.e.line, t.e.cursor, c.motion, Repeat(s, own))
           next == IF to = t.d.operator.anchor /\ c.motion \in Bounded THEN Cancel(t)
                   ELSE OperateTo(t, to, FALSE)
<1>1. Sound(t, how)
  BY GivenWorks
<1>2. OperatorMotion(s, c, own) = Try(t, next)
  BY DEF OperatorMotion
<1> HIDE DEF t, to
<1>3. t.outcome = "reading" => Sound(next, Loose(how))
  BY <1>1, Finishes, OperationWorks, HowsFollow DEF Working
<1> QED
  BY <1>1, <1>2, <1>3, Tries

LEMMA BeginOperatorWorks ==
  ASSUME NoneIsApart, NEW s, NEW how \in Begins, NEW c, NEW own, Given(s, how, c, own)
  PROVE  Sound(BeginOperator(s, c, own), Loose(how))
<1> DEFINE n == Repeat(s, own)
           counted == own # None \/ s.d.argument # None
           t == TakeRepeat(s, own)
           again == RecordInvocation(t, c, n)
           first == RecordInvocation(BeginChange(t), c, n)
           argument == IF counted THEN Explicit(n) ELSE None
           operator == [operator |-> c.operator, anchor |-> first.e.cursor]
           begun == [first EXCEPT !.d.operator = operator, !.d.argument = argument]
           operated == Operate(again, [from |-> 0, to |-> Len(again.e.line)])
<1>1. Sound(again, how) /\ Sound(first, Begun(how)) /\ Working(t, how) /\ n \in Nat
  BY GivenWorks DEF Starting
<1>2. CountFits(argument)
  BY <1>1 DEF CountFits, Explicit
<1>3. BeginOperator(s, c, own) \in {Try(first, begun), Try(again, operated), Cancel(t)}
  BY DEF BeginOperator
<1> HIDE DEF again, first, t, argument, operator
<1>4. first.outcome = "reading" => Sound(begun, Loose(how))
  <2> SUFFICES ASSUME first.outcome = "reading" PROVE Sound(begun, Loose(how))
    OBVIOUS
  <2> DEFINE u == [first EXCEPT !.d.operator = operator]
  <2>1. Begun(how) \in Plain \cup {"held"} /\ Working(first, Begun(how))
    BY <1>1 DEF Begins, Begun, Working
  <2>2. Working(u, Begun(how))
    BY <2>1, FieldsChange
  <2>3. begun = [u EXCEPT !.d.argument = argument]
    BY <1>1 DEF Sound, IsState, IsDriver
  <2> HIDE DEF u
  <2>4. Working(begun, Begun(how))
    BY <1>2, <2>2, <2>3, FieldsChange
  <2> HIDE DEF begun
  <2>5. Begun(how) \in Hows /\ Loose(Begun(how)) = Loose(how)
    BY HowsFollow
  <2> QED
    BY <2>4, <2>5, SoundLater DEF Working
<1>5. again.outcome = "reading" => Sound(operated, Loose(how))
  BY <1>1, OperationWorks DEF Working
<1>6. Sound(Cancel(t), Loose(how))
  BY <1>1, Finishes, HowsFollow
<1> HIDE DEF begun, operated
<1> QED
  BY <1>1, <1>3, <1>4, <1>5, <1>6, Tries

LEMMA ModesWork ==
  ASSUME NoneIsApart, NEW s, NEW how \in Begins, Working(s, how), NEW e, SingleEdit(s.e, e),
         NEW input, NEW keymap \in Keymaps \ {"emacs"}
  PROVE  Sound(Schedule(With(s, SetModes(e, input, keymap))), Loose(how))
<1>1. Aside(e, SetModes(e, input, keymap))
  BY OthersKeep, AsideEdits
<1>2. SingleEdit(s.e, SetModes(e, input, keymap))
  BY <1>1, AsideEdits
<1> QED
  BY <1>2, EditFinishes

LEMMA BeginInsertWorks ==
  ASSUME NoneIsApart, NEW s, NEW how \in Begins, NEW c, NEW own, Given(s, how, c, own)
  PROVE  Sound(BeginInsert(s, c, own), Loose(how))
<1> DEFINE t == Starting(s, c, own)
           to == CASE c.placement = "at_cursor" -> t.e.cursor
                   [] c.placement = "after_cursor" -> After(t.e)
                   [] c.placement = "start" -> 0
                   [] c.placement = "end" -> Len(t.e.line)
           e == [t.e EXCEPT !.cursor = to]
           next == Schedule(With(t, SetModes(e, "insert", "vi_insert")))
<1>1. Sound(t, Begun(how)) /\ Begun(how) \in Begins /\ Loose(Begun(how)) = Loose(how)
  BY GivenWorks
<1>2. BeginInsert(s, c, own) = Try(t, next)
  BY DEF BeginInsert
<1> HIDE DEF t, to
<1>3. ASSUME t.outcome = "reading" PROVE Sound(next, Loose(how))
  <2>1. SingleEdit(t.e, e) /\ Working(t, Begun(how))
    BY <1>1, <1>3, EditorIsMade, CursorMoves, AsideEdits DEF Working
  <2> HIDE DEF e
  <2> QED
    BY <1>1, <2>1, ModesWork DEF Keymaps
<1> HIDE DEF next
<1> QED
  BY <1>1, <1>2, <1>3, Tries

LEMMA EnterCommandModeWorks ==
  ASSUME NoneIsApart, NEW s, NEW how \in Begins, NEW c, NEW own, Given(s, how, c, own)
  PROVE  Sound(EnterCommandMode(s, c), Loose(how))
<1> DEFINE t == RecordInvocation(s, c, 1)
           u == [t EXCEPT !.d.operator = None, !.d.argument = None,
                   !.e = SetModes([t.e EXCEPT !.cursor = Before(t.e.cursor)], "insert", "vi_command")]
<1>1. Sound(t, how)
  BY RecordingWorks DEF Given
<1>2. EnterCommandMode(s, c) = Try(t, Schedule(u))
  BY DEF EnterCommandMode
<1> HIDE DEF t
<1>3. ASSUME t.outcome = "reading" PROVE Sound(Schedule(u), Loose(how))
  <2> DEFINE v == [t EXCEPT !.d.operator = None]
             w == [v EXCEPT !.d.argument = None]
             e == [t.e EXCEPT !.cursor = Before(t.e.cursor)]
             f == SetModes(e, "insert", "vi_command")
  <2>1. Working(t, how) /\ IsEditor(t.e)
    BY <1>1, <1>3, EditorIsMade DEF Working
  <2>2. Working(v, how) /\ v.e = t.e
    BY <2>1, FieldsChange DEF Working, Sound, IsState
  <2>3. u = [w EXCEPT !.e = f]
    BY <2>1 DEF Working, Sound, IsState
  <2>4. Aside(t.e, e) /\ IsEditor(e)
    BY <2>1, CursorMoves, AsideEdits
  <2> HIDE DEF v, e
  <2>5. Working(w, how) /\ w.e = t.e
    <3>1. Working(w, how)
      BY <2>2, FieldsChange DEF CountFits
    <3> QED
      BY <2>2, <3>1 DEF Working, Sound, IsState
  <2>6. Aside(e, f)
    BY <2>4, OthersKeep DEF Keymaps
  <2>7. Permitted(how, w.e, f)
    BY <2>4, <2>5, <2>6, AsideEdits DEF Permitted
  <2> HIDE DEF w, f, u
  <2>8. Working(u, Touched(how))
    BY <2>3, <2>5, <2>7, EditorChanges
  <2>9. Touched(how) \in Middles /\ Loose(Touched(how)) = Loose(how)
    BY HowsFollow
  <2> QED
    BY <2>8, <2>9, Finishes
<1> HIDE DEF u
<1> QED
  BY <1>1, <1>2, <1>3, Tries

LEMMA WaitingWorks ==
  ASSUME NEW s, NEW how \in Begins, Working(s, how),
         NEW unit, unit.kind \in {"quoted", "replace", "search"}
  PROVE  Sound([s EXCEPT !.d.unit = unit], Loose(how))
  BY FieldsChange DEF UnitFits, Working

LEMMA BeginReplacementWorks ==
  ASSUME NoneIsApart, NEW s, NEW how \in Begins, NEW c, NEW own, Given(s, how, c, own)
  PROVE  Sound(BeginReplacement(s, c, own), Loose(how))
<1> DEFINE t == Starting(s, c, own)
           unit == [kind |-> "replace", count |-> Repeat(s, own)]
           u == [s EXCEPT !.d.argument = None]
           next == [t EXCEPT !.d.unit = unit]
<1>1. Sound(t, Begun(how)) /\ Begun(how) \in Begins /\ Loose(Begun(how)) = Loose(how)
  BY GivenWorks
<1>2. Working(u, how)
  BY FieldsChange DEF Given, CountFits
<1>3. BeginReplacement(s, c, own) \in {Schedule(u), Try(t, next)}
  BY DEF BeginReplacement
<1>4. unit.kind = "replace"
  OBVIOUS
<1> HIDE DEF t, u, unit
<1>5. t.outcome = "reading" => Sound(next, Loose(how))
  BY <1>1, <1>4, WaitingWorks DEF Working
<1> HIDE DEF next
<1> QED
  BY <1>1, <1>2, <1>3, <1>5, Finishes, Tries, HowsFollow

LEMMA BeginReplaceModeWorks ==
  ASSUME NoneIsApart, NEW s, NEW how \in Begins, NEW c, NEW own, Given(s, how, c, own)
  PROVE  Sound(BeginReplaceMode(s, c, own), Loose(how))
<1> DEFINE t == Starting(s, c, own)
           next == Schedule(With(t, SetModes(t.e, "replace", "vi_insert")))
<1>1. Sound(t, Begun(how)) /\ Begun(how) \in Begins /\ Loose(Begun(how)) = Loose(how)
  BY GivenWorks
<1>2. BeginReplaceMode(s, c, own) = Try(t, next)
  BY DEF BeginReplaceMode
<1> HIDE DEF t
<1>3. ASSUME t.outcome = "reading" PROVE Sound(next, Loose(how))
  <2>1. Working(t, Begun(how)) /\ SingleEdit(t.e, t.e)
    BY <1>1, <1>3, EditorIsMade, OthersKeep DEF Working
  <2> QED
    BY <1>1, <2>1, ModesWork DEF Keymaps
<1> HIDE DEF next
<1> QED
  BY <1>1, <1>2, <1>3, Tries

LEMMA SubstituteWorks ==
  ASSUME NoneIsApart, NEW s, NEW how \in Begins, NEW c, NEW own, Given(s, how, c, own)
  PROVE  Sound(Substitute(s, c, own), Loose(how))
<1> DEFINE t == Starting(s, c, own)
           at == t.e.cursor
           span == CASE c.substitution = "characters" ->
                          [from |-> at, to |-> Lesser(at + Repeat(s, own), Len(t.e.line))]
                     [] c.substitution = "line" -> [from |-> 0, to |-> Len(t.e.line)]
                     [] c.substitution = "to_end" -> [from |-> at, to |-> Len(t.e.line)]
           next == Schedule(With(t, SetModes(Kill(t.e, span), "insert", "vi_insert")))
<1>1. Sound(t, Begun(how)) /\ Begun(how) \in Begins /\ Loose(Begun(how)) = Loose(how)
  BY GivenWorks
<1>2. Substitute(s, c, own) = Try(t, next)
  BY DEF Substitute
<1> HIDE DEF t, span
<1>3. ASSUME t.outcome = "reading" PROVE Sound(next, Loose(how))
  <2>1. Working(t, Begun(how)) /\ SingleEdit(t.e, Kill(t.e, span))
    BY <1>1, <1>3, EditorIsMade, EditsKeep DEF Working
  <2> QED
    BY <1>1, <2>1, ModesWork DEF Keymaps
<1> HIDE DEF next
<1> QED
  BY <1>1, <1>2, <1>3, Tries

LEMMA ReplaceWithUnitWorks ==
  ASSUME NoneIsApart, NEW s, NEW how \in Begins, Working(s, how), NEW u, NEW n
  PROVE  Sound(ReplaceWithUnit(s, u, n), Loose(how))
<1> DEFINE at == s.e.cursor
           replaced == Lesser(n, Len(s.e.line) - at)
           r == ReplaceSpan(s.e, Copies(u, replaced), at, at + replaced)
           e == SetModes(r, "insert", "vi_command")
           f == IF replaced = 0 THEN e ELSE [e EXCEPT !.cursor = at + replaced - 1]
<1>1. ReplaceWithUnit(s, u, n) = Schedule(With(s, f))
  BY DEF ReplaceWithUnit
<1>2. SingleEdit(s.e, r) /\ IsEditor(r)
  BY EditorIsMade, EditsKeep, AsideEdits
<1> HIDE DEF r
<1>3. Aside(r, e) /\ IsEditor(e)
  <2>1. Aside(r, e)
    BY <1>2, OthersKeep DEF Keymaps
  <2> QED
    BY <2>1, AsideEdits
<1> HIDE DEF e, replaced
<1>4. Aside(e, f)
  BY <1>3, CursorMoves, OthersKeep
<1> HIDE DEF f
<1>5. SingleEdit(s.e, f)
  BY <1>2, <1>3, <1>4, AsideEdits
<1> QED
  BY <1>1, <1>5, EditFinishes

LEMMA InsertCopiesWorks ==
  ASSUME NoneIsApart, NEW s, NEW how \in Begins, Working(s, how), NEW u, NEW n
  PROVE  Sound(InsertCopies(s, u, n), Loose(how))
<1> DEFINE e == InsertText(s.e, Copies(u, n))
<1>1. SingleEdit(s.e, e)
  BY EditorIsMade, InsertKeeps
<1>2. InsertCopies(s, u, n) \in {Schedule(With(s, e)), Schedule(Clamped(With(s, e)))}
  BY DEF InsertCopies
<1> HIDE DEF e
<1> QED
  BY <1>1, <1>2, EditFinishes

LEMMA BeginQuotedInsertWorks ==
  ASSUME NoneIsApart, NEW s, NEW how \in Begins, NEW c, NEW own, Given(s, how, c, own)
  PROVE  Sound(BeginQuotedInsert(s, c, own), Loose(how))
<1> DEFINE n == Repeat(s, own)
           t == TakeRepeat(s, own)
           begun == IF t.e.keymap = "vi_insert" THEN BeginChange(t) ELSE t
           r == RecordInvocation(begun, c, n)
           unit == [kind |-> "quoted", count |-> n]
           next == [r EXCEPT !.d.unit = unit]
<1>1. Working(t, how) /\ n \in Nat
  BY GivenWorks
<1>2. \E early \in {how, Begun(how)} : Working(begun, early)
  BY <1>1, ChangeBegins
<1>3. BeginQuotedInsert(s, c, own) = Try(r, next)
  BY DEF BeginQuotedInsert
<1>4. unit.kind = "quoted"
  OBVIOUS
<1> HIDE DEF begun, n, unit
<1>5. PICK early \in {how, Begun(how)} : Working(begun, early)
  BY <1>2
<1>6. early \in Begins /\ Loose(early) = Loose(how)
  BY HowsFollow
<1>7. Sound(r, early)
  BY <1>1, <1>5, <1>6, RecordingWorks DEF Given
<1> HIDE DEF r
<1>8. r.outcome = "reading" => Sound(next, Loose(how))
  BY <1>4, <1>6, <1>7, WaitingWorks DEF Working
<1> HIDE DEF next
<1> QED
  BY <1>3, <1>7, <1>8, Tries

LEMMA RunSearchWorks ==
  ASSUME NoneIsApart, NEW s, NEW how \in Begins, Working(s, how), NEW search, NEW u, NEW n
  PROVE  Sound(RunSearch(s, search, u, n), Loose(how))
<1> DEFINE to == CharacterDestination(s.e.line, s.e.cursor, search, u, n)
<1>1. RunSearch(s, search, u, n) \in
        {Cancel(s), OperateTo(s, to, to >= s.d.operator.anchor),
         Schedule([s EXCEPT !.e.cursor = to])}
  BY DEF RunSearch
<1> HIDE DEF to
<1>2. how \in Middles
  BY HowsFollow
<1> QED
  BY <1>1, <1>2, Finishes, OperationWorks

LEMMA BeginSearchWorks ==
  ASSUME NoneIsApart, NEW s, NEW how \in Begins, NEW c, NEW own, Given(s, how, c, own)
  PROVE  Sound(BeginSearch(s, c, own), Loose(how))
<1> DEFINE t == RecordInvocation(TakeRepeat(s, own), c, Repeat(s, own))
           unit == [kind |-> "search", search |-> c.search, count |-> Repeat(s, own)]
           next == [t EXCEPT !.d.unit = unit]
<1>1. Sound(t, how)
  BY GivenWorks
<1>2. BeginSearch(s, c, own) = Try(t, next)
  BY DEF BeginSearch
<1>3. unit.kind = "search"
  OBVIOUS
<1> HIDE DEF t, unit
<1>4. t.outcome = "reading" => Sound(next, Loose(how))
  BY <1>1, <1>3, WaitingWorks DEF Working
<1> HIDE DEF next
<1> QED
  BY <1>1, <1>2, <1>4, Tries

LEMMA RepeatSearchWorks ==
  ASSUME NoneIsApart, NEW s, NEW how \in Begins, NEW c, NEW own, Given(s, how, c, own)
  PROVE  Sound(RepeatSearch(s, c, own), Loose(how))
<1> DEFINE n == Repeat(s, own)
           t == RecordInvocation(TakeRepeat(s, own), c, n)
           stored == t.d.lastSearch
           search == IF c.repetition = "same" THEN stored.search
                     ELSE [stored.search EXCEPT !.direction = Opposite(@)]
           next == IF stored = None THEN Cancel(t) ELSE RunSearch(t, search, stored.target, n)
<1>1. Sound(t, how) /\ how \in Middles
  BY GivenWorks, HowsFollow
<1>2. RepeatSearch(s, c, own) = Try(t, next)
  BY DEF RepeatSearch
<1> HIDE DEF t, search
<1>3. t.outcome = "reading" => Sound(next, Loose(how))
  BY <1>1, Finishes, RunSearchWorks DEF Working
<1> HIDE DEF next
<1> QED
  BY <1>1, <1>2, <1>3, Tries

LEMMA TakenWorks ==
  ASSUME NoneIsApart, NEW s, NEW how \in Begins, NEW c, NEW own, Given(s, how, c, own)
  PROVE  /\ Working(TakeRepeat(s, own), how) /\ IsEditor(TakeRepeat(s, own).e)
         /\ Repeat(s, own) \in Nat /\ how \in Middles
  BY GivenWorks, EditorIsMade, HowsFollow

LEMMA PreparedWorks ==
  ASSUME NoneIsApart, NEW s, NEW how \in Begins, Working(s, how),
         NEW c, c.kind \in Actions, ChangesLine(c)
  PROVE  /\ Sound(PrepareRecording(s, c, 1), Begun(how))
         /\ Begun(how) \in Begins /\ Loose(Begun(how)) = Loose(how)
<1>1. Tame(c, how)
  BY DEF Tame, ChangesLine
<1> QED
  BY <1>1, PerformanceWorks, HowsFollow

LEMMA TraverseWordsWorks ==
  ASSUME NoneIsApart, NEW s, NEW how \in Begins, NEW c, NEW own, Given(s, how, c, own), c.kind = "words"
  PROVE  Sound(TraverseWords(s, c, own), Loose(how))
<1> DEFINE n == Repeat(s, own)
           t == TakeRepeat(s, own)
           line == t.e.line
           at == t.e.cursor
           after[i \in 0..n] == IF i = 0 THEN at ELSE WordBoundary(line, after[i - 1], c.direction)
           to == after[n]
           edit == [kind |-> c.operation, span |-> Between(at, to)]
           copy == [kind |-> "insert", text |-> Text(line, Between(at, to))]
           doubled == PrepareRecording(t, copy, 1)
           next == Schedule(With(doubled, ReplaceSpan(doubled.e, copy.text, at, at)))
           moved == [t EXCEPT !.e.cursor = to]
<1>1. Working(t, how) /\ how \in Middles
  BY TakenWorks
<1>2. c.operation \in {"move", "duplicate", "delete", "kill", "toggle"}
  BY DEF Given, IsCommand
<1>3. /\ c.operation \notin {"move", "duplicate"} => edit.kind \in Actions /\ Tame(edit, how)
      /\ copy.kind \in Actions /\ ChangesLine(copy)
  BY <1>2 DEF Actions, Tame, ChangesLine
<1>4. TraverseWords(s, c, own) \in
        {Cancel(t), OperateTo(t, to, FALSE), Schedule(Clamped(moved)), Try(doubled, next)}
        \cup (IF c.operation \notin {"move", "duplicate"} THEN {Perform(t, edit)} ELSE {})
  <2> DEFINE nothing == /\ at = (IF c.direction = "left" THEN 0 ELSE Len(line))
                        /\ c.operation # "toggle"
  <2>1. TraverseWords(s, c, own) =
          IF nothing THEN Cancel(t)
          ELSE CASE c.operation = "move" /\ t.d.operator # None -> OperateTo(t, to, FALSE)
                 [] c.operation = "move" -> Schedule(Clamped(moved))
                 [] c.operation = "duplicate" -> Try(doubled, next)
                 [] OTHER -> Perform(t, edit)
    BY Zenon DEF TraverseWords
  <2> HIDE DEF t, to, edit, moved, doubled, next, nothing
  <2>2. CASE c.operation = "move"
    BY <2>1, <2>2
  <2>3. CASE c.operation = "duplicate"
    BY <2>1, <2>3
  <2>4. CASE c.operation \notin {"move", "duplicate"}
    BY <2>1, <2>4
  <2> QED
    BY <2>2, <2>3, <2>4
<1> HIDE DEF t, to, edit, copy
<1>5. /\ Sound(doubled, Begun(how))
      /\ Begun(how) \in Begins /\ Loose(Begun(how)) = Loose(how)
  BY <1>1, <1>3, PreparedWorks
<1> HIDE DEF doubled
<1>6. ASSUME doubled.outcome = "reading" PROVE Sound(next, Loose(how))
  <2>1. Working(doubled, Begun(how))
    BY <1>5, <1>6 DEF Working
  <2>2. SingleEdit(doubled.e, ReplaceSpan(doubled.e, copy.text, at, at))
    BY <2>1, EditorIsMade, EditsKeep
  <2> QED
    BY <1>5, <2>1, <2>2, EditFinishes
<1> HIDE DEF next
<1>7. Sound(Try(doubled, next), Loose(how))
  BY <1>5, <1>6, Tries
<1>8. c.operation \notin {"move", "duplicate"} => Sound(Perform(t, edit), Loose(how))
  BY <1>1, <1>3, PerformanceWorks
<1>9. Sound(Schedule(Clamped(moved)), Loose(how))
  BY <1>1, Finishes
<1> HIDE DEF moved
<1> QED
  BY <1>1, <1>4, <1>7, <1>8, <1>9, Finishes, OperationWorks

LEMMA MoveToWordEndWorks ==
  ASSUME NoneIsApart, NEW s, NEW how \in Begins, NEW c, NEW own, Given(s, how, c, own)
  PROVE  Sound(MoveToWordEnd(s, own), Loose(how))
<1> DEFINE t == TakeRepeat(s, own)
<1>1. \E to : MoveToWordEnd(s, own) \in
        {Cancel(t), OperateTo(t, to, TRUE), Schedule([t EXCEPT !.e.cursor = to])}
  <2> DEFINE n == Repeat(s, own)
             after[i \in 0..n] == IF i = 0 THEN t.e.cursor ELSE WordEnd(t.e.line, after[i - 1])
             to == after[n]
  <2>1. MoveToWordEnd(s, own) \in
          {Cancel(t), OperateTo(t, to, TRUE), Schedule([t EXCEPT !.e.cursor = to])}
    BY DEF MoveToWordEnd
  <2> HIDE DEF t, to
  <2> QED
    BY <2>1
<1>2. Working(t, how) /\ how \in Middles
  BY TakenWorks
<1> HIDE DEF t
<1> QED
  BY <1>1, <1>2, Finishes, OperationWorks

LEMMA MoveToColumnWorks ==
  ASSUME NoneIsApart, NEW s, NEW how \in Begins, NEW c, NEW own, Given(s, how, c, own)
  PROVE  Sound(MoveToColumn(s, own), Loose(how))
<1> DEFINE t == TakeRepeat(s, own)
           to == Lesser(Before(Repeat(s, own)), Len(t.e.line))
<1>1. MoveToColumn(s, own) \in
        {Cancel(t), OperateTo(t, to, FALSE), Schedule([t EXCEPT !.e.cursor = to])}
  BY DEF MoveToColumn
<1>2. Working(t, how) /\ how \in Middles
  BY TakenWorks
<1> HIDE DEF t, to
<1> QED
  BY <1>1, <1>2, Finishes, OperationWorks

LEMMA EndsWork ==
  ASSUME NoneIsApart, NEW s, NEW how \in Begins, NEW c, NEW own, Given(s, how, c, own)
  PROVE  Sound(CommentAndAccept(s, c, own), Loose(how)) /\ Sound(EndIfEmpty(s, own), Loose(how))
<1> DEFINE t == TakeRepeat(s, own)
           e == ReplaceSpan(t.e, c.text, 0, 0)
<1>1. Working(t, how) /\ IsEditor(t.e) /\ how \in Middles
  BY TakenWorks
<1> HIDE DEF t
<1>2. SingleEdit(t.e, e)
  BY <1>1, EditsKeep
<1> HIDE DEF e
<1>3. Sound(End(With(t, e), "accepted"), Loose(how)) /\ Sound(End(t, "end_of_input"), Loose(how))
  <2>1. Working(With(t, e), Touched(how))
    BY <1>1, <1>2, WithWorks DEF Permitted, SingleEdit
  <2>2. how \in Hows /\ Touched(how) \in Hows /\ Loose(Touched(how)) = Loose(how)
    BY HowsFollow
  <2> QED
    BY <1>1, <2>1, <2>2, ReadEnds
<1> QED
  BY <1>1, <1>3, Finishes DEF CommentAndAccept, EndIfEmpty, t, e

LEMMA DeletionsWork ==
  ASSUME NoneIsApart, NEW s, NEW how \in Begins, NEW c, NEW own, Given(s, how, c, own)
  PROVE  Sound(DeleteFollowing(s, own), Loose(how)) /\ Sound(DeletePrevious(s, own), Loose(how))
<1> DEFINE t == TakeRepeat(s, own)
           at == t.e.cursor
           span == [from |-> at, to |-> Lesser(at + Repeat(s, own), Len(t.e.line))]
           following == [kind |-> "delete", span |-> span]
           previous == [kind |-> "delete_character", direction |-> "left"]
<1>1. Working(t, how) /\ how \in Middles /\ how \in Hows
  BY TakenWorks, HowsFollow
<1>2. /\ following.kind \in Actions /\ previous.kind \in Actions
      /\ Tame(following, how) /\ Tame(previous, how)
  BY DEF Actions, Tame
<1>3. DeleteFollowing(s, own) \in {End(t, "end_of_input"), Schedule(t), Perform(t, following)}
  BY DEF DeleteFollowing
<1>4. DeletePrevious(s, own) = Perform(t, previous)
  BY DEF DeletePrevious
<1> HIDE DEF t, following, previous
<1> QED
  BY <1>1, <1>2, <1>3, <1>4, ReadEnds, Finishes, PerformanceWorks

LEMMA ToggleAndAdvanceWorks ==
  ASSUME NoneIsApart, NEW s, NEW how \in Begins, NEW c, NEW own, Given(s, how, c, own)
  PROVE  Sound(ToggleAndAdvance(s, own), Loose(how))
<1> DEFINE n == Repeat(s, own)
           t == TakeRepeat(s, own)
           at == t.e.cursor
           span == [from |-> at, to |-> Lesser(at + n, Len(t.e.line))]
           toggle == [kind |-> "toggle", span |-> span]
           p == PrepareRecording(t, toggle, 1)
           e == ToggleCase(p.e, span)
           f == IF span.to < Len(e.line) THEN e ELSE [e EXCEPT !.cursor = Len(e.line) - 1]
           next == Schedule(With(p, f))
<1>1. Working(t, how) /\ how \in Middles
  BY TakenWorks
<1>2. toggle.kind \in Actions /\ ChangesLine(toggle)
  BY DEF Actions, ChangesLine
<1>3. ToggleAndAdvance(s, own) \in {Schedule(t), Try(p, next)}
  BY DEF ToggleAndAdvance
<1> HIDE DEF t, toggle
<1>4. /\ Sound(p, Begun(how))
      /\ Begun(how) \in Begins /\ Loose(Begun(how)) = Loose(how)
  BY <1>1, <1>2, PreparedWorks
<1> HIDE DEF p, span
<1>5. ASSUME p.outcome = "reading" PROVE Sound(next, Loose(how))
  <2>1. Working(p, Begun(how)) /\ SingleEdit(p.e, e)
    BY <1>4, <1>5, EditorIsMade, EditsKeep DEF Working
  <2> HIDE DEF e
  <2>2. SingleEdit(p.e, f)
    BY <2>1, CursorMoves, AsideEdits
  <2> HIDE DEF f
  <2> QED
    BY <1>4, <2>1, <2>2, EditFinishes
<1> HIDE DEF next
<1> QED
  BY <1>1, <1>3, <1>4, <1>5, Finishes, Tries

LEMMA PasteWorks ==
  ASSUME NoneIsApart, NEW s, NEW how \in Begins, NEW c, NEW own, Given(s, how, c, own)
  PROVE  Sound(Paste(s, c, own), Loose(how))
<1> DEFINE t == TakeRepeat(s, own)
           yank == [kind |-> "yank", placement |-> c.placement]
<1>1. Working(t, how) /\ how \in Middles
  BY TakenWorks
<1>2. yank.kind \in Actions /\ Tame(yank, how)
  BY DEF Actions, Tame
<1>3. Paste(s, c, own) \in {Schedule(t), Perform(t, yank)}
  BY DEF Paste
<1> HIDE DEF t, yank
<1> QED
  BY <1>1, <1>2, <1>3, Finishes, PerformanceWorks

LEMMA TransposeBeforeWorks ==
  ASSUME NoneIsApart, NEW s, NEW how \in Begins, NEW c, NEW own, Given(s, how, c, own)
  PROVE  Sound(TransposeBefore(s, own), Loose(how))
<1> DEFINE t == TakeRepeat(s, own)
           transpose == [kind |-> "transpose"]
           p == PrepareRecording(t, transpose, 1)
           at == t.e.cursor
           next == Schedule(With(p, Swap(p.e, at - 2, at)))
<1>1. Working(t, how) /\ how \in Middles
  BY TakenWorks
<1>2. transpose.kind \in Actions /\ ChangesLine(transpose)
  BY DEF Actions, ChangesLine
<1>3. TransposeBefore(s, own) \in {Schedule(t), Try(p, next)}
  BY DEF TransposeBefore
<1> HIDE DEF t, transpose
<1>4. /\ Sound(p, Begun(how))
      /\ Begun(how) \in Begins /\ Loose(Begun(how)) = Loose(how)
  BY <1>1, <1>2, PreparedWorks
<1> HIDE DEF p, at
<1>5. ASSUME p.outcome = "reading" PROVE Sound(next, Loose(how))
  <2>1. Working(p, Begun(how)) /\ SingleEdit(p.e, Swap(p.e, at - 2, at))
    BY <1>4, <1>5, EditorIsMade, SwapKeeps DEF Working
  <2> QED
    BY <1>4, <2>1, EditFinishes
<1> HIDE DEF next
<1> QED
  BY <1>1, <1>3, <1>4, <1>5, Finishes, Tries

LEMMA InsertInvokingWorks ==
  ASSUME NoneIsApart, NEW s, NEW how \in Begins, NEW c, NEW own, Given(s, how, c, own)
  PROVE  Sound(InsertInvoking(s, c, own), Loose(how))
<1> DEFINE n == Repeat(s, own)
           t == TakeRepeat(s, own)
           text == Copies(c.unit, n)
           insert == [kind |-> "insert", text |-> text]
           p == PrepareRecording(t, insert, 1)
           at == p.e.cursor
           next == CASE p.e.input = "replace_once" -> ReplaceWithUnit(p, c.unit, n)
                     [] p.e.input = "replace" /\ n # 1 ->
                          Schedule(With(p, ReplaceSpan(p.e, text, at, at)))
                     [] OTHER -> InsertCopies(p, c.unit, n)
<1>1. Working(t, how) /\ how \in Middles
  BY TakenWorks
<1>2. insert.kind \in Actions /\ ChangesLine(insert)
  BY DEF Actions, ChangesLine
<1>3. InsertInvoking(s, c, own) \in {Schedule(t), Try(p, next)}
  BY DEF InsertInvoking
<1> HIDE DEF t, insert
<1>4. /\ Sound(p, Begun(how))
      /\ Begun(how) \in Begins /\ Loose(Begun(how)) = Loose(how)
  BY <1>1, <1>2, PreparedWorks
<1> HIDE DEF p, text, n
<1>5. ASSUME p.outcome = "reading" PROVE Sound(next, Loose(how))
  <2>1. Working(p, Begun(how)) /\ SingleEdit(p.e, ReplaceSpan(p.e, text, at, at))
    BY <1>4, <1>5, EditorIsMade, EditsKeep DEF Working
  <2> QED
    BY <1>4, <2>1, EditFinishes, ReplaceWithUnitWorks, InsertCopiesWorks
<1> HIDE DEF next
<1> QED
  BY <1>1, <1>3, <1>4, <1>5, Finishes, Tries

\* Undoing keeps the groups, but it is not what a command makes one record of.
LEMMA UndoRequiredWorks ==
  ASSUME NoneIsApart, NEW s, NEW how \in Plain, Working(s, how),
         NEW own, own = None \/ own \in Nat
  PROVE  Sound(UndoRequired(s, own), how)
<1> DEFINE t == TakeRepeat(s, own)
           undo == [kind |-> "undo"]
<1>1. Working(t, how) /\ how \in Begins /\ how \in Middles /\ Loose(how) = how
  BY RepeatIsTaken, HowsFollow
<1>2. undo.kind \in Actions /\ ~RepeatsWithCount(undo) /\ Tame(undo, how)
  BY HowsFollow DEF Actions, RepeatsWithCount, Tame
<1>3. UndoRequired(s, own) \in {Schedule(t), DispatchAction(t, undo, 1)}
  BY DEF UndoRequired
<1> HIDE DEF t, undo
<1>4. Sound(DispatchAction(t, undo, 1), how)
  BY <1>1, <1>2, ActionWorks
<1>5. Sound(Schedule(t), how)
  BY <1>1, Finishes
<1> QED
  BY <1>3, <1>4, <1>5

LEMMA ArgumentsWork ==
  ASSUME NoneIsApart, NEW s, NEW how \in Begins, Working(s, how), NEW number \in Nat
  PROVE  /\ Sound(AppendDigit(s, number), Loose(how))
         /\ Sound(MultiplyArgument(s, number), Loose(how))
         /\ Sound([s EXCEPT !.d.argument = Explicit(number)], Loose(how))
<1>0. how \in Hows /\ how \in Middles
  BY HowsFollow
<1>1. ASSUME NEW n \in Nat, NEW multiplied
      PROVE  Sound([s EXCEPT !.d.argument = [count |-> n, multiplied |-> multiplied]], Loose(how))
  <2> DEFINE argument == [count |-> n, multiplied |-> multiplied]
             t == [s EXCEPT !.d.argument = argument]
  <2>1. CountFits(argument)
    BY DEF CountFits
  <2> HIDE DEF argument
  <2>2. Working(t, how)
    BY <2>1, FieldsChange
  <2> HIDE DEF t
  <2>3. Sound(t, Loose(how))
    BY <1>0, <2>2, SoundLater DEF Working
  <2> QED
    BY <2>3 DEF t, argument
<1>2. CountOr(s, 0) \in Nat /\ CountOr(s, 1) \in Nat
  BY RepeatIsTaken
<1>3. 10 * CountOr(s, 0) + number \in Nat /\ number * CountOr(s, 1) \in Nat
  <2>1. \A a, b \in Nat : 10 * a + b \in Nat /\ b * a \in Nat
    OBVIOUS
  <2> QED
    BY <1>2, <2>1
<1>4. Sound(AppendDigit(s, number), Loose(how))
  BY <1>0, <1>1, <1>3, Finishes DEF AppendDigit, Explicit
<1>5. Sound(MultiplyArgument(s, number), Loose(how))
  BY <1>0, <1>1, <1>3, Finishes DEF MultiplyArgument
<1> QED
  BY <1>1, <1>4, <1>5 DEF Explicit

LEMMA DigitArgumentWorks ==
  ASSUME NoneIsApart, NEW s, NEW how \in Begins, Working(s, how),
         NEW c, IsCommand(c), c.kind \in {"start_digit", "digit_or_insert"}
  PROVE  Sound(DigitArgument(s, c), Loose(how))
<1> DEFINE insert == [kind |-> "insert", text |-> <<c.unit>>]
<1>1. insert.kind \in Actions /\ Tame(insert, how) /\ c.digit \in Nat
  BY DEF Actions, IsCommand, Arguments, Tame
<1>2. DigitArgument(s, c) \in
        {Perform(s, insert), [s EXCEPT !.d.argument = Explicit(c.digit)], AppendDigit(s, c.digit)}
  BY DEF DigitArgument
<1> HIDE DEF insert
<1>3. Sound(Perform(s, insert), Loose(how))
  BY <1>1, 1 \in Nat, PerformanceWorks
<1>4. Sound(AppendDigit(s, c.digit), Loose(how)) /\ Sound([s EXCEPT !.d.argument = Explicit(c.digit)], Loose(how))
  BY <1>1, ArgumentsWork
<1> QED
  BY <1>2, <1>3, <1>4

LEMMA StartOrArgumentWorks ==
  ASSUME NoneIsApart, NEW s, NEW how \in Begins, Working(s, how),
         NEW c, IsCommand(c), c.kind = "start_or_argument"
  PROVE  Sound(StartOrArgument(s, c), Loose(how))
<1> DEFINE start == [kind |-> "move", motion |-> "start"]
<1>1. /\ start.kind = "move" /\ start.kind \in Actions /\ c.digit \in Nat
      /\ Tame(start, how) /\ ~RepeatsWithCount(start)
  BY DEF Actions, IsCommand, Arguments, Tame, RepeatsWithCount
<1>2. StartOrArgument(s, c) \in
        {AppendDigit(s, c.digit), OperatorMotion(s, start, None), DispatchAction(s, start, 1)}
  BY DEF StartOrArgument
<1> HIDE DEF start
<1>3. Given(s, how, start, None)
  BY <1>1 DEF Given, IsCommand, Arguments, Unrepeated
<1>4. Sound(AppendDigit(s, c.digit), Loose(how))
  BY <1>1, ArgumentsWork
<1>5. Sound(OperatorMotion(s, start, None), Loose(how))
  BY <1>3, OperatorMotionWorks
<1>6. Sound(DispatchAction(s, start, 1), Loose(how))
  BY <1>1, 1 \in Nat, ActionWorks
<1> QED
  BY <1>2, <1>4, <1>5, <1>6

\* Under a history line the groups are closed; whoever opened them is still there.
LEMMA HistoryLineWorks ==
  ASSUME NoneIsApart, NEW s, NEW how \in {"below", "none"}, Working(s, how),
         NEW c, NEW own, own = None \/ own \in Nat
  PROVE  Sound(HistoryLine(s, c, own), how)
<1> DEFINE t == TakeRepeat(s, own)
           e == RestoreHistory(t.e, c.answer)
           u == With(t, e)
<1>1. Working(t, how) /\ how \in Middles /\ Loose(how) = how
  BY RepeatIsTaken, HowsFollow DEF Plain
<1>2. HistoryLine(s, c, own) \in {Schedule(t), Schedule(u)}
  BY DEF HistoryLine
<1> HIDE DEF t
<1>3. IsEditor(e) /\ e.group = None
  BY <1>1, EditorIsMade DEF RestoreHistory, IsEditor
<1> HIDE DEF e
<1>4. t \in [e : {t.e}, d : {t.d}, outcome : {"reading"}] /\ IsDriver(t.d)
  BY <1>1, WorkingParts
<1>5. u \in [e : {e}, d : {t.d}, outcome : {"reading"}]
  BY <1>4 DEF With
<1> HIDE DEF u
<1>6. Stand(e, t.d, how)
  BY <1>3 DEF Stand, Depth, Owners, Holds, Phases
<1>7. Working(u, how)
  BY <1>3, <1>4, <1>5, <1>6, Assembled DEF GroupFits
<1> QED
  BY <1>1, <1>2, <1>7, Finishes

LEMMA HistoryWordWorks ==
  ASSUME NoneIsApart, NEW s, NEW how \in Begins, NEW c, NEW own, Given(s, how, c, own)
  PROVE  Sound(HistoryWord(s, c, own), Loose(how))
<1> DEFINE t == TakeRepeat(s, own)
           at == After(t.e)
           e == ReplaceSpan(t.e, c.word, at, at)
<1>1. Working(t, how) /\ IsEditor(t.e) /\ how \in Middles
  BY TakenWorks
<1>2. HistoryWord(s, c, own) \in
        {Schedule(t), Schedule(With(t, SetModes(e, "insert", "vi_insert")))}
  BY DEF HistoryWord
<1> HIDE DEF t, at
<1>3. SingleEdit(t.e, e)
  BY <1>1, EditsKeep
<1> HIDE DEF e
<1> QED
  BY <1>1, <1>2, <1>3, Finishes, ModesWork DEF Keymaps

LEMMA DispatchWorks ==
  ASSUME NoneIsApart, NEW s, NEW how \in Begins, NEW c, NEW own, Given(s, how, c, own)
  PROVE  Sound(Dispatch(s, c, own), Loose(how))
<1>1. CASE c.kind = "move" /\ s.d.operator # None
  BY <1>1, OperatorMotionWorks DEF Dispatch
<1>2. CASE c.kind \in Actions /\ ~(c.kind = "move" /\ s.d.operator # None)
  <2> DEFINE n == Repeat(s, own)
             t == TakeRepeat(s, own)
             p == PrepareRecording(t, c, n)
  <2>1. Dispatch(s, c, own) = Try(p, DispatchAction(p, c, n))
    BY <1>2 DEF Dispatch, Actions
  <2>2. Working(t, how) /\ n \in Nat /\ Tame(c, how)
    BY TakenWorks DEF Given, Unrepeated, Tame
  <2> HIDE DEF t, n
  <2>3. Sound(Try(p, DispatchAction(p, c, n)), Loose(how))
    BY <1>2, <2>2, PerformanceWorks
  <2> QED
    BY <2>1, <2>3
<1>3. CASE c.kind \in Sequenced
  <2>1. Dispatch(s, c, own) \in
          {BeginOperator(s, c, own), BeginInsert(s, c, own), EnterCommandMode(s, c),
           BeginReplacement(s, c, own), BeginReplaceMode(s, c, own), Substitute(s, c, own),
           BeginSearch(s, c, own), RepeatSearch(s, c, own), BeginQuotedInsert(s, c, own)}
    BY <1>3 DEF Dispatch, Sequenced, Actions
  <2> QED
    BY <2>1, BeginOperatorWorks, BeginInsertWorks, EnterCommandModeWorks, BeginReplacementWorks,
       BeginReplaceModeWorks, SubstituteWorks, BeginSearchWorks, RepeatSearchWorks,
       BeginQuotedInsertWorks
<1>4. CASE c.kind = "words"
  <2>1. Dispatch(s, c, own) = TraverseWords(s, c, own)
    BY <1>4 DEF Dispatch, Actions
  <2> QED
    BY <1>4, <2>1, TraverseWordsWorks
<1>5. CASE c.kind \in Immediate \ {"words", "undo_required"}
  <2>1. Dispatch(s, c, own) \in
          {MoveToWordEnd(s, own), MoveToColumn(s, own), CommentAndAccept(s, c, own),
           EndIfEmpty(s, own), DeleteFollowing(s, own), ToggleAndAdvance(s, own),
           DeletePrevious(s, own), Paste(s, c, own), TransposeBefore(s, own),
           InsertInvoking(s, c, own)}
    BY <1>5 DEF Dispatch, Immediate, Actions
  <2> QED
    BY <2>1, MoveToWordEndWorks, MoveToColumnWorks, EndsWork, DeletionsWork, ToggleAndAdvanceWorks,
       PasteWorks, TransposeBeforeWorks, InsertInvokingWorks
<1>6. CASE c.kind \in Arguments
  <2>1. CASE c.kind = "start_or_argument"
    <3>1. Dispatch(s, c, own) = StartOrArgument(s, c)
      BY <2>1 DEF Dispatch, Actions
    <3> QED
      BY <2>1, <3>1, StartOrArgumentWorks DEF Given
  <2>2. CASE c.kind = "multiply"
    <3>1. Dispatch(s, c, own) = MultiplyArgument(s, c.factor) /\ c.factor \in Nat
      BY <2>2 DEF Dispatch, Actions, Given, IsCommand, Arguments
    <3> QED
      BY <3>1, ArgumentsWork DEF Given
  <2>3. CASE c.kind \in {"start_digit", "digit_or_insert"}
    <3>1. Dispatch(s, c, own) = DigitArgument(s, c)
      BY <2>3 DEF Dispatch, Actions
    <3> QED
      BY <2>3, <3>1, DigitArgumentWorks DEF Given
  <2> QED
    BY <1>6, <2>1, <2>2, <2>3 DEF Arguments
<1>7. CASE c.kind = "history_word"
  <2>1. Dispatch(s, c, own) = HistoryWord(s, c, own)
    BY <1>7 DEF Dispatch, Actions
  <2> QED
    BY <2>1, HistoryWordWorks
<1> QED
  BY <1>1, <1>2, <1>3, <1>4, <1>5, <1>6, <1>7 DEF Given, IsCommand, Recalls, Unrepeated

LEMMA UndoingWorks ==
  ASSUME NoneIsApart, NEW s, NEW how \in Plain, Working(s, how),
         NEW c, c.kind \in {"undo", "redo", "undo_required"}, NEW own, own = None \/ own \in Nat
  PROVE  Sound(Dispatch(s, c, own), how)
<1> DEFINE n == Repeat(s, own)
           t == TakeRepeat(s, own)
           p == PrepareRecording(t, c, n)
<1>1. CASE c.kind \in {"undo", "redo"}
  <2>1. Dispatch(s, c, own) = Try(p, DispatchAction(p, c, n))
    BY <1>1 DEF Dispatch, Actions
  <2>2. Working(t, how) /\ n \in Nat /\ Tame(c, how) /\ c.kind \in Actions
    BY <1>1, RepeatIsTaken, HowsFollow DEF Tame, Actions
  <2>3. how \in Begins /\ Loose(how) = how
    BY HowsFollow
  <2> HIDE DEF t, n
  <2>4. Sound(Try(p, DispatchAction(p, c, n)), how)
    BY <2>2, <2>3, PerformanceWorks
  <2> QED
    BY <2>1, <2>4
<1>2. CASE c.kind = "undo_required"
  <2>1. Dispatch(s, c, own) = UndoRequired(s, own)
    BY <1>2 DEF Dispatch, Actions
  <2> QED
    BY <2>1, UndoRequiredWorks
<1> QED
  BY <1>1, <1>2

\* The unit that was waited for is taken before anything is done with it.
LEMMA ConsumeWorks ==
  ASSUME NoneIsApart, NEW s, NEW how \in Begins, Working([s EXCEPT !.d.unit = None], how),
         UnitFits(s.d.unit), s.d.unit # None, NEW u
  PROVE  Sound(Consume(s, u), Loose(how))
<1> DEFINE pending == s.d.unit
           r == [s EXCEPT !.d.unit = None]
           step == Continuation(u)
           t == RecordStep(r, step, 1)
           search == [search |-> pending.search, target |-> u]
           next == CASE pending.kind = "quoted" -> InsertCopies(t, u, pending.count)
                     [] pending.kind = "replace" -> ReplaceWithUnit(t, u, pending.count)
                     [] pending.kind = "search" ->
                          RunSearch([t EXCEPT !.d.lastSearch = search],
                                    pending.search, u, pending.count)
<1>1. pending.kind \in {"quoted", "replace", "search"}
  BY DEF UnitFits
<1>2. Working(r, how) /\ how \in Hows
  BY HowsFollow
<1>3. IsStep(step)
  BY DEF IsStep, Continuation
<1>4. Consume(s, u) = Try(t, next)
  BY DEF Consume
<1> HIDE DEF r, step, search, pending
<1>5. Sound(t, how)
  <2>1. Working(Recorded(r, step, 1), how)
    BY <1>2, <1>3, StepIsRecorded
  <2>2. Sound(Fail(r), Loose(how)) /\ Fail(r).outcome = "failed" /\ Loose(Loose(how)) = Loose(how)
    BY <1>2, ReadEnds, HowsFollow DEF Fail
  <2>3. Sound(Fail(r), how)
    BY <2>2 DEF Sound
  <2> QED
    BY <2>1, <2>3 DEF RecordStep, Working
<1> HIDE DEF t
<1>6. ASSUME t.outcome = "reading" PROVE Sound(next, Loose(how))
  <2>1. Working(t, how)
    BY <1>5, <1>6 DEF Working
  <2>2. Working([t EXCEPT !.d.lastSearch = search], how)
    BY <2>1, FieldsChange
  <2> QED
    BY <1>1, <2>1, <2>2, InsertCopiesWorks, ReplaceWithUnitWorks, RunSearchWorks
<1> HIDE DEF next
<1> QED
  BY <1>4, <1>5, <1>6, Tries

-----------------------------------------------------------------------------
(* Repeating a change.                                                      *)

\* The steps of a change, as often as it is repeated.
Piled(pile, steps) == pile \o steps
Piles(steps, n, g) ==
  g = [k \in 0 .. n |-> IF k = 0 THEN <<>> ELSE Piled(g[k - 1], steps)]

LEMMA PilesExist ==
  ASSUME NEW steps, NEW n \in Nat
  PROVE  \E g : Piles(steps, n, g)
<1> DEFINE Good(g, m) == /\ g = [k \in 0 .. n |-> g[k]] /\ g[0] = <<>>
                         /\ \A k \in 1 .. m : g[k] = Piled(g[k - 1], steps)
           T == {m \in 0 .. n : \E g : Good(g, m)}
<1>1. 0 \in T
  <2> DEFINE g == [k \in 0 .. n |-> <<>>]
  <2>1. Good(g, 0) /\ 0 \in 0 .. n
    OBVIOUS
  <2> HIDE DEF Good, g
  <2> QED
    BY <2>1
<1>2. \A m \in 1 .. n : m - 1 \in T => m \in T
  <2> SUFFICES ASSUME NEW m \in 1 .. n, m - 1 \in T PROVE \E g : Good(g, m)
    <3> HIDE DEF Good
    <3> QED
      OBVIOUS
  <2>1. PICK g : Good(g, m - 1)
    <3> HIDE DEF Good
    <3> QED
      OBVIOUS
  <2> DEFINE x == Piled(g[m - 1], steps)
             f == [k \in 0 .. n |-> IF k = m THEN x ELSE g[k]]
  <2> HIDE DEF x
  <2>2. f = [k \in 0 .. n |-> f[k]] /\ f[0] = <<>>
    BY <2>1
  <2>3. \A k \in 1 .. m : f[k] = Piled(f[k - 1], steps)
    <3> TAKE k \in 1 .. m
    <3>1. k - 1 \in 0 .. n /\ k \in 0 .. n /\ k - 1 # m /\ f[k - 1] = g[k - 1]
      OBVIOUS
    <3>2. CASE k = m
      BY <3>1, <3>2 DEF x
    <3>3. CASE k # m
      <4>1. k \in 1 .. m - 1 /\ f[k] = g[k]
        BY <3>1, <3>3
      <4> QED
        BY <2>1, <3>1, <4>1
    <3> QED
      BY <3>2, <3>3
  <2> QED
    BY <2>2, <2>3
<1> HIDE DEF Good
<1>3. n \in T
  <2>1. T \in SUBSET (0 .. n)
    OBVIOUS
  <2> HIDE DEF T
  <2>2. T = 0 .. n
    BY <1>1, <1>2, <2>1, Inducts
  <2> QED
    BY <2>2
<1>4. PICK g : Good(g, n)
  BY <1>3
<1>5. Piles(steps, n, g)
  <2>1. g = [k \in 0 .. n |-> g[k]]
    BY <1>4, Zenon DEF Good
  <2>2. \A k \in 0 .. n : g[k] = IF k = 0 THEN <<>> ELSE Piled(g[k - 1], steps)
    <3>1. g[0] = <<>> /\ \A k \in 1 .. n : g[k] = Piled(g[k - 1], steps)
      BY <1>4, Zenon DEF Good
    <3> QED
      BY <3>1
  <2> DEFINE h == [k \in 0 .. n |-> IF k = 0 THEN <<>> ELSE Piled(g[k - 1], steps)]
  <2>3. g = h
    BY <2>1, <2>2
  <2> QED
    BY <2>3 DEF Piles
<1> QED
  BY <1>5

LEMMA PilesListed ==
  ASSUME NEW steps, Listed(steps), NEW n \in Nat, NEW g, Piles(steps, n, g)
  PROVE  Listed(g[n])
<1> DEFINE T == {k \in 0 .. n : Listed(g[k])}
<1>1. 0 \in T
  BY StepsListed DEF Piles
<1>2. \A k \in 1 .. n : k - 1 \in T => k \in T
  <2> TAKE k \in 1 .. n
  <2> HAVE k - 1 \in T
  <2>1. g[k] = Piled(g[k - 1], steps) /\ Listed(g[k - 1]) /\ k \in 0 .. n
    BY DEF Piles
  <2>2. Listed(g[k])
    BY <2>1, StepsListed DEF Piled
  <2> QED
    BY <2>1, <2>2
<1> HIDE DEF T
<1>3. T = 0 .. n
  BY <1>1, <1>2, Inducts DEF T
<1> QED
  BY <1>3 DEF T

LEMMA ReplayWorks ==
  ASSUME NoneIsApart, NEW s, NEW how \in Begins, Working(s, how), s.d.replaying = FALSE,
         NEW own, own = None \/ own \in Nat
  PROVE  Sound(ReplayChange(s, own), Loose(how))
<1> DEFINE n == Repeat(s, own)
           t == TakeRepeat(s, own)
           change == s.d.lastChange
           steps == CHOOSE g : Piles(change.steps, n, g)
           replay == steps[n]
           u == [t EXCEPT !.e = BeginGroup(@), !.d.queue = @ \o replay, !.d.replaying = TRUE]
           other == [s EXCEPT !.d.argument = None]
<1>1. Working(t, how) /\ n \in Nat /\ t.d.replaying = FALSE /\ t.d.recording = s.d.recording
  BY RepeatIsTaken DEF TakeRepeat, Working, Sound, IsState, IsDriver
<1>2. Working(other, how)
  BY FieldsChange DEF CountFits
<1>3. change = None \/ Listed(replay)
  <2> SUFFICES ASSUME change # None PROVE Listed(replay)
    OBVIOUS
  <2>1. Listed(change.steps)
    BY EditorIsMade DEF IsDriver, ChangeFits
  <2> HIDE DEF change, n
  <2>2. Piles(change.steps, n, steps)
    BY <1>1, PilesExist
  <2> HIDE DEF steps
  <2> QED
    BY <1>1, <2>1, <2>2, PilesListed
<1>4. ReplayChange(s, own) \in {Cancel(other), Schedule(t), Fail(t)}
        \cup (IF change = None THEN {} ELSE {u})
  <2>1. ReplayChange(s, own) =
          IF s.d.operator # None THEN Cancel(other)
          ELSE IF change = None THEN Schedule(t)
          ELSE IF change.cost * n > WorkLimit THEN Fail(t) ELSE u
    BY Zenon DEF ReplayChange, Piles, Piled
  <2> HIDE DEF t, u, change, n, other
  <2> QED
    BY <2>1
<1> HIDE DEF replay, t, other, change
<1>5. ASSUME Listed(replay) PROVE Sound(u, Loose(how))
  <2> DEFINE e == BeginGroup(t.e)
             queue == t.d.queue \o replay
             d == [t.d EXCEPT !.queue = queue, !.replaying = TRUE]
  <2>0. Stand(t.e, t.d, how) /\ IsEditor(t.e) /\ GroupFits(t.e.group)
    BY <1>1, WorkingParts
  <2>1. /\ IsEditor(e) /\ GroupFits(e.group) /\ Depth(e) = Depth(t.e) + 1
        /\ e.keymap = t.e.keymap /\ (Grouped(t.e) \/ Untouched(t.e) => Grouped(e))
    BY <2>0, GroupOpens, GroupsHold
  <2> HIDE DEF e
  <2>2. Listed(queue)
    BY <1>1, <1>5, EditorIsMade, StepsListed DEF IsDriver
  <2> HIDE DEF queue
  <2>3. IsDriver(d) /\ d.recording = t.d.recording /\ d.replaying = TRUE
    BY <1>1, <2>2, EditorIsMade DEF IsDriver
  <2>4. u = [t EXCEPT !.e = e, !.d = d]
    BY <1>1, EditorIsMade DEF Working, Sound, IsState, IsDriver, e, queue
  <2> HIDE DEF d, u
  <2>5. u \in [e : {e}, d : {d}, outcome : {"reading"}]
    BY <1>1, <2>4 DEF Working, Sound, IsState
  <2>6. Owners(d) = Owners(t.d) + 1
    BY <1>1, <2>3 DEF Owners, Holds
  <2>7. Stand(e, d, Loose(how))
    <3>1. Depth(t.e) \in Nat /\ Owners(t.d) \in Nat
      BY <1>1, WorkingParts
    <3>2. how \in Phases => InPhase(e, d, "closed")
      BY <2>0, <2>1 DEF Stand, InPhase, Begins, Plain, Phases
    <3>3. /\ how \in Phases => Loose(how) = "closed"
          /\ how \notin Phases => Loose(how) = how
      BY DEF Loose
    <3> QED
      BY <2>0, <2>1, <2>6, <3>1, <3>2, <3>3 DEF Stand, Phases
  <2> QED
    BY <2>1, <2>3, <2>5, <2>7, Assembled DEF Working
<1> HIDE DEF u
<1>6. how \in Middles
  BY HowsFollow
<1> QED
  BY <1>1, <1>2, <1>3, <1>4, <1>5, <1>6, Finishes

\* A command that is replayed finds the group of the replay open.
LEMMA ReplayGoesOn ==
  ASSUME NEW s, Working(s, "closed"), s.d.replaying = TRUE
  PROVE  Working(s, "held")
<1>1. /\ GroupFits(s.e.group) /\ IsDriver(s.d) /\ Depth(s.e) = Owners(s.d)
      /\ InPhase(s.e, s.d, "closed")
  BY WorkingParts DEF Stand, Phases
<1>2. s.e.group # None
  BY <1>1, NoOwners
<1>3. InPhase(s.e, s.d, "held")
  BY <1>1, <1>2 DEF InPhase, Untouched, Filed
<1>4. Stand(s.e, s.d, "held")
  BY <1>1, <1>3 DEF Stand
<1> QED
  BY <1>4 DEF Working, Sound

\* The end of a replay closes its group.
LEMMA ReplayFinishes ==
  ASSUME NoneIsApart, NEW s, NEW how \in Plain \cup {"held"}, Working(s, how),
         s.d.replaying = TRUE, s.d.queue = <<>>
  PROVE  /\ how \in Plain => Working(Advance(s), how)
         /\ how = "held" /\ AtRest(Advance(s)) => Filed(Advance(s).e)
         /\ how = "held" /\ s.d.recording # None =>
              Stand(Advance(s).e, Advance(s).d, "closed")
<1> DEFINE e == FinishGroup(s.e)
           d == [s.d EXCEPT !.replaying = FALSE]
           u == [s EXCEPT !.e = e, !.d = d]
<1>0. /\ Stand(s.e, s.d, how) /\ IsDriver(s.d) /\ IsEditor(s.e) /\ GroupFits(s.e.group)
      /\ s \in [e : {s.e}, d : {s.d}, outcome : {"reading"}]
      /\ Depth(s.e) \in Nat
  BY WorkingParts
<1>1. Advance(s) = u
  BY DEF Advance
<1>2. /\ IsEditor(e) /\ GroupFits(e.group)
      /\ Depth(e) = IF Depth(s.e) = 0 THEN 0 ELSE Depth(s.e) - 1
      /\ Grouped(s.e) => IF Depth(s.e) = 1 THEN Filed(e) ELSE Grouped(e)
  BY <1>0, GroupCloses, GroupsHold
<1> HIDE DEF e
<1>3. IsDriver(d) /\ d.recording = s.d.recording /\ d.replaying = FALSE
  BY <1>0 DEF IsDriver
<1> HIDE DEF d
<1>4. u \in [e : {e}, d : {d}, outcome : {"reading"}] /\ u.e = e /\ u.d = d
  BY <1>0
<1> HIDE DEF u
<1>5. Owners(d) = Owners(s.d) - 1 /\ Owners(s.d) \in Nat \ {0}
  BY <1>3 DEF Owners, Holds
<1>6. ASSUME how \in Plain
      PROVE  Working(u, how)
  <2>1. how \notin Phases
    BY <1>6, HowsFollow
  <2>2. Stand(e, d, how)
    BY <1>0, <1>2, <1>5, <2>1 DEF Stand
  <2> QED
    BY <1>2, <1>3, <1>4, <2>2, Assembled
<1>7. ASSUME how = "held", s.d.recording # None
      PROVE  Stand(u.e, u.d, "closed")
  <2>1. /\ Grouped(s.e) /\ Depth(s.e) = Owners(s.d) /\ s.e.keymap # "emacs"
    BY <1>0, <1>7 DEF Stand, InPhase, Phases
  <2>2. Owners(s.d) = 2 /\ Owners(d) = 1
    BY <1>0, <1>3, <1>5, <1>7 DEF Owners, Holds
  <2>3. Depth(e) = 1 /\ Grouped(e)
    BY <1>2, <2>1, <2>2
  <2>4. e.keymap = s.e.keymap
    <3>1. s.e.group # None /\ s.e.group.depth > 1
      BY <2>1, <2>2 DEF Depth
    <3>2. e = [s.e EXCEPT !.group.depth = @ - 1]
      BY <3>1 DEF e, FinishGroup
    <3> QED
      BY <1>0, <3>2 DEF IsEditor
  <2> QED
    BY <1>4, <2>1, <2>2, <2>3, <2>4 DEF Stand, InPhase, Phases
<1>8. ASSUME how = "held", AtRest(u)
      PROVE  Filed(u.e)
  <2>1. Grouped(s.e) /\ Depth(s.e) = Owners(s.d)
    BY <1>0, <1>8 DEF Stand, InPhase, Phases
  <2>2. Owners(d) = 0
    BY <1>4, <1>8 DEF AtRest, Owners, Holds
  <2>3. Depth(s.e) = 1
    BY <1>5, <2>1, <2>2
  <2> QED
    BY <1>2, <1>4, <2>1, <2>3
<1> QED
  BY <1>1, <1>6, <1>7, <1>8

LEMMA AdvanceWorks ==
  ASSUME NoneIsApart, NEW s, NEW how \in Plain \cup {"held"}, Working(s, how),
         s.d.replaying = TRUE, s.d.queue # <<>> \/ how \in Plain
  PROVE  Sound(Advance(s), Loose(how))
<1> DEFINE step == Head(s.d.queue)
           queue == Tail(s.d.queue)
           t == [s EXCEPT !.d.queue = queue]
<1>0. how \in Begins /\ how \in Middles
  BY HowsFollow DEF Begins
<1>1. CASE s.d.queue = <<>>
  <2>1. Working(Advance(s), how) /\ Loose(how) = how
    BY <1>1, ReplayFinishes, HowsFollow
  <2> QED
    BY <2>1 DEF Working
<1>2. CASE s.d.queue # <<>>
  <2>1. IsStep(step) /\ Listed(queue)
    BY <1>2, EditorIsMade, StepsListed DEF IsDriver
  <2>2. Advance(s) = IF step.kind = "invocation" THEN Dispatch(t, step.command, step.count)
                     ELSE IF s.d.unit = None THEN Fail(t) ELSE Consume(t, step.unit)
    BY <1>2 DEF Advance
  <2> HIDE DEF queue, step
  <2>3. Working(t, how) /\ t.d.unit = s.d.unit
    <3> DEFINE d == [s.d EXCEPT !.queue = queue]
    <3>1. /\ IsDriver(d) /\ d.recording = s.d.recording /\ d.replaying = s.d.replaying
          /\ d.unit = s.d.unit /\ d.operator = s.d.operator
      BY <2>1, EditorIsMade DEF IsDriver
    <3>2. Working(t, how)
      BY <3>1, DriverChanges
    <3> QED
      BY <3>1, <3>2 DEF Working, Sound, IsState
  <2> HIDE DEF t
  <2>4. CASE step.kind = "invocation"
    <3>1. Given(t, how, step.command, step.count)
      BY <2>1, <2>3, <2>4 DEF Given, IsStep
    <3> QED
      BY <1>0, <2>2, <2>4, <3>1, DispatchWorks
  <2>5. CASE step.kind # "invocation"
    <3>1. Working([t EXCEPT !.d.unit = None], how) /\ UnitFits(t.d.unit)
      BY <2>3, FieldsChange, EditorIsMade DEF IsDriver
    <3>2. t.d.unit # None => Sound(Consume(t, step.unit), Loose(how))
      BY <1>0, <3>1, ConsumeWorks
    <3>3. Sound(Fail(t), Loose(how))
      BY <1>0, <2>3, Finishes
    <3> QED
      BY <2>2, <2>3, <2>5, <3>2, <3>3
  <2> QED
    BY <2>4, <2>5
<1> QED
  BY <1>1, <1>2

-----------------------------------------------------------------------------
(* The invariant: how the open groups stand to the recording and the replay *)
(* that opened them, by what is known of the command under way.             *)

How(marks) == IF "abandoned" \in marks THEN "none"
              ELSE IF "restored" \in marks THEN "below" ELSE "equal"

Balanced(s, how) ==
  /\ IsState(s)
  /\ how = "equal" => Depth(s.e) = Owners(s.d)
  /\ how = "below" => Depth(s.e) <= Owners(s.d)
  /\ s.outcome \notin {"reading", "abandoned"} =>
       s.e.group = None /\ s.d.recording = None /\ s.d.replaying = FALSE

GroupInv ==
  /\ Balanced(State, How(rest.marks))
  /\ rest \in [e : {rest.e}, search : {rest.search}, marks : {rest.marks}]

\* What the command under way has made of the line, if it makes one record: it
\* began in Vi, and nothing was undone and no line came from elsewhere.
Clean(marks) == marks \cap {"undone", "restored", "abandoned"} = {}
Watched == rest.e.keymap # "emacs" /\ ~LeftByReplay

RecordInv ==
  /\ AtRest(State) => rest.e = editor
  /\ Clean(rest.marks) /\ Watched => Stand(editor, driver, "closed")

Inv == GroupInv /\ RecordInv

LEMMA PlainSound ==
  ASSUME NEW s, NEW how \in Plain
  PROVE  Sound(s, how) <=> Balanced(s, how)
<1>1. Loose(how) = how /\ how \notin Phases
  BY HowsFollow
<1> QED
  BY <1>1 DEF Sound, Balanced, Stand

LEMMA HowsArePlain == \A marks : How(marks) \in Plain
  BY DEF How, Plain

LEMMA StateParts == State.e = editor /\ State.d = driver /\ State.outcome = outcome
  BY DEF State

LEMMA InvStarts == Init => Inv
<1> SUFFICES ASSUME Init PROVE Inv
  OBVIOUS
<1> DEFINE s == State
<1>1. s \in [e : {editor}, d : {Idle}, outcome : {"reading"}] /\ s.e = editor /\ s.d = Idle /\ s.outcome = "reading"
  BY DEF Init, State
<1>2. IsEditor(editor) /\ editor.group = None
  <2>1. editor \in Editors /\ editor = Opened(editor.line, editor.cursor, editor.keymap)
    BY OpeningAssumption DEF Init, LineOK
  <2>2. editor.keymap \in Keymaps
    BY <2>1 DEF Editors
  <2> QED
    BY <2>1, <2>2 DEF Opened, IsEditor
<1>3. IsDriver(Idle) /\ Owners(Idle) = 0 /\ Idle.operator = None
  <2>1. /\ Idle.argument = None /\ Idle.unit = None /\ Idle.recording = None
        /\ Idle.queue = <<>> /\ Idle.replaying = FALSE /\ Idle.lastChange = None
        /\ Idle.operator = None
    BY DEF Idle
  <2>2. Idle \in [argument : {Idle.argument}, unit : {Idle.unit}, operator : {Idle.operator},
                  recording : {Idle.recording}, lastChange : {Idle.lastChange},
                  queue : {Idle.queue}, replaying : BOOLEAN, lastSearch : {Idle.lastSearch}]
    BY DEF Idle
  <2> QED
    BY <2>1, <2>2, StepsListed DEF IsDriver, CountFits, UnitFits, RecordingFits, ChangeFits,
                                   Owners, Holds
<1>4. Depth(editor) = Owners(Idle)
  BY <1>2, <1>3 DEF Depth
<1> HIDE DEF s
<1>5. IsState(s)
  BY <1>1, <1>2, <1>3 DEF IsState, GroupFits
<1>6. Balanced(s, How(rest.marks))
  <2>1. Depth(editor) \in Nat
    BY <1>2 DEF Depth
  <2> QED
    BY <1>1, <1>4, <1>5, <2>1 DEF Balanced
<1>7. rest \in [e : {rest.e}, search : {rest.search}, marks : {rest.marks}] /\ rest.e = editor
  BY DEF Init
<1>8. rest.e.keymap # "emacs" => Stand(editor, Idle, "closed")
  BY <1>2, <1>3, <1>4, <1>7 DEF Stand, InPhase, Untouched
<1> QED
  BY <1>1, <1>6, <1>7, <1>8 DEF Inv, GroupInv, RecordInv, Watched, s, Init

\* What is no longer known of a command at its end does not matter at rest.
LEMMA SeenStands ==
  ASSUME Inv, NEW marks
  PROVE  /\ Sound(State, How(Seen(marks)))
         /\ Clean(Seen(marks)) /\ Watched => Sound(State, "closed")
<1> DEFINE s == State
<1>1. /\ Balanced(s, How(rest.marks)) /\ Depth(s.e) \in Nat /\ Owners(s.d) \in Nat
      /\ IsState(s)
  BY DepthFits DEF Inv, GroupInv, Balanced, IsState, Owners, Holds
<1>2. AtRest(s) /\ "abandoned" \notin rest.marks => Owners(s.d) = 0 /\ Depth(s.e) = 0
  <2> SUFFICES ASSUME AtRest(s), "abandoned" \notin rest.marks
               PROVE  Owners(s.d) = 0 /\ Depth(s.e) = 0
    OBVIOUS
  <2>1. Owners(s.d) = 0
    BY DEF AtRest, Owners, Holds
  <2> HIDE DEF s
  <2> QED
    BY <1>1, <2>1 DEF Balanced, How
<1>3. Balanced(s, How(Seen(marks)))
  <2>1. CASE AtRest(s) /\ "abandoned" \notin rest.marks
    BY <1>1, <1>2, <2>1 DEF Balanced
  <2>2. CASE AtRest(s) /\ "abandoned" \in rest.marks
    <3>1. How(Seen(marks)) = "none"
      BY <2>2 DEF How, Seen
    <3> QED
      BY <1>1, <3>1 DEF Balanced
  <2>3. CASE ~AtRest(s)
    <3>1. \/ How(Seen(marks)) = How(rest.marks) \/ How(Seen(marks)) = "none"
          \/ How(rest.marks) = "equal" /\ How(Seen(marks)) = "below"
      BY <2>3 DEF How, Seen
    <3> HIDE DEF s
    <3> QED
      BY <1>1, <3>1 DEF Balanced
  <2> QED
    BY <2>1, <2>2, <2>3
<1>4. ASSUME Clean(Seen(marks)), Watched
      PROVE  Sound(s, "closed")
  <2>1. CASE AtRest(s)
    <3>1. "abandoned" \notin rest.marks
      BY <1>4, <2>1 DEF Clean, Seen
    <3>2. Owners(s.d) = 0 /\ Depth(s.e) = 0 /\ s.e.group = None
      BY <1>1, <1>2, <2>1, <3>1, DepthFits DEF IsState
    <3>3. rest.e = s.e /\ s.e.keymap # "emacs"
      BY <1>4, <2>1, StateParts DEF Inv, RecordInv, Watched
    <3>4. Untouched(s.e) /\ s.d.operator = None
      BY <2>1, <3>2, <3>3 DEF Untouched, AtRest
    <3>5. Stand(s.e, s.d, "closed")
      BY <3>2, <3>3, <3>4 DEF Stand, InPhase
    <3> QED
      BY <1>1, <3>5 DEF Sound, Balanced, Loose
  <2>2. CASE ~AtRest(s)
    <3>1. Clean(rest.marks)
      BY <1>4, <2>2 DEF Clean, Seen
    <3>2. Stand(s.e, s.d, "closed")
      BY <1>4, <3>1, StateParts DEF Inv, RecordInv
    <3> QED
      BY <1>1, <3>2 DEF Sound, Balanced, Loose
  <2> QED
    BY <2>1, <2>2
<1> QED
  BY <1>3, <1>4, PlainSound, HowsArePlain

\* A command that waits for nothing and is not replayed may still edit once.
LEMMA MayEdit ==
  ASSUME Inv, Working(State, "closed"), driver.replaying # TRUE
  PROVE  /\ driver.unit = None => Working(State, "fresh")
         /\ Working([State EXCEPT !.d.unit = None], "fresh")
<1> DEFINE s == State
           d == [s.d EXCEPT !.unit = None]
           t == [s EXCEPT !.d = d]
<1>1. /\ IsEditor(s.e) /\ GroupFits(s.e.group) /\ IsDriver(s.d) /\ Depth(s.e) = Owners(s.d)
      /\ InPhase(s.e, s.d, "closed") /\ s \in [e : {s.e}, d : {s.d}, outcome : {"reading"}]
      /\ s.e = editor /\ s.d = driver
  BY WorkingParts, StateParts DEF Stand, Phases
<1> HIDE DEF s
<1>2. Grouped(s.e) \/ (Untouched(s.e) /\ s.d.operator = None)
  <2> SUFFICES ASSUME Filed(s.e), s.d.operator = None, s.d.unit = None
               PROVE  Untouched(s.e)
    BY <1>1 DEF InPhase
  <2>1. s.e.group = None
    BY DEF Filed
  <2>2. s.d.recording = None /\ s.d.replaying = FALSE
    BY <1>1, <2>1, NoOwners
  <2>3. AtRest(s)
    BY <2>2 DEF AtRest
  <2>4. rest.e = s.e
    BY <1>1, <2>3 DEF Inv, RecordInv, s
  <2> QED
    BY <2>1, <2>4 DEF Untouched
<1>3. s.e.keymap # "emacs"
  BY <1>1 DEF InPhase
<1>4. /\ IsDriver(d) /\ d.unit = None /\ d.operator = s.d.operator
      /\ d.recording = s.d.recording /\ d.replaying = s.d.replaying
  BY <1>1 DEF IsDriver, UnitFits
<1>5. t \in [e : {s.e}, d : {d}, outcome : {"reading"}]
  BY <1>1
<1> HIDE DEF d, t
<1>6. ASSUME s.d.unit = None
      PROVE  Working(s, "fresh")
  <2>1. Stand(s.e, s.d, "fresh")
    BY <1>1, <1>2, <1>3, <1>6 DEF Stand, InPhase
  <2> QED
    BY <1>1, <2>1, Assembled
<1>7. Working(t, "fresh")
  <2>1. Owners(d) = Owners(s.d)
    BY <1>4 DEF Owners
  <2>2. Stand(s.e, d, "fresh")
    BY <1>1, <1>2, <1>3, <1>4, <2>1 DEF Stand, InPhase
  <2> QED
    BY <1>1, <1>4, <1>5, <2>2, Assembled
<1> QED
  BY <1>1, <1>6, <1>7 DEF s, t, d

\* A command goes on to t.
Follows(t, seen) ==
  Clean(seen) /\ Watched =>
    /\ "replayed" \notin seen => Stand(t.e, t.d, "closed")
    /\ AtRest(t) => Filed(t.e)
RecordKept == CommandEnds /\ Watched => OneRecord

LEMMA Following ==
  ASSUME NEW t, NEW seen, Clean(seen) /\ Watched => Sound(t, "closed")
  PROVE  Follows(t, seen)
<1> SUFFICES ASSUME Clean(seen), Watched
             PROVE  Stand(t.e, t.d, "closed") /\ (AtRest(t) => Filed(t.e))
  BY DEF Follows
<1>1. Stand(t.e, t.d, "closed") /\ GroupFits(t.e.group)
  BY DEF Sound, IsState, Loose, Phases
<1>2. ASSUME AtRest(t) PROVE Filed(t.e)
  <2>1. Owners(t.d) = 0
    BY <1>2 DEF AtRest, Owners, Holds
  <2>2. Depth(t.e) = Owners(t.d) /\ InPhase(t.e, t.d, "closed")
    BY <1>1 DEF Stand, Phases
  <2>3. t.e.group = None
    BY <1>1, <2>1, <2>2, DepthFits
  <2>4. Untouched(t.e) => Filed(t.e)
    BY DEF Untouched, Filed, Snapshot
  <2> QED
    BY <2>2, <2>3, <2>4 DEF InPhase, Grouped
<1> QED
  BY <1>1, <1>2

LEMMA Becoming ==
  ASSUME Inv, NEW t, NEW seen, Sound(t, How(seen)), Follows(t, seen), Becomes(t, seen),
         (\E marks : seen = Seen(marks)) \/ "restored" \in seen
  PROVE  Inv' /\ RecordKept
<1>0. Balanced(t, How(seen)) /\ IsState(t)
  BY PlainSound, HowsArePlain DEF Balanced
<1>1. State' = t /\ editor' = t.e /\ driver' = t.d
  <2>1. t \in [e : {t.e}, d : {t.d}, outcome : {t.outcome}]
    BY <1>0 DEF IsState
  <2>2. editor' = t.e /\ driver' = t.d /\ outcome' = t.outcome
    BY DEF Becomes
  <2> QED
    BY <2>1, <2>2 DEF State
<1>2. /\ rest' \in [e : {rest'.e}, search : {rest'.search}, marks : {seen}] /\ rest'.marks = seen
      /\ rest'.e = IF AtRest(t) THEN t.e ELSE rest.e
  <2>1. CASE AtRest(t)
    BY <2>1 DEF Becomes
  <2>2. CASE ~AtRest(t)
    BY <2>2 DEF Becomes, Inv, GroupInv
  <2> QED
    BY <2>1, <2>2
<1>3. GroupInv'
  BY <1>0, <1>1, <1>2 DEF GroupInv
<1>4. AtRest(State)' <=> AtRest(t)
  BY <1>1 DEF AtRest
<1>5. RecordKept
  <2> SUFFICES ASSUME CommandEnds, Watched PROVE OneRecord
    BY DEF RecordKept
  <2>1. AtRest(t) /\ Clean(seen)
    BY <1>2, <1>4 DEF CommandEnds, Clean
  <2>2. Filed(t.e)
    BY <2>1 DEF Follows
  <2> QED
    BY <1>1, <2>2 DEF Filed, OneRecord
<1>6. RecordInv'
  <2>1. AtRest(t) => rest'.e = editor'
    BY <1>1, <1>2
  <2>2. ASSUME Clean(seen), rest'.e.keymap # "emacs", ~("replayed" \in seen /\ ~AtRest(t))
        PROVE  Stand(editor, driver, "closed")'
    <3>1. CASE AtRest(t)
      <4>1. How(seen) = "equal"
        BY <2>2 DEF How, Clean
      <4>2. Owners(t.d) = 0 /\ t.d.operator = None
        BY <3>1 DEF AtRest, Owners, Holds
      <4>3. Depth(t.e) = Owners(t.d) /\ t.e.group = None
        BY <1>0, <4>1, <4>2, DepthFits DEF Balanced, IsState
      <4>4. rest'.e = t.e
        BY <1>2, <3>1
      <4>5. Untouched(t.e)'
        <5> DEFINE e == t.e
        <5>1. editor' = e /\ rest'.e = e /\ e.group = None
          BY <1>1, <4>3, <4>4
        <5> QED
          BY <4>3, <4>4, <1>1 DEF Untouched, Snapshot
      <4> QED
        BY <1>1, <2>2, <4>2, <4>3, <4>4 DEF Stand, InPhase, Untouched, Snapshot, Depth, Owners, Holds
    <3>2. CASE ~AtRest(t)
      <4>1. rest'.e = rest.e /\ "replayed" \notin seen
        BY <1>2, <2>2, <3>2
      <4>2. Watched
        <5>1. ~LeftByReplay
          <6> SUFFICES ASSUME LeftByReplay PROVE FALSE
            OBVIOUS
          <6>1. PICK marks : seen = Seen(marks)
            BY <2>2 DEF Clean
          <6> QED
            BY <4>1, <6>1 DEF LeftByReplay, Seen
        <5> QED
          BY <2>2, <4>1, <5>1 DEF Watched
      <4>3. Stand(t.e, t.d, "closed")
        BY <2>2, <4>1, <4>2 DEF Follows
      <4> QED
        BY <1>1, <4>1, <4>3 DEF Stand, InPhase, Grouped, Untouched, Filed, Depth, Owners, Holds
    <3> QED
      BY <3>1, <3>2
  <2>3. /\ Clean(rest.marks)' <=> Clean(seen)
        /\ Watched' <=> rest'.e.keymap # "emacs" /\ ~("replayed" \in seen /\ ~AtRest(t))
    BY <1>2, <1>4 DEF Clean, Watched, LeftByReplay
  <2> QED
    BY <1>4, <2>1, <2>2, <2>3 DEF RecordInv
<1> QED
  BY <1>3, <1>5, <1>6 DEF Inv

LEMMA ReadyWorks ==
  ASSUME Inv, outcome = "reading", NEW marks
  PROVE  /\ Working(State, How(Seen(marks))) /\ How(Seen(marks)) \in Plain
         /\ Clean(Seen(marks)) /\ Watched => Working(State, "closed")
         /\ Clean(Seen(marks)) /\ Watched /\ driver.replaying # TRUE /\ driver.unit = None =>
              Working(State, "fresh")
  BY SeenStands, StateParts, HowsArePlain, MayEdit DEF Working

\* A handler that works for a command of its own and within one works in a step.
LEMMA HandlerKeeps ==
  ASSUME Inv, NEW t, NEW marks, Becomes(t, Seen(marks)),
         Sound(t, Loose(How(Seen(marks)))),
         Clean(Seen(marks)) /\ Watched => Sound(t, Loose("fresh"))
  PROVE  Inv' /\ RecordKept
<1>1. Sound(t, How(Seen(marks)))
  BY HowsFollow, HowsArePlain
<1>2. Loose("fresh") = "closed"
  BY DEF Loose, Phases
<1> QED
  BY <1>1, <1>2, Following, Becoming

LEMMA DigitKeeps ==
  ASSUME NoneIsApart, Inv, NEW n \in Digits, Digit(n)
  PROVE  Inv' /\ RecordKept
<1> DEFINE seen == Seen({})
<1>1. n \in Nat
  BY SequenceAssumption
<1>2. /\ Working(State, How(seen)) /\ How(seen) \in Begins
      /\ Clean(seen) /\ Watched => Working(State, "fresh") /\ "fresh" \in Begins
  BY ReadyWorks, HowsFollow DEF Digit, Ready, Begins
<1>3. Becomes(AppendDigit(State, n), seen)
  BY DEF Digit, Pressed
<1> QED
  BY <1>1, <1>2, <1>3, ArgumentsWork, HandlerKeeps

LEMMA PressKeeps ==
  ASSUME NoneIsApart, Inv, NEW c \in Bound[editor.keymap], Press(c)
  PROVE  Inv' /\ RecordKept
<1> DEFINE seen == Seen(Marks(c))
           h == How(seen)
           t == Dispatch(State, c, None)
<1>1. /\ Working(State, h) /\ h \in Plain /\ h \in Begins /\ Loose(h) = h
      /\ Clean(seen) /\ Watched => Working(State, "fresh") /\ "fresh" \in Begins
  BY ReadyWorks, HowsFollow DEF Press, Ready, Begins
<1>2. IsCommand(c)
  <2>1. editor.keymap \in Keymaps
    BY StateParts DEF Inv, GroupInv, Balanced, IsState, IsEditor
  <2> QED
    BY <2>1, CommandAssumption
<1>3. Becomes(t, seen)
  BY DEF Press, Pressed
<1>4. c.kind \in Unrepeated => ~Clean(seen)
  BY DEF Unrepeated, Clean, Seen, Marks
<1>5. Sound(t, h)
  <2>1. CASE c.kind \notin Unrepeated
    <3>1. Given(State, h, c, None)
      BY <1>1, <1>2, <2>1 DEF Given
    <3> HIDE DEF h, seen
    <3> QED
      BY <1>1, <3>1, DispatchWorks
  <2>2. CASE c.kind = "history_line"
    <3>1. h \in {"below", "none"}
      BY <2>2 DEF How, Seen, Marks
    <3>2. t = HistoryLine(State, c, None)
      BY <2>2 DEF Dispatch, Actions
    <3> HIDE DEF h, t
    <3> QED
      BY <1>1, <3>1, <3>2, HistoryLineWorks
  <2>3. CASE c.kind \in {"undo", "redo", "undo_required"}
    <3> HIDE DEF h
    <3> QED
      BY <1>1, <2>3, UndoingWorks
  <2> QED
    BY <2>1, <2>2, <2>3 DEF Unrepeated
<1>6. ASSUME Clean(seen), Watched PROVE Sound(t, Loose("fresh"))
  <2>1. Given(State, "fresh", c, None)
    BY <1>1, <1>2, <1>4, <1>6 DEF Given
  <2> QED
    BY <1>1, <1>6, <2>1, DispatchWorks
<1> HIDE DEF t
<1> QED
  BY <1>1, <1>3, <1>5, <1>6, HandlerKeeps

LEMMA RepeatKeeps ==
  ASSUME NoneIsApart, Inv, RepeatChange
  PROVE  Inv' /\ RecordKept
<1> DEFINE t == ReplayChange(State, None)
           seen == Seen(IF t.d.replaying /\ t.d.recording # None THEN {"unrecorded"} ELSE {})
<1>1. /\ Working(State, How(seen)) /\ How(seen) \in Begins
      /\ Clean(seen) /\ Watched => Working(State, "fresh") /\ "fresh" \in Begins
  BY ReadyWorks, HowsFollow DEF RepeatChange, Ready, Begins
<1>2. State.d.replaying = FALSE
  <2>1. State.d.replaying \in BOOLEAN /\ ~State.d.replaying
    BY <1>1, EditorIsMade, StateParts DEF IsDriver, RepeatChange, Ready
  <2> QED
    BY <2>1
<1>3. Becomes(t, seen)
  BY DEF RepeatChange, Pressed
<1>4. Sound(t, Loose(How(seen))) /\ (Clean(seen) /\ Watched => Sound(t, Loose("fresh")))
  BY <1>1, <1>2, ReplayWorks
<1> QED
  BY <1>3, <1>4, HandlerKeeps

LEMMA TypingKeeps ==
  ASSUME NoneIsApart, Inv, NEW u \in Typed, Type(u) \/ Continue(u)
  PROVE  Inv' /\ RecordKept
<1> DEFINE seen == Seen({})
           h == How(seen)
           insert == [kind |-> "insert", text |-> <<u>>]
<1>1. /\ Working(State, h) /\ h \in Begins /\ driver.replaying # TRUE /\ "fresh" \in Begins
      /\ Clean(seen) /\ Watched => Working(State, "closed")
  BY ReadyWorks, HowsFollow DEF Type, Continue, Ready, Begins
<1>2. CASE Type(u)
  <2> DEFINE t == Dispatch(State, insert, None)
  <2>1. Becomes(t, seen)
    BY <1>2 DEF Type, Pressed
  <2>2. IsCommand(insert) /\ insert.kind \notin Unrepeated
    BY DEF IsCommand, Actions, Arguments, Unrepeated
  <2>3. Clean(seen) /\ Watched => Working(State, "fresh")
    BY <1>1, <1>2, MayEdit DEF Type
  <2> HIDE DEF insert
  <2>4. Sound(t, Loose(h)) /\ (Clean(seen) /\ Watched => Sound(t, Loose("fresh")))
    BY <1>1, <2>2, <2>3, DispatchWorks DEF Given
  <2> HIDE DEF t
  <2> QED
    BY <2>1, <2>4, HandlerKeeps
<1>3. CASE Continue(u)
  <2> DEFINE t == Consume(State, u)
             taken == [State EXCEPT !.d.unit = None]
  <2>1. Becomes(t, seen)
    BY <1>3 DEF Continue, Pressed
  <2>2. UnitFits(State.d.unit) /\ State.d.unit # None
    BY <1>1, <1>3, EditorIsMade, StateParts DEF IsDriver, Continue
  <2>3. Working(taken, h) /\ (Clean(seen) /\ Watched => Working(taken, "fresh"))
    BY <1>1, FieldsChange, MayEdit
  <2> HIDE DEF h
  <2>4. Sound(t, Loose(h)) /\ (Clean(seen) /\ Watched => Sound(t, Loose("fresh")))
    BY <1>1, <2>2, <2>3, ConsumeWorks
  <2> HIDE DEF t
  <2> QED
    BY <2>1, <2>4, HandlerKeeps DEF h
<1> QED
  BY <1>2, <1>3

LEMMA UnboundKeeps ==
  ASSUME NoneIsApart, Inv, Unbound
  PROVE  Inv' /\ RecordKept
<1> DEFINE seen == Seen({})
           h == How(seen)
           t == [State EXCEPT !.d.argument = None]
<1>1. /\ Working(State, h) /\ h \in Begins
      /\ Clean(seen) /\ Watched => Working(State, "fresh") /\ "fresh" \in Begins
  BY ReadyWorks, HowsFollow DEF Unbound, Ready, Begins
<1>2. ASSUME NEW how \in Begins, Working(State, how)
      PROVE  Sound(t, Loose(how))
  <2>1. Working(t, how) /\ how \in Hows
    BY <1>2, FieldsChange, HowsFollow DEF CountFits
  <2> QED
    BY <2>1, SoundLater DEF Working
<1>3. Becomes(t, seen)
  BY DEF Unbound, Pressed
<1> HIDE DEF t
<1> QED
  BY <1>1, <1>2, <1>3, HandlerKeeps

LEMMA ReplayKeeps ==
  ASSUME NoneIsApart, Inv, ReplayStep
  PROVE  Inv' /\ RecordKept
<1> DEFINE marks == IF driver.queue = <<>> /\ driver.recording = None THEN {"replayed"} ELSE {}
           seen == Seen(marks)
           h == How(seen)
           t == Advance(State)
<1>1. /\ Working(State, h) /\ h \in Plain /\ h \in Plain \cup {"held"} /\ Loose(h) = h
      /\ Clean(seen) /\ Watched => Working(State, "closed")
  BY ReadyWorks, HowsFollow DEF ReplayStep, Replaying
<1>2. State.d.replaying = TRUE
  <2>1. State.d.replaying \in BOOLEAN /\ State.d.replaying
    BY <1>1, EditorIsMade, StateParts DEF IsDriver, ReplayStep, Replaying
  <2> QED
    BY <2>1
<1>3. Becomes(t, seen)
  BY DEF ReplayStep
<1>4. Clean(seen) /\ Watched => Working(State, "held")
  BY <1>1, <1>2, ReplayGoesOn
<1>5. Sound(t, h)
  <2> HIDE DEF h
  <2> QED
    BY <1>1, <1>2, AdvanceWorks
<1>6. CASE driver.queue # <<>>
  <2>1. Clean(seen) /\ Watched => Sound(t, "closed")
    <3>1. Loose("held") = "closed"
      BY DEF Loose, Phases
    <3> QED
      BY <1>2, <1>4, <1>6, <3>1, AdvanceWorks, StateParts
  <2> HIDE DEF t
  <2> QED
    BY <1>3, <1>5, <2>1, Following, Becoming
<1>7. CASE driver.queue = <<>>
  <2>1. Clean(seen) /\ Watched => "replayed" \in seen \/ Stand(t.e, t.d, "closed")
    <3>1. CASE driver.recording = None
      BY <1>7, <3>1 DEF Seen
    <3>2. CASE driver.recording # None
      BY <1>2, <1>4, <1>7, <3>2, ReplayFinishes, StateParts
    <3> QED
      BY <3>1, <3>2
  <2>2. Clean(seen) /\ Watched /\ AtRest(t) => Filed(t.e)
    BY <1>2, <1>4, <1>7, ReplayFinishes, StateParts
  <2>3. Follows(t, seen)
    BY <2>1, <2>2 DEF Follows
  <2> HIDE DEF t
  <2> QED
    BY <1>3, <1>5, <2>3, Becoming
<1> QED
  BY <1>6, <1>7

LEMMA StopKeeps ==
  ASSUME NoneIsApart, Inv, NEW result, result # "reading", Stop(result)
  PROVE  Inv' /\ RecordKept
<1> DEFINE seen == Seen({})
           h == How(seen)
           t == End(State, result)
<1>1. /\ Working(State, h) /\ h \in Hows /\ "closed" \in Hows /\ Loose("fresh") = Loose("closed")
      /\ Clean(seen) /\ Watched => Working(State, "closed")
  BY ReadyWorks, HowsFollow DEF Stop, Hows, Loose, Phases
<1>2. Becomes(t, seen)
  BY DEF Stop
<1>3. Sound(t, Loose(h)) /\ (Clean(seen) /\ Watched => Sound(t, Loose("fresh")))
  BY <1>1, ReadEnds
<1> HIDE DEF t
<1> QED
  BY <1>2, <1>3, HandlerKeeps

LEMMA BeginKeeps ==
  ASSUME NoneIsApart, Inv, NEW reset \in BOOLEAN, Begin(reset)
  PROVE  Inv' /\ RecordKept
<1> DEFINE e == IF reset THEN ResetLine(editor) ELSE editor
           d == ClearTransient(driver)
           leaves == outcome = "abandoned" /\ ~reset
           seen == {"restored"} \cup (IF leaves THEN {"abandoned"} ELSE {})
           t == Reading(e, d)
<1>1. Becomes(t, seen)
  BY DEF Begin
<1>2. IsState(State) /\ State.e = editor /\ State.d = driver /\ State.outcome = outcome
  BY StateParts DEF Inv, GroupInv, Balanced
<1>3. IsDriver(d) /\ Owners(d) = 0
  <2>1. ChangeFits(driver.lastChange)
    BY <1>2 DEF IsState, IsDriver
  <2>2. /\ d.argument = None /\ d.unit = None /\ d.recording = None /\ d.queue = <<>>
        /\ d.replaying = FALSE /\ d.lastChange = driver.lastChange
    BY DEF ClearTransient, Idle
  <2>3. d \in [argument : {d.argument}, unit : {d.unit}, operator : {d.operator},
               recording : {d.recording}, lastChange : {d.lastChange}, queue : {d.queue},
               replaying : BOOLEAN, lastSearch : {d.lastSearch}]
    BY DEF ClearTransient, Idle
  <2> HIDE DEF d
  <2> QED
    BY <2>1, <2>2, <2>3, StepsListed DEF IsDriver, CountFits, UnitFits, RecordingFits, Owners, Holds
<1>4. IsEditor(e) /\ GroupFits(e.group) /\ (leaves \/ e.group = None)
  <2>1. CASE reset
    <3>1. IsEditor(ResetLine(editor)) /\ ResetLine(editor).group = None
      BY DEF ResetLine, Opened, IsEditor, Keymaps
    <3> QED
      BY <2>1, <3>1 DEF GroupFits
  <2>2. CASE ~reset
    <3>1. outcome \notin {"reading", "abandoned"} => editor.group = None
      BY <1>2 DEF Inv, GroupInv, Balanced
    <3> QED
      BY <1>2, <2>2, <3>1 DEF IsState, Begin
  <2> QED
    BY <2>1, <2>2
<1> HIDE DEF d, e
<1>5. How(seen) = "none" \/ (How(seen) = "below" /\ Depth(e) = 0)
  BY <1>4 DEF How, Depth
<1>6. t.e = e /\ t.d = d /\ t.outcome = "reading" /\ t \in [e : {e}, d : {d}, outcome : {"reading"}]
  BY DEF Reading
<1>7. "restored" \in seen
  OBVIOUS
<1> HIDE DEF t, seen
<1>8. Balanced(t, How(seen))
  BY <1>3, <1>4, <1>5, <1>6 DEF Balanced, IsState
<1>9. Sound(t, How(seen))
  BY <1>8, PlainSound, HowsArePlain
<1>10. Follows(t, seen)
  BY <1>7 DEF Follows, Clean
<1> QED
  BY <1>1, <1>7, <1>9, <1>10, Becoming

LEMMA InvStays ==
  ASSUME NoneIsApart, Inv, [Next]_vars
  PROVE  Inv' /\ (Next => RecordKept)
<1>1. CASE Next
  <2>1. \A result \in {"end_of_input", "interrupted", "host_failed"} : result # "reading"
    OBVIOUS
  <2> QED
    BY <1>1, <2>1, DigitKeeps, PressKeeps, RepeatKeeps, TypingKeeps, UnboundKeeps, ReplayKeeps,
       StopKeeps, BeginKeeps DEF Next
<1>2. CASE UNCHANGED vars /\ ~Next
  <2>1. GroupInv'
    BY <1>2 DEF vars, Inv, GroupInv, Balanced, State, Depth, Owners, Holds
  <2>2. RecordInv'
    BY <1>2 DEF vars, Inv, RecordInv, State, AtRest, Watched, LeftByReplay, Clean, Stand, InPhase,
                Grouped, Untouched, Filed, Depth, Owners, Holds
  <2> QED
    BY <1>2, <2>1, <2>2 DEF Inv
<1> QED
  BY <1>1, <1>2

LEMMA GroupsFollow == Inv => GroupsAreOwned
<1> SUFFICES ASSUME Inv, rest.marks \cap {"restored", "abandoned"} = {}
             PROVE  Depth(editor) = Owners(driver)
  BY DEF GroupsAreOwned, Depth, Owners, Holds
<1>1. How(rest.marks) = "equal"
  BY DEF How
<1> QED
  BY <1>1, StateParts DEF Inv, GroupInv, Balanced

\* In every session, whatever keys are bound and however reads end: an edit
\* group is open for the change that is recorded and for the change that is
\* replayed, and for nothing else.
THEOREM GroupsHaveOwners ==
  ASSUME NoneIsApart
  PROVE  Spec => []GroupsAreOwned
<1>1. Init => Inv
  BY InvStarts
<1>2. Inv /\ [Next]_vars => Inv'
  BY InvStays
<1>3. Inv => GroupsAreOwned
  BY GroupsFollow
<1> QED
  BY <1>1, <1>2, <1>3, PTL DEF Spec

\* An edit group does not outlive the read it was opened in, if the read ends
\* through complete or fail and is not abandoned: nothing is left open or
\* being recorded for the next read to find.
EndedReadsAreClean ==
  outcome \notin {"reading", "abandoned"} => editor.group = None /\ driver.recording = None

THEOREM EndedReadsCloseGroups ==
  ASSUME NoneIsApart
  PROVE  Spec => []EndedReadsAreClean
<1>1. Init => Inv
  BY InvStarts
<1>2. Inv /\ [Next]_vars => Inv'
  BY InvStays
<1>3. Inv => EndedReadsAreClean
  BY StateParts DEF Inv, GroupInv, Balanced, EndedReadsAreClean
<1> QED
  BY <1>1, <1>2, <1>3, PTL DEF Spec

\* In every session that a Vi command makes its way through, whatever keys are
\* bound, whatever is waited for, recorded and replayed, and however the read
\* ends: the command is one undo record of the state it began in, or none if the
\* line is as before.
THEOREM CommandsAreRecords ==
  ASSUME NoneIsApart
  PROVE  Spec => OneRecordPerCommand
<1>1. Init => Inv
  BY InvStarts
<1>2. Inv /\ [Next]_vars => Inv'
  BY InvStays
<1>3. Inv /\ [Next]_vars =>
        [CommandEnds /\ ~LeftByReplay /\ rest.e.keymap # "emacs" => OneRecord]_vars
  BY InvStays DEF RecordKept, Watched
<1> QED
  BY <1>1, <1>2, <1>3, PTL DEF Spec, OneRecordPerCommand
=============================================================================
