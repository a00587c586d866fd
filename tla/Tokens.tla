------------------------------- MODULE Tokens -------------------------------
(***************************************************************************)
(* crates/nshedit/src/editor/token.rs: a line of units into words, the     *)
(* source each word came from, and where the cursor is among them.  A unit *)
(* is one of the syntax units below or any other value; "op" stands for a  *)
(* unit that is no Unicode scalar.                                         *)
(***************************************************************************)
EXTENDS Naturals, Sequences, SequencesExt

\* ' " \ newline: never separators, whatever the caller asked for.
Reserved == {"sq", "dq", "bs", "nl"}
Opaque == {"op"}

\* Tokenizer::new
Separators(requested) == requested \ (Reserved \cup Opaque)

\* After a backslash between double quotes these lose it, and newline goes too.
EscapedInDouble == {"dollar", "dq", "bs"}

Quote(state) ==
  CASE state \in {"Plain", "EscapePlain"} -> "Unquoted"
    [] state = "Single" -> "Single"
    [] OTHER -> "Double"

Fresh == [state |-> "Plain", tokens |-> <<>>, word |-> <<>>, start |-> 0,
          present |-> FALSE, cursor |-> <<>>, ended |-> FALSE]

\* capture: the cursor is captured once; <<>> until then.
Capture(p) ==
  IF p.cursor # <<>> THEN p
  ELSE [p EXCEPT !.cursor = <<[token |-> Len(p.tokens), offset |-> Len(p.word),
                               quote |-> Quote(p.state)]>>]

Touch(p, i) == [p EXCEPT !.present = TRUE, !.start = IF @ = 0 THEN i ELSE @]
Emit(p, i, units) == [Touch(p, i) EXCEPT !.word = @ \o units]

\* finish: the word so far, if there is one, came from start up to before i.
FinishWord(p, i) ==
  IF ~p.present THEN p
  ELSE [p EXCEPT !.tokens = Append(@, [value |-> p.word, from |-> p.start, to |-> i - 1]),
                 !.word = <<>>, !.start = 0, !.present = FALSE]

To(p, state) == [p EXCEPT !.state = state]

Consume(separators, p, i, u) ==
  CASE p.state = "EscapePlain" ->
         LET plain == To(p, "Plain") IN IF u = "nl" THEN plain ELSE Emit(plain, i, <<u>>)
    [] p.state = "EscapeDouble" ->
         LET double == To(p, "Double")
         IN IF u \in EscapedInDouble THEN Emit(double, i, <<u>>)
            ELSE IF u = "nl" THEN double
            ELSE Emit(double, i, <<"bs", u>>)
    [] p.state = "Plain" /\ u = "sq" -> To(Touch(p, i), "Single")
    [] p.state = "Plain" /\ u = "dq" -> To(Touch(p, i), "Double")
    [] p.state = "Plain" /\ u = "bs" -> To(Touch(p, i), "EscapePlain")
    [] p.state = "Plain" /\ u = "nl" -> [FinishWord(p, i) EXCEPT !.ended = TRUE]
    [] p.state = "Plain" /\ u \in separators -> FinishWord(p, i)
    [] p.state = "Single" /\ u = "sq" -> To(Touch(p, i), "Plain")
    [] p.state = "Double" /\ u = "dq" -> To(Touch(p, i), "Plain")
    [] p.state = "Double" /\ u = "bs" -> To(Touch(p, i), "EscapeDouble")
    [] OTHER -> Emit(p, i, <<u>>)

\* Tokenizer::tokenize.  The cursor is the number of units before it.
Tokenize(separators, s, cursor) ==
  LET step(p, i) ==
        IF p.ended THEN p
        ELSE Consume(separators, IF i = cursor + 1 THEN Capture(p) ELSE p, i, s[i])
      read == Capture(FoldLeft(step, Fresh, [i \in DOMAIN s |-> i]))
  IN IF read.ended THEN read ELSE FinishWord(read, Len(s) + 1)

\* What the line still needs when it is over: a state other than Plain.
Continuation(p) == IF p.ended THEN "Plain" ELSE p.state

Values(p) == [k \in DOMAIN p.tokens |-> p.tokens[k].value]

-----------------------------------------------------------------------------

\* The source of every word, read on its own, is that word and nothing else, and
\* no separator or newline outside quotes is in it: sources do not overlap, and
\* between two of them there is nothing that belongs to a word.
SourcesReadBack(separators, s) ==
  LET tokens == Tokenize(separators, s, 0).tokens
      endOf(k) == IF k = 0 THEN 0 ELSE tokens[k].to
  IN \A k \in DOMAIN tokens :
       LET t == tokens[k]
           alone == Tokenize(separators, SubSeq(s, t.from, t.to), 0)
       IN /\ t.from > endOf(k - 1)
          /\ Values(alone) = <<t.value>>
          /\ \A i \in (endOf(k - 1) + 1)..(t.from - 1) : s[i] \in separators

=============================================================================
