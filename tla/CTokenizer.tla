----------------------------- MODULE CTokenizer -----------------------------
(***************************************************************************)
(* crates/nshedit-abi/src/adapter/tokenizer.rs: the handle behind the C    *)
(* tokenizers.  Parsing is the editor's tokenizer; the handle keeps the    *)
(* input until a line is complete, and makes the separators that are no    *)
(* Unicode scalars, which the editor's tokenizer cannot have, into spaces. *)
(***************************************************************************)
EXTENDS Tokens

NoReport == 0

\* TokenizerHandle::new
NewHandle(requested) ==
  LET extra == requested \cap Opaque
      scalars == Separators(requested)
  IN [separators |-> IF extra = {} THEN scalars ELSE scalars \cup {"sp"},
      extra |-> extra,
      escapeSpace |-> extra # {} /\ "sp" \notin scalars,
      pending |-> <<>>, reported |-> NoReport, words |-> <<>>]

BoundaryState(state, u) ==
  CASE state = "EscapePlain" -> "Plain"
    [] state = "EscapeDouble" -> "Double"
    [] state = "Single" /\ u = "sq" -> "Plain"
    [] state = "Double" /\ u = "dq" -> "Plain"
    [] state = "Double" /\ u = "bs" -> "EscapeDouble"
    [] state = "Plain" /\ u = "sq" -> "Single"
    [] state = "Plain" /\ u = "dq" -> "Double"
    [] state = "Plain" /\ u = "bs" -> "EscapePlain"
    [] OTHER -> state

\* Mutant: the spaces of an escaped or quoted part are made separators too.
AdaptedAnywhere(h, state, u) ==
  IF u \in h.extra THEN <<"sp">>
  ELSE IF state = "Plain" /\ u = "sp" /\ h.escapeSpace THEN <<"bs", "sp">>
  ELSE <<u>>

\* What a unit becomes outside quotes.
Adapted(h, state, u) ==
  IF state # "Plain" THEN <<u>>
  ELSE IF u \in h.extra THEN <<"sp">>
  ELSE IF u = "sp" /\ h.escapeSpace THEN <<"bs", "sp">>
  ELSE <<u>>

\* adapt_pending: up to the first newline outside quotes.  NoCursor is past the
\* end of any input.
NoCursor == 99

AdaptPending(h, cursor) ==
  LET step(a, i) ==
        LET u == h.pending[i]
        IN IF a.newline # 0 THEN a
           ELSE [text |-> a.text \o Adapted(h, a.state, u),
                 state |-> BoundaryState(a.state, u),
                 cursor |-> IF i = cursor + 1 THEN Len(a.text) ELSE a.cursor,
                 newline |-> IF a.state = "Plain" /\ u = "nl" THEN Len(a.text) + 1 ELSE 0,
                 escapedEnd |-> a.state = "EscapePlain" /\ u = "nl"]
      a == FoldLeft(step, [text |-> <<>>, state |-> "Plain", cursor |-> NoCursor,
                           newline |-> 0, escapedEnd |-> FALSE],
                    [i \in DOMAIN h.pending |-> i])
  IN IF a.newline = 0 /\ cursor = Len(h.pending) THEN [a EXCEPT !.cursor = Len(a.text)] ELSE a

Outcome(h, result) == [handle |-> h, result |-> result, word |-> 0, offset |-> 0]

\* publish: behind the words of the lines since the last reset.
Publish(h, tokens, word, offset) ==
  [handle |-> [h EXCEPT !.words = @ \o [k \in DOMAIN tokens |-> tokens[k].value],
                        !.pending = <<>>, !.reported = NoReport],
   result |-> "Published", word |-> Len(h.words) + word, offset |-> offset]

\* Up to the newline, or to the cursor, or to the end.
PublishParsed(h, a, p) ==
  LET inLastWord == p.tokens # <<>> /\ Last(p.tokens).to = a.newline - 1
  IN IF a.newline = 0 \/ a.cursor # NoCursor
     THEN Publish(h, p.tokens, p.cursor[1].token, p.cursor[1].offset)
     ELSE IF inLastWord THEN Publish(h, p.tokens, Len(p.tokens) - 1, Len(Last(p.tokens).value))
     ELSE Publish(h, p.tokens, Len(p.tokens), 0)

TokenizeText(h, text, cursor) ==
  Tokenize(h.separators, text, IF cursor = NoCursor THEN Len(text) ELSE cursor)

\* What a first reading of the adapted text says is still needed.
AnswerReading(h, a, first) ==
  LET need == Continuation(first)
  IN CASE need \in {"Single", "Double"} -> Outcome(h, need)
       [] need = "EscapeDouble" ->
            Outcome([h EXCEPT !.pending = Append(Front(@), "nul")], "Double")
       [] need \in {"Plain", "EscapePlain"} /\ a.escapedEnd /\ h.reported # Len(h.pending) ->
            Outcome([h EXCEPT !.reported = Len(h.pending)], "EscapedNewline")
       [] OTHER ->
            PublishParsed(h, a, IF need = "EscapePlain"
                                THEN TokenizeText(h, Append(a.text, "nul"), a.cursor) ELSE first)

TokenizeAdapted(h, a) == AnswerReading(h, a, TokenizeText(h, a.text, a.cursor))
TokenizePending(h, at) == TokenizeAdapted(h, AdaptPending(h, at))

\* tokenize: `cursor` counts the units of this call's input before the cursor.
TokenizeLine(handle, input, cursor) ==
  TokenizePending([handle EXCEPT !.pending = @ \o input],
                  IF cursor = NoCursor THEN NoCursor ELSE Len(handle.pending) + cursor)

-----------------------------------------------------------------------------
(***************************************************************************)
(* The tokenizer C asks for is one whose separators may be any units at    *)
(* all, fed the whole line at once.                                        *)
(***************************************************************************)

\* A handle fed the pieces one after the other, each with the cursor at its end.
Fed(requested, pieces) ==
  FoldLeft(LAMBDA o, piece : TokenizeLine(o.handle, piece, Len(piece)),
           Outcome(NewHandle(requested), "Nothing"), pieces)

\* However a line is cut into calls and whichever units separate words, what the
\* last call publishes is what one reading of the whole line with those separators
\* gives: the words, and the cursor at its end.  A backslash at the end of a call
\* is taken together with the end of its string, so no cut is behind one.
PublishesTheLine(requested, pieces) ==
  LET oneLine(whole) ==
        /\ pieces # <<>> /\ ~whole.ended
        /\ \A k \in DOMAIN pieces : pieces[k] # <<>> => Last(pieces[k]) # "bs"
        /\ \A k \in 1..(Len(pieces) - 1) :
             Fed(requested, SubSeq(pieces, 1, k)).result # "Published"
      agrees(whole, fed) ==
        /\ (fed.result = "Published") => fed.handle.words = Values(whole)
                                         /\ fed.word = whole.cursor[1].token
                                         /\ fed.offset = whole.cursor[1].offset
        /\ fed.result \in {"Single", "Double"} => fed.result = Continuation(whole)
      read(whole) == oneLine(whole) => agrees(whole, Fed(requested, pieces))
      line == FlattenSeq(pieces)
  IN read(Tokenize(requested \ Reserved, line, Len(line)))

=============================================================================
