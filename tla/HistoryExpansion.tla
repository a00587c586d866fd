-------------------------- MODULE HistoryExpansion --------------------------
(***************************************************************************)
(* history_expand of crates/nshedit-abi/src/readline.rs: a line with       *)
(* references to the history becomes the line they stand for.  A line is a *)
(* sequence of characters; reading past its end gives NUL.  The history is *)
(* its lines, newest first, with the cursor on the newest one; "runtime"   *)
(* is what one reference leaves behind for later ones.                     *)
(***************************************************************************)
EXTENDS Naturals, Sequences, SequencesExt, FiniteSetsExt

CONSTANT Past                       \* the history

NUL == "nul"
Char(s, i) == IF i \in DOMAIN s THEN s[i] ELSE NUL

DigitChars == <<"0", "1", "2", "3">>
Digits == ToSet(DigitChars)
Digit(c) == CHOOSE d \in 0..(Len(DigitChars) - 1) : DigitChars[d + 1] = c

\* Up to where a run of wanted characters goes on from i.
Behind(s, i, Wanted(_)) == Min({j \in i..(Len(s) + 1) : j = Len(s) + 1 \/ ~Wanted(s[j])})
BehindDigits(s, i) == Behind(s, i, LAMBDA c : c \in Digits)
NumberIn(s, i) == FoldLeft(LAMBDA n, c : 10 * n + Digit(c), 0, SubSeq(s, i, BehindDigits(s, i) - 1))

NoText == <<"none">>                \* a null pointer
NewRuntime == [pattern |-> NoText, match |-> NoText, from |-> NoText, to |-> NoText]

-----------------------------------------------------------------------------
(* Words: history_tokenize and history_arg_extract *)

Metacharacters == {";", "$"}
Openers == {"'", "quote"}

\* A word that ends makes room for the next as soon as another character comes.
TokenStep(st, c) ==
  LET begun == [st EXCEPT !.mode = "in", !.word = Append(@, c)]
  IN CASE st.escaped -> [begun EXCEPT !.escaped = FALSE]
       [] ~st.escaped /\ st.mode # "in" /\ c = " " -> [st EXCEPT !.mode = "skip"]
       [] ~st.escaped /\ ~(st.mode # "in" /\ c = " ") ->
            CASE c = "\\" -> [begun EXCEPT !.escaped = TRUE]
              [] c # "\\" /\ c = st.quote -> [begun EXCEPT !.quote = NUL]
              [] c # "\\" /\ c # st.quote /\ st.quote = NUL /\ (c = " " \/ c \in Metacharacters) ->
                   [st EXCEPT !.words = Append(@, st.word), !.word = <<>>, !.mode = "ready"]
              [] c # "\\" /\ c # st.quote /\ st.quote = NUL /\ c \in Openers -> [begun EXCEPT !.quote = c]
              [] OTHER -> begun

HistoryTokenize(s) ==
  LET st == FoldLeft(TokenStep, [words |-> <<>>, word |-> <<>>, mode |-> "ready",
                                 quote |-> NUL, escaped |-> FALSE], s)
  IN IF st.mode = "ready" THEN st.words ELSE Append(st.words, st.word)

\* The words from `first` to `last`, joined with blanks: <<>> when there are none such.
\* LAST counts from the end, as negative numbers do in the code.
LAST == 99
BEFORELAST == 98

WordsBetween(first, last, words) ==
  LET end == CASE last = LAST -> Len(words) - 1
               [] last = BEFORELAST -> Len(words) - 2
               [] OTHER -> last
      start == IF first = LAST THEN end ELSE first
      chosen == SubSeq(words, start + 1, end + 1)
  IN IF words = <<>> \/ end < 0 \/ start < 0 \/ start >= Len(words) \/ end >= Len(words) \/ start > end
     THEN <<>>
     ELSE <<FoldLeft(LAMBDA out, w : out \o <<" ">> \o w, Head(chosen), Tail(chosen))>>

HistoryArgExtract(first, last, s) == WordsBetween(first, last, HistoryTokenize(s))

-----------------------------------------------------------------------------
(* Events: get_history_event.  What is found is <<line>>, and <<>> when nothing is. *)

Found(runtime, line, next) == [line |-> line, next |-> next, runtime |-> runtime]
NotFound(runtime) == Found(runtime, <<>>, 0)

StartsWith(line, text) == Len(text) <= Len(line) /\ SubSeq(line, 1, Len(text)) = text
HasInside(line, text) == \E i \in 0..Len(line) : StartsWith(SubSeq(line, i + 1, Len(line)), text)

\* The newest line for which Wanted holds.
Newest(Wanted(_)) ==
  LET hits == {k \in DOMAIN Past : Wanted(Past[k])} IN IF hits = {} THEN <<>> ELSE <<Past[Min(hits)]>>

\* history_get: the oldest line has the number 1.
Numbered(n) == IF n \in DOMAIN Past THEN <<Past[Len(Past) + 1 - n]>> ELSE <<>>

SearchedEvent(runtime, s, i, quote) ==
  LET inside == Char(s, i) = "?"
      begin == IF inside THEN i + 1 ELSE i
      behind == Behind(s, begin, LAMBDA c : IF inside THEN c # "?"
                                            ELSE c \notin {":", " ", quote})
      typed == SubSeq(s, begin, behind - 1)
      again == inside /\ typed = <<>> /\ runtime.pattern # NoText
      pattern == IF again THEN runtime.pattern ELSE typed
      hit == Newest(LAMBDA line : IF inside THEN HasInside(line, pattern)
                                  ELSE StartsWith(line, pattern))
      searched == IF inside /\ ~again THEN [runtime EXCEPT !.pattern = pattern] ELSE runtime
      matched == IF inside /\ typed # <<>> THEN [searched EXCEPT !.match = pattern] ELSE searched
  IN IF typed = <<>> /\ ~again THEN NotFound(runtime)
     ELSE IF hit = <<>> THEN NotFound(searched)
     ELSE Found(matched, hit, IF inside /\ Char(s, behind) = "?" THEN behind + 1 ELSE behind)

GetHistoryEvent(runtime, s, bang, quote) ==
  LET i == bang + 1
      back == Char(s, i) = "-"
      digits == IF back THEN i + 1 ELSE i
      n == NumberIn(s, digits)
      number == IF back THEN (IF n <= Len(Past) THEN Len(Past) - n + 1 ELSE 0) ELSE n
  IN CASE Char(s, i) \in {"!", NUL} ->
            Found(runtime, IF Past = <<>> THEN <<>> ELSE <<Past[1]>>,
                  IF Char(s, i) = NUL THEN i ELSE i + 1)
       [] Char(s, i) \notin {"!", NUL} /\ Char(s, digits) \in Digits ->
            Found(runtime, Numbered(number), BehindDigits(s, digits))
       [] OTHER -> SearchedEvent(runtime, s, digits, quote)

-----------------------------------------------------------------------------
(* Modifiers: history_substitute, truncate_at, replace, getfrom and getto *)

HistorySubstitute(s, what, with, globally) ==
  LET step(st, i) ==
        IF i < st.next THEN st
        ELSE IF what # <<>> /\ (globally \/ ~st.done) /\ StartsWith(SubSeq(s, i, Len(s)), what)
        THEN [out |-> st.out \o with, next |-> i + Len(what), done |-> TRUE]
        ELSE [st EXCEPT !.out = Append(@, s[i])]
  IN FoldLeft(step, [out |-> <<>>, next |-> 1, done |-> FALSE], [i \in DOMAIN s |-> i]).out

Places(s, c) == {i \in DOMAIN s : s[i] = c}
TruncateAt(s, c) == IF Places(s, c) = {} THEN s ELSE SubSeq(s, 1, Max(Places(s, c)) - 1)
KeepBehind(s, c) == IF Places(s, c) = {} THEN s ELSE SubSeq(s, Max(Places(s, c)) + 1, Len(s))

\* One side of a substitution from i on: its text and where its delimiter is, or NUL.
\* In the new text an ampersand stands for the old one.
Side(s, i, delim, old) ==
  LET quotes(k) == /\ s[k] = "\\"
                   /\ Char(s, k + 1) = delim \/ (old # NoText /\ Char(s, k + 1) = "&")
      step(st, k) ==
        CASE st.at # 0 \/ k < st.next -> st
          [] st.at = 0 /\ k >= st.next /\ s[k] = delim -> [st EXCEPT !.at = k]
          [] st.at = 0 /\ k >= st.next /\ s[k] # delim /\ s[k] = "&" /\ old # NoText ->
               [st EXCEPT !.text = @ \o old]
          [] st.at = 0 /\ k >= st.next /\ s[k] # delim /\ quotes(k) ->
               [st EXCEPT !.text = Append(@, s[k + 1]), !.next = k + 2]
          [] OTHER -> [st EXCEPT !.text = Append(@, s[k])]
      st == FoldLeft(step, [text |-> <<>>, at |-> 0, next |-> 1],
                     [k \in 1..(Len(s) + 1 - i) |-> k + i - 1])
  IN IF st.at = 0 THEN [st EXCEPT !.at = Len(s) + 1] ELSE st

\* What is known while the modifiers of a reference are taken in their order; `next`
\* is the position the next one is at.
Modifying(text, runtime) ==
  [text |-> text, runtime |-> runtime, print |-> FALSE, all |-> FALSE, next |-> 1, failed |-> FALSE]

Substitute(m, s, i) ==
  LET delim == Char(s, i + 1)
      from == Side(s, i + 2, delim, NoText)
      fromOK == from.text # <<>> /\ from.at < Len(s)
      to == Side(s, from.at + 1, delim, from.text)
      toOK == to.at <= Len(s)
  IN IF i + 2 > Len(s) THEN [m EXCEPT !.failed = TRUE]
     ELSE IF ~fromOK THEN [m EXCEPT !.failed = TRUE, !.runtime.from = NoText]
     ELSE IF ~toOK THEN [m EXCEPT !.failed = TRUE, !.runtime.from = from.text, !.runtime.to = NoText]
     ELSE [m EXCEPT !.text = HistorySubstitute(@, from.text, to.text, m.all), !.all = FALSE,
                    !.runtime.from = from.text, !.runtime.to = to.text, !.next = to.at]

\* Whatever is no modifier is passed over, to the end of the line.
Modifier(m, s, i) ==
  LET c == s[i]
      unset == m.runtime.from = NoText \/ m.runtime.to = NoText
  IN CASE m.failed \/ i < m.next -> m
       [] ~(m.failed \/ i < m.next) ->
            CASE c = "h" -> [m EXCEPT !.text = TruncateAt(@, "/")]
              [] c = "t" -> [m EXCEPT !.text = KeepBehind(@, "/")]
              [] c = "r" -> [m EXCEPT !.text = TruncateAt(@, ".")]
              [] c = "e" -> [m EXCEPT !.text = KeepBehind(@, ".")]
              [] c = "p" -> [m EXCEPT !.print = TRUE]
              [] c = "g" -> [m EXCEPT !.all = TRUE]
              [] c = "s" \/ (c = "&" /\ ~unset) -> Substitute(m, s, i)
              [] OTHER -> m

-----------------------------------------------------------------------------
(* A reference: _history_expand_command *)

\* The word designator at i: the first and last word it asks for, and what is behind.
Designator(s, i) ==
  LET c == Char(s, i)
      first == IF c = "-" THEN 0 ELSE NumberIn(s, i)
      j == IF c = "-" THEN i ELSE BehindDigits(s, i)
      upTo == Char(s, j + 1)
      range(last, next) == [first |-> first, last |-> last, next |-> next]
  IN CASE c = "^" -> [first |-> 1, last |-> 1, next |-> i + 1]
       [] c = "$" -> [first |-> LAST, last |-> LAST, next |-> i + 1]
       [] c = "*" -> [first |-> 1, last |-> LAST, next |-> i + 1]
       [] c = NUL -> [first |-> LAST, last |-> LAST, next |-> i]
       [] OTHER ->
            IF Char(s, j) = "-"
            THEN IF upTo \in Digits THEN range(NumberIn(s, j + 1), BehindDigits(s, j + 1))
                 ELSE IF upTo = "$" THEN range(LAST, j + 2)
                 ELSE range(BEFORELAST, j + 1)
            ELSE IF Char(s, j) = "*" THEN range(LAST, j + 1)
            ELSE range(first, j)

Refused(runtime) == [ret |-> "error", text |-> <<>>, runtime |-> runtime]
Expanded(runtime, text, print) ==
  [ret |-> IF print THEN "print" ELSE "expanded", text |-> text, runtime |-> runtime]

\* The modifiers from `cmd` on, to the end of the line.
Modified(s, cmd, text, runtime) ==
  FoldLeft(LAMBDA x, i : Modifier(x, s, i), Modifying(text, runtime),
           [k \in 1..(Len(s) + 1 - cmd) |-> k + cmd - 1])

ExpandModifiers(m) == IF m.failed THEN Refused(m.runtime) ELSE Expanded(m.runtime, m.text, m.print)

\* The words chosen of an event, <<>> when it has not so many, and where the
\* modifiers begin.
ExpandChosen(runtime, s, chosen, cmd, end) ==
  CASE chosen = <<>> -> Refused(runtime)
    [] chosen # <<>> /\ (cmd > Len(s) \/ cmd >= end) -> Expanded(runtime, chosen[1], FALSE)
    [] OTHER -> ExpandModifiers(Modified(s, cmd, chosen[1], runtime))

ExpandWords(s, event, word, end) ==
  LET next == Char(s, event.next + 1)
      designated == next \in {"^", "*", "$", "-", NUL} \cup Digits
      chosen == CASE next = "%" -> <<IF event.runtime.match = NoText THEN <<>> ELSE event.runtime.match>>
                  [] designated -> HistoryArgExtract(word.first, word.last, event.line[1])
                  [] OTHER -> event.line
  IN ExpandChosen(event.runtime, s, chosen, IF designated THEN word.next ELSE event.next + 1, end)

ExpandEvent(s, event, short, end) ==
  CASE event.line = <<>> -> Refused(event.runtime)
    [] event.line # <<>> /\ ~(short \/ Char(s, event.next) = ":") ->
         Expanded(event.runtime, event.line[1], FALSE)
    [] OTHER -> ExpandWords(s, event, Designator(s, event.next + 1), end)

\* The reference at `bang`, whose end, as the scan found it, is `end`.
ExpandCommand(runtime, s, bang, end) ==
  LET short == Char(s, bang + 1) \in {":", "^", "*", "$", NUL}
      soFar == ~short /\ Char(s, bang + 1) = "#"
      quote == IF Char(s, bang - 1) = "quote" THEN "quote" ELSE NUL
      event == IF short THEN Found(runtime, Newest(LAMBDA line : TRUE),
                                   IF Char(s, bang + 1) = ":" THEN bang + 1 ELSE bang)
               ELSE IF soFar THEN Found(runtime, <<SubSeq(s, 1, bang - 1)>>, bang + 1)
               ELSE GetHistoryEvent(runtime, s, bang, quote)
  IN ExpandEvent(s, event, short, end)

-----------------------------------------------------------------------------
(* The line: history_expand *)

NoExpandChars == {" ", "=", "(", NUL}
Live(s, j) == s[j] = "!" /\ Char(s, j + 1) \notin NoExpandChars

\* Mutant: the exclamation mark a backslash was taken from is looked at again.
ScanStepAgain(st) ==
  LET c == Char(st.s, st.j)
  IN IF c = NUL \/ (st.second /\ c \in {" ", st.quote}) THEN [st EXCEPT !.stop = TRUE]
     ELSE IF c = "\\" /\ Char(st.s, st.j + 1) = "!" THEN [st EXCEPT !.s = RemoveAt(@, st.j)]
     ELSE IF Live(st.s, st.j) THEN [st EXCEPT !.stop = TRUE]
     ELSE [st EXCEPT !.j = @ + 1]

\* A step of the inner scan: the backslash of an escaped exclamation mark is taken
\* out and the mark passed over; a reference ends at a blank, the quote it began
\* behind, or the next reference.
ScanStep(st) ==
  LET c == Char(st.s, st.j)
  IN IF c = NUL THEN [st EXCEPT !.stop = TRUE]
     ELSE IF c = "\\" /\ Char(st.s, st.j + 1) = "!" THEN [st EXCEPT !.s = RemoveAt(@, st.j), !.j = @ + 1]
     ELSE IF (st.second /\ c \in {" ", st.quote}) \/ Live(st.s, st.j) THEN [st EXCEPT !.stop = TRUE]
     ELSE [st EXCEPT !.j = @ + 1]

Scan(s, j, second, quote) ==
  FoldLeft(LAMBDA st, k : IF st.stop THEN st ELSE ScanStep(st),
           [s |-> s, j |-> j, second |-> second, quote |-> quote, stop |-> FALSE],
           [k \in 1..(Len(s) + 1) |-> k])

\* The text from i up to `here`, and what the reference there comes to, if there is
\* one; what is left of the line, if there is none.
PutReference(x, s, here, end, r) ==
  [s |-> s, i |-> end, out |-> x.out \o SubSeq(s, x.i, here - 1) \o r.text, ret |-> r.ret,
   runtime |-> r.runtime, done |-> FALSE]

PutOut(x, s, here, end) ==
  IF Char(s, here) = "!" THEN PutReference(x, s, here, end, ExpandCommand(x.runtime, s, here, end))
  ELSE [x EXCEPT !.s = s, !.out = @ \o SubSeq(s, x.i, end - 1), !.i = Len(s) + 1,
                 !.ret = IF x.i = 1 THEN "nothing" ELSE "expanded", !.done = TRUE]

\* The reference that begins where the first scan stopped ends where another one does.
TurnAt(x, first) ==
  LET bang == first.j
      inner == IF Char(first.s, bang + 1) = "!" THEN bang + 2 ELSE bang + 1
      quote == IF Char(first.s, bang - 1) = "quote" THEN "quote" ELSE NUL
      last == Scan(first.s, inner, TRUE, quote)
  IN IF bang > Len(first.s) THEN PutOut(x, first.s, x.i, first.j)
     ELSE PutOut(x, last.s, bang, last.j)

\* One turn of the main loop, from i: the text up to a reference, and the reference;
\* or the rest of the line.
Turn(x) == TurnAt(x, Scan(x.s, x.i, FALSE, NUL))

\* ^old^new^ is !!:s^old^new^.
HistoryExpand(runtime, line) ==
  LET s == IF Char(line, 1) = "^" THEN <<"!", "!", ":", "s">> \o line ELSE line
  IN FoldLeft(LAMBDA x, k : IF x.done \/ x.i > Len(x.s) THEN x ELSE Turn(x),
              [s |-> s, i |-> 1, out |-> <<>>, ret |-> "nothing", runtime |-> runtime, done |-> FALSE],
              [k \in 1..(Len(s) + 1) |-> k])

-----------------------------------------------------------------------------
(***************************************************************************)
(* What references mean, said of what is referred to and not of how it is  *)
(* written.  A piece of a line is plain text or a reference: an event, the *)
(* words wanted of it, and one modifier.  The lines of the past are words  *)
(* of letters with single blanks between them.                             *)
(***************************************************************************)

Written(piece) ==
  IF piece.kind = "text" THEN piece.text
  ELSE piece.event.text
       \o (IF piece.words.text = <<>> THEN <<>> ELSE <<":">> \o piece.words.text)
       \o (IF piece.change.text = <<>> THEN <<>> ELSE <<":">> \o piece.change.text)

EventMeant(event) ==
  CASE event.by = "newest" -> Newest(LAMBDA line : TRUE)
    [] event.by = "number" -> Numbered(event.n)
    [] event.by = "back" -> IF event.n \in DOMAIN Past THEN <<Past[event.n]>> ELSE <<>>
    [] event.by = "start" -> Newest(LAMBDA line : StartsWith(line, event.of))
    [] event.by = "inside" -> Newest(LAMBDA line : HasInside(line, event.of))

\* The blanks of a line, with one before it and one behind it.
Bounds(line) == {0, Len(line) + 1} \cup Places(line, " ")
WordAt(line, k) ==
  LET from == CHOOSE b \in Bounds(line) : Cardinality({c \in Bounds(line) : c < b}) = k
      to == Min({c \in Bounds(line) : c > from})
  IN SubSeq(line, from + 1, to - 1)
WordCount(line) == Cardinality(Bounds(line)) - 1

WordsMeant(words, line) ==
  LET last == WordCount(line) - 1
      from == IF words.first = LAST THEN last ELSE words.first
      to == CASE words.last = LAST -> last [] words.last = BEFORELAST -> last - 1 [] OTHER -> words.last
      every == [k \in 1..(to + 1 - from) |-> WordAt(line, from + k - 1)]
  IN IF words.text = <<>> THEN <<line>>
     ELSE IF to > last \/ from > to THEN <<>>
     ELSE <<FoldLeft(LAMBDA out, w : out \o <<" ">> \o w, Head(every), Tail(every))>>

ChangeMeant(change, text) ==
  CASE change.by = "none" -> text
    [] change.by = "head" -> TruncateAt(text, "/")
    [] change.by = "tail" -> KeepBehind(text, "/")
    [] change.by = "all" -> FlattenSeq([k \in DOMAIN text |->
                              IF text[k] = change.old THEN change.new ELSE <<text[k]>>])
    [] change.by = "first" -> FlattenSeq([k \in DOMAIN text |->
                              IF text[k] = change.old /\ change.old \notin ToSet(SubSeq(text, 1, k - 1))
                              THEN change.new ELSE <<text[k]>>])

\* What a piece stands for; a reference to nothing stands for nothing.
Meant(piece) ==
  IF piece.kind = "text" THEN piece.meant
  ELSE LET event == EventMeant(piece.event)
           words == IF event = <<>> THEN <<>> ELSE WordsMeant(piece.words, event[1])
       IN IF words = <<>> THEN <<>> ELSE ChangeMeant(piece.change, words[1])

Joined(pieces, Of(_)) ==
  FlattenSeq([k \in DOMAIN pieces |-> (IF k = 1 THEN <<>> ELSE <<" ">>) \o Of(pieces[k])])

\* A line expands to what its pieces mean, each on its own, whatever stands before
\* and behind it, for as long as only the last one has a modifier.
ExpandsToMeaning(pieces) ==
  LET asMeant(x) ==
        /\ x.out = Joined(pieces, Meant)
        /\ (x.ret = "nothing") <=> \A k \in DOMAIN pieces : pieces[k].kind # "reference"
  IN asMeant(HistoryExpand(NewRuntime, Joined(pieces, Written)))

=============================================================================
