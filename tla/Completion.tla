----------------------------- MODULE Completion -----------------------------
(***************************************************************************)
(* Completion of the word at the cursor: the query, the matching and the   *)
(* edit of crates/nshedit/src/editor/completion.rs, and the transaction    *)
(* around them in crates/nshedit-abi/src/filecomplete/completion.rs.  The  *)
(* providers run between the query and the edit and may change the line.   *)
(* A candidate is its insertion text; a unit is one of module Tokens.      *)
(***************************************************************************)
EXTENDS Tokens

CONSTANTS
  LineUnits,     \* the units a line is made of; without a newline
  BreakUnits,    \* the separators a caller asks for
  Answers,       \* what providers can answer: sequences of candidates
  Suffix,        \* the suffix of a unique match, as of a name that is a file
  ListingLimit,  \* the longest list that is printed
  MaxLine,       \* bound: units a user types
  MaxMeddling    \* bound: changes a provider makes to the line

VARIABLES
  line, cursor,  \* the editor's line, and the units before its cursor
  invocation,    \* what the next completion does with several matches
  query,         \* <<>>, or the query whose providers are running
  meddling,      \* how often a provider has changed the line
  outcome        \* what the last completion did

vars == <<line, cursor, invocation, query, meddling, outcome>>

separators == Separators(BreakUnits)
Nothing == [kind |-> "None", value |-> <<>>]

Init ==
  /\ line = <<>> /\ cursor = 0
  /\ invocation = "Insert"
  /\ query = <<>>
  /\ meddling = 0
  /\ outcome = Nothing

\* Editing, by the user or, while a query is out, by a provider.
Meddled ==
  /\ query # <<>> => meddling < MaxMeddling
  /\ meddling' = IF query # <<>> THEN meddling + 1 ELSE 0

Type(u) ==
  /\ Len(line) < MaxLine
  /\ Meddled
  /\ line' = InsertAt(line, cursor + 1, u)
  /\ cursor' = cursor + 1
  /\ outcome' = Nothing
  /\ UNCHANGED <<invocation, query>>

Move(c) ==
  /\ c # cursor
  /\ Meddled
  /\ cursor' = c
  /\ outcome' = Nothing
  /\ UNCHANGED <<line, invocation, query>>

Clear ==
  /\ line # <<>>
  /\ Meddled
  /\ line' = <<>> /\ cursor' = 0
  /\ outcome' = Nothing
  /\ UNCHANGED <<invocation, query>>

\* completion_query: the word the cursor is in or behind, from the start of its
\* physical line.
CompletionQuery ==
  LET newlines == {i \in 1..cursor : line[i] = "nl"}
      lineStart == IF newlines = {} THEN 0 ELSE Max(newlines)
      parsed == Tokenize(separators, SubSeq(line, lineStart + 1, cursor), cursor - lineStart)
      at == parsed.cursor[1]
      inWord == at.token + 1 \in DOMAIN parsed.tokens
  IN [line |-> line, cursor |-> cursor, quote |-> at.quote,
      invocation |-> invocation,
      from |-> IF inWord THEN lineStart + parsed.tokens[at.token + 1].from ELSE cursor + 1,
      stem |-> IF inWord THEN parsed.tokens[at.token + 1].value ELSE <<>>]

\* observe_completion
Begin ==
  /\ query = <<>> /\ Len(line) <= MaxLine
  /\ query' = <<CompletionQuery>>
  /\ invocation' = "List"
  /\ meddling' = 0
  /\ outcome' = Nothing
  /\ UNCHANGED <<line, cursor>>

\* matching: the candidates that begin with the stem, each once.
Matching(stem, candidates) ==
  LET fits == SelectSeq(candidates, LAMBDA c : IsPrefix(stem, c))
  IN FoldLeft(LAMBDA kept, c : IF Contains(kept, c) THEN kept ELSE Append(kept, c), <<>>, fits)

\* The units that are escaped outside quotes: separators and what a shell reads.
NeedsUnquotedEscape(u) == u \in separators \cup {"sq", "dq", "bs", "dollar"}

\* Mutant: what single quotes cannot hold is escaped inside them.
EncodeInSingle(value, quote, close) ==
  LET each(spell(_)) == FlattenSeq([k \in DOMAIN value |-> spell(value[k])])
      plain(u) == IF u = "nl" THEN <<"sq", "nl", "sq">>
                  ELSE IF NeedsUnquotedEscape(u) THEN <<"bs", u>> ELSE <<u>>
      double(u) == IF u \in EscapedInDouble THEN <<"bs", u>> ELSE <<u>>
      closing(q) == IF close THEN <<q>> ELSE <<>>
      mark == IF quote = "Single" THEN "sq" ELSE "dq"
  IN IF quote = "Unquoted" THEN each(plain)
     ELSE <<mark>> \o each(double) \o closing(mark)

\* encode: a value as line text that reads as this value in this quoting.
Encode(value, quote, close) ==
  LET each(spell(_)) == FlattenSeq([k \in DOMAIN value |-> spell(value[k])])
      plain(u) == IF u = "nl" THEN <<"sq", "nl", "sq">>
                  ELSE IF NeedsUnquotedEscape(u) THEN <<"bs", u>> ELSE <<u>>
      single(u) == IF u = "sq" THEN <<"sq", "bs", "sq", "sq">> ELSE <<u>>
      double(u) == IF u \in EscapedInDouble THEN <<"bs", u>> ELSE <<u>>
      closing(q) == IF close THEN <<q>> ELSE <<>>
  IN CASE quote = "Unquoted" -> each(plain)
       [] quote = "Single" -> <<"sq">> \o each(single) \o closing("sq")
       [] quote = "Double" -> <<"dq">> \o each(double) \o closing("dq")

\* apply_edit: the replacement instead of the queried word, the cursor behind it.
ApplyEdit(q, replacement) ==
  /\ line' = SubSeq(line, 1, q.from - 1) \o replacement \o SubSeq(line, q.cursor + 1, Len(line))
  /\ cursor' = q.from - 1 + Len(replacement)

\* report_without_outcome: an error; the next completion still lists.
Stale ==
  /\ outcome' = [kind |-> "Error", value |-> <<>>]
  /\ UNCHANGED <<line, cursor, invocation>>

\* What a report says is done: Unique and NoMatch end the run of completions.
NoMatch ==
  /\ invocation' = "Insert"
  /\ outcome' = [kind |-> "NoMatch", value |-> <<>>]
  /\ UNCHANGED <<line, cursor>>

Unique(q, candidate, suffix) ==
  /\ ApplyEdit(q, Encode(candidate, q.quote, TRUE) \o suffix)
  /\ invocation' = "Insert"
  /\ outcome' = [kind |-> "Unique", value |-> candidate]

\* The candidates are listed at once, or the next completion will list them.
Ambiguous(q, candidates) ==
  LET prefix == LongestCommonPrefix(ToSet(candidates))
      listed == IF q.invocation = "Insert" THEN "Pending"
                ELSE IF Len(candidates) <= ListingLimit THEN "Listed" ELSE "Omitted"
  IN /\ IF Len(prefix) > Len(q.stem)
        THEN ApplyEdit(q, Encode(prefix, q.quote, FALSE))
        ELSE UNCHANGED <<line, cursor>>
     /\ outcome' = [kind |-> listed,
                    value |-> IF Len(prefix) > Len(q.stem) THEN prefix ELSE <<>>]
     /\ UNCHANGED invocation

\* apply_completion of what the providers answered; only a single candidate was
\* given a suffix, and only one that is still alone after the matching keeps it.
Resolve(answer, appendUnique) ==
  LET q == query[1]
      candidates == Matching(q.stem, answer)
      suffix == IF Len(answer) = 1 /\ appendUnique THEN Suffix ELSE <<>>
  IN IF line # q.line \/ cursor # q.cursor THEN Stale
     ELSE CASE candidates = <<>> -> NoMatch
            [] Len(candidates) = 1 -> Unique(q, candidates[1], suffix)
            [] OTHER -> Ambiguous(q, candidates)

Answered == query # <<>> /\ query' = <<>> /\ meddling' = 0

\* The application's own completion hook found something.
HookAnswers(answer) == Answered /\ Resolve(answer, TRUE)

\* There is no such hook, or it found nothing and lets the generator answer.
GeneratorAnswers(answer, hooked, append) ==
  /\ Answered
  /\ answer # <<>>
  /\ Resolve(answer, hooked \/ append)

\* Nobody found anything; the line may have changed, nothing is applied to it.
NobodyAnswers == Answered /\ NoMatch

Next ==
  \/ \E u \in LineUnits : Type(u)
  \/ \E c \in 0..Len(line) : Move(c)
  \/ Clear
  \/ Begin
  \/ \E answer \in Answers : HookAnswers(answer)
  \/ \E answer \in Answers, hooked, append \in BOOLEAN : GeneratorAnswers(answer, hooked, append)
  \/ NobodyAnswers

Spec == Init /\ [][Next]_vars

-----------------------------------------------------------------------------

\* What a completion put on the line is read back as the value that was chosen:
\* the words before the cursor end with it, whatever it is made of, whatever
\* quoting it was begun in, and the words before it are the ones that were there.
\* In "Unique" the word is finished too, so that it stays what it is.
ReadsBack ==
  LET before == Values(Tokenize(separators, SubSeq(line, 1, cursor), 0))
      after == Values(Tokenize(separators, SubSeq(line', 1, cursor'), 0))
      word == outcome'.value
      old == IF query[1].stem = <<>> /\ query[1].from = cursor + 1 THEN before ELSE Front(before)
      edited == line' # line \/ cursor' # cursor
  IN query # <<>> /\ query' = <<>> /\ "nl" \notin ToSet(line) /\ word # <<>> =>
       after = Append(old, word)

CompletionReadsBack == [][ReadsBack]_vars

=============================================================================
