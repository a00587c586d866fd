------------------------------ MODULE MCInputs ------------------------------
(***************************************************************************)
(* The components that are a function of what they were fed, each over all *)
(* its inputs up to a length: a behaviour takes one subject and feeds it   *)
(* symbol by symbol.  The subjects "bytes", "line", "recall", "modes" and  *)
(* "view" are not fed: they are a decoder, a line that is completed, one   *)
(* that history is recalled into, a terminal whose modes are set, and one  *)
(* whose capabilities are, with the steps of InputDecoder, Completion,     *)
(* HostHistory, TerminalModes and TerminalView.                            *)
(***************************************************************************)
EXTENDS InputDecoder, HistoryFile, CTokenizer, HostHistory, TerminalModes, TerminalView

CONSTANTS LineUnits, BreakUnits, Answers, Suffix, ListingLimit, MaxLine, MaxMeddling
CONSTANTS MaxWrites, MaxUnits, MaxPieces, MaxStatements,
          MaxCommands, MaxNames    \* bounds: the longest input of each subject

MCPast == <<<<"b", " ", "a", "/", "c", "/", "a">>, <<"a", " ", "b", " ", "a">>, <<"c">>>>
Expansion == INSTANCE HistoryExpansion WITH Past <- MCPast
Capability == INSTANCE ParameterStrings WITH Half <- 8, MaxFormat <- 11
Termcap == INSTANCE ParameterStrings WITH Half <- 512, MaxFormat <- 11
Description == INSTANCE CompiledEntry WITH
                 Radix <- 4, MaxBooleans <- 2, MaxNumbers <- 2, MaxStrings <- 2

VARIABLES subject, input, invocation, query, meddling, outcome

recalled == <<config, past, keymap, depth, saved, live, search, typed>>
completed == <<line, cursor, invocation, query, meddling, outcome>>

Completing == INSTANCE Completion

RecallConfigs ==
  [editing : {"emacs", "vi"}, encoding : {"wide"}, buffering : {"line"}, attached : {TRUE}]
  \cup {[editing |-> "vi", encoding |-> "narrow", buffering |-> "command", attached |-> TRUE],
        [editing |-> "emacs", encoding |-> "narrow", buffering |-> "line", attached |-> FALSE]}
RecallPatterns == {<<"a">>, <<"b">>}
RecallPasts == {<<>>, <<[number |-> 2, line |-> <<"a", "nl">>], [number |-> 1, line |-> <<"b", "sp", "a">>]>>}

AsFound == [c \in {"eof", "intr"} |-> "found"]
Overriding(name, sign) == [kind |-> "override", name |-> name, sign |-> sign]
Setting(name) == [kind |-> "character", name |-> name]
Unknown == [kind |-> "unknown"]
ModeSettings ==
  {<<Setting("eof")>>, <<Setting("intr")>>, <<Unknown>>, <<Setting("intr"), Unknown>>,
   <<Overriding("canonical", "+"), Overriding("canonical", " ")>>}
  \cup {<<Overriding(n, s)>> : n \in {"canonical", "flow", "eof"}, s \in {"+", "-", " "}}
ModeTerminals == {[flags |-> {"canonical", "signals", "flow", "return"}, chars |-> AsFound],
                  [flags |-> {"flow"}, chars |-> AsFound]}

TextsSpelled == ("" :> 0) @@ ("0" :> 0) @@ ("3" :> 3)
TextsKept == [t \in CapabilityTexts |-> IF t = "longer than it" THEN "longer " ELSE t]
DescribedAs(numbers, bell) == [bools |-> ("am" :> TRUE) @@ ("xt" :> TRUE), numbers |-> numbers, strings |-> "bl" :> bell]
KnownTerminals == ("wide" :> DescribedAs(("li" :> 0) @@ ("co" :> 132), "ring")) @@ ("narrow" :> DescribedAs("co" :> 1, ""))
Unadorned == "bl" :> "beep"
ScreenSizes == {[rows |-> 0, columns |-> 0], [rows |-> 2, columns |-> 1], [rows |-> 3, columns |-> 4]}

Found == INSTANCE Matches WITH
           Directories <- (<<".", "/">> :> <<<<".">>, <<"a", "c3", "x8">>, <<"x9">>, <<"a">>, <<"b">>>>)
                       @@ (<<"b", "/">> :> <<<<"a">>, <<"unreadable">>, <<"a", "b">>>>)
                       @@ (<<"b", "/", "/">> :> <<<<".", ".">>, <<"b", "a">>, <<".", "b">>>>),
           Homes <- (<<>> :> <<"b", "/">>)
Names == {<<>>, <<"a">>, <<"A", "b">>, <<"b", "a">>, <<"b", "c3", "x8">>, <<"b", "c3", "x9">>,
          <<"b", "x8">>, <<"b", "c3", "x8", "x9">>}
ScanTexts == {<<"a">>, <<"b", "/">>, <<"~", "/", "b">>, <<"~", "a", "/">>, <<"a", "/">>}

Prompted == INSTANCE Prompts WITH MaxMessage <- 4
Marked(literal) == <<"START">> \o literal \o <<"END">>
PromptTexts == {<<>>, <<"p">>, <<"c3", "x8", "x8">>, Marked(<<"x">>) \o <<"p">>, <<"c3">> \o Marked(<<"x">>) \o <<"x8">>,
                <<"p">> \o Marked(<<"x">>),
                Marked(<<"x">>) \o Marked(<<"y", "c3">>) \o <<"x8">>,
                <<"p">> \o Marked(<<>>) \o Marked(<<"x">>) \o <<"p">> \o Marked(<<"y">>) \o <<"p">>}
PromptCommands == [does : {"set", "message"}, text : PromptTexts] \cup [does : {"save", "restore"}]

Records == {[text |-> <<>>, blob |-> <<>>],
            [text |-> <<1>>, blob |-> <<0, 2>>],
            [text |-> <<2, 2, 2>>, blob |-> <<1>>],
            [text |-> <<3, 0, 4, 4>>, blob |-> <<>>]}

Writes == UNION {{[record |-> r, kept |-> k] : k \in 1..Len(RecordFrame(r))} : r \in Records}

PlainTexts == {[kind |-> "text", text |-> t[1], meant |-> t[2]] : t \in
               {<<<<"x">>, <<"x">>>>, <<<<"x", "!">>, <<"x", "!">>>>,
                <<<<"x", "!", "=", "x">>, <<"x", "!", "=", "x">>>>,
                <<<<"x", "\\", "!", "x">>, <<"x", "!", "x">>>>}}

Events == {[by |-> "newest", text |-> <<"!", "!">>],
           [by |-> "number", n |-> 2, text |-> <<"!", "2">>],
           [by |-> "back", n |-> 1, text |-> <<"!", "-", "1">>],
           [by |-> "start", of |-> <<"a">>, text |-> <<"!", "a">>],
           [by |-> "inside", of |-> <<"c">>, text |-> <<"!", "?", "c", "?">>]}

WordChoices == {[first |-> w[1], last |-> w[2], text |-> w[3]] : w \in
               {<<0, 0, <<>>>>, <<0, 0, <<"0">>>>, <<1, 1, <<"^">>>>, <<1, 2, <<"1", "-", "2">>>>,
                <<Expansion!LAST, Expansion!LAST, <<"$">>>>, <<1, Expansion!LAST, <<"1", "*">>>>,
                <<0, Expansion!BEFORELAST, <<"0", "-">>>>}}

NoChange == [by |-> "none", text |-> <<>>]
Changes == {NoChange, [by |-> "head", text |-> <<"h">>], [by |-> "tail", text |-> <<"t">>],
            [by |-> "first", old |-> "a", new |-> <<"x">>, text |-> <<"s", "/", "a", "/", "x", "/">>],
            [by |-> "all", old |-> "a", new |-> <<"b", "a">>,
             text |-> <<"g", "s", "/", "a", "/", "b", "&", "/">>]}

References == [kind : {"reference"}, event : Events, words : WordChoices, change : Changes]
Changed(piece) == piece.kind = "reference" /\ piece.change # NoChange

Params == {<<x, y>> : x \in {-8, 0, 3}, y \in {-2, 0, 7}}
First == <<"param", 1>>
Second == <<"param", 2>>
Expressions ==
  {First, Second, <<"const", 2>>, <<"char", "?">>, <<"char", "%">>, <<"var", "a">>,
   <<"!", First>>, <<"~", First>>}
  \cup {<<op, First, Second>> : op \in Capability!Arithmetic \cup Capability!Comparisons}
Statements == {<<"text", <<"e", ";">>>>, <<"percent">>, <<"one-based">>}
              \cup {<<"put", e>> : e \in Expressions} \cup {<<"set", "a", e>> : e \in {First, Second}}

If(c, then) == <<"if", <<<<c, then>>>>>>
IfElse(c, then, else) == <<"if", <<<<c, then>>, <<<<"always">>, else>>>>>>
Inner == {If(Second, <<<<"percent">>>>),
          IfElse(Second, <<<<"text", <<"t">>>>>>, <<<<"put", <<"char", "%">>>>>>)}
Blocks == {<<>>, <<<<"text", <<"e">>>>>>} \cup {<<s, <<"put", First>>>> : s \in Inner}
Conditions == {First, <<"!", First>>, <<"<", First, Second>>}
Conditionals == {If(c, b) : c \in Conditions, b \in Blocks}
           \cup {IfElse(c, b, d) : c \in Conditions, b \in Blocks, d \in Blocks}
Chains == {<<"if", <<<<c, b>>, <<d, e>>, <<<<"always">>, f>>>>>> :
            c \in Conditions, d \in Conditions, b \in Blocks, e \in Blocks, f \in Blocks}

Formats == [n : {-8, -1, 0, 7}, op : {"d", "o", "x", "X"}, marks : SUBSET {"#", "-", "+", " ", "0"},
            width : {0, 1, 3, 12}, precision : {-1, 0, 3}]
\* What a termcap string is made of.
TermcapItems ==
  {<<what>> : what \in {"percent", "number", "two", "three", "char", "one-based", "swap", "toggle", "decimal", "reverse"}}
  \cup {<<"text", text>> : text \in {<<"d">>, <<"$">>, <<"$", "<", "d", ">">>, <<"$", "<", "3", ".", ">">>}}
  \cup {<<"plus", <<c>>>> : c \in {" ", "%"}} \cup {<<"above", <<"!", "+">>>>}
  \cup {<<"delay", [tenths |-> 15, marks |-> marks]>> : marks \in SUBSET {"*", "/"}}
\* A third item is one that puts something out, which what was before it can change.
Showing == {s \in TermcapItems : s[1] \in Termcap!Converts \cup {"delay"}}
EchoedWords == {<<5, 40, 3>>, <<38, 16, 0>>, <<0, 124, 199>>}
Lines == {[rate |-> 0, pad |-> "pad", flow |-> FALSE]} \cup [rate : {9600}, pad : {"pad"}, flow : BOOLEAN]

FlagsOf(f) == [Capability!NoFlags EXCEPT !.marks = f.marks, !.width = f.width, !.precision = f.precision]

Entries == [magic : {0, 1, 2}, names : {<<2, 1>>, <<3>>}, booleans : {<<>>, <<1>>, <<2, 3>>},
            numbers : {<<>>, <<5>>, <<-1, 3>>, <<-3>>}, offsets : {<<>>, <<1>>, <<-1, 0>>, <<-3>>},
            table : {<<>>, <<0, 1>>, <<1, 0, 2, 0>>}]
DoubtfulEntries == {e \in Entries : e.magic # 0 /\ e.numbers # <<-3>> /\ e.table # <<>>}
Lies == [field : 1..5, size : {-2, -1, 0, 1, 3, 7}]

Keys == INSTANCE KeyBindings WITH
          MaxBindingUnits <- 2,
          LogicalKeys <- <<"up", "home">>, LeadOf <- [k \in {"up", "home"} |-> IF k = "up" THEN "u" ELSE "h"],
          FallbackOf <- [k \in {"up", "home"} |-> {<<"ESC", IF k = "up" THEN "A" ELSE "H">>}]
Sends(s) == [k \in {"up", "home"} |-> IF k = "up" THEN s ELSE <<>>]
Sessions == {Keys!NewSession(Sends(<<>>), TRUE), Keys!NewSession(Sends(<<"ESC", "u">>), FALSE)}
KeySequences == {<<"ESC">>, <<"u">>, <<"ESC", "u">>, <<"u", "u">>, <<"ESC", "u", "A">>}
\* a, 7, a backslash, a quote, M, a dash, D, a caret, three controls, a byte and what is no
\* character.
ListedUnits == {97, 55, 92, 34, 77, 45, 68, 94, 0, 28, 127, -255, 55296}
KeyCommands ==
  [what : {"bind"}, alternate : BOOLEAN, seq : KeySequences, binding : {"this", "that"}]
  \cup [what : {"remove"}, alternate : BOOLEAN, seq : KeySequences]
  \cup [what : {"bind key", "bind key macro"}, alternate : {FALSE}, key : {"up"}, binding : {"this"}]
  \cup [what : {"remove key"}, alternate : {FALSE}, key : {"up"}]
  \cup [what : {"terminal"}, sends : {Sends(<<"u">>)}] \cup [what : {"reset"}, vi : BOOLEAN]

\* "cut" ends the input of one call of the C tokenizer.
Symbols ==
  CASE subject = "file" -> IF Len(input) < MaxWrites THEN Writes ELSE {}
    [] subject = "words" ->
         IF Len(input) < MaxUnits
         THEN {"a", "sp", "sq", "dq", "bs", "nl", "op", "cut"} ELSE {}
    [] subject = "matches" -> IF Len(input) < MaxNames THEN Names ELSE {}
    [] subject = "prompt" -> IF Len(input) < MaxNames THEN PromptCommands ELSE {}
    [] subject = "scan" ->
         IF Len(input) < MaxNames THEN [text : ScanTexts, state : {0, 1}] ELSE {}
    [] subject = "history" ->
         IF Len(input) < MaxPieces /\ (input # <<>> => ~Changed(Last(input)))
         THEN PlainTexts \cup References ELSE {}
    [] subject = "capability" ->
         CASE input = <<>> -> Params
           [] Len(input) = 1 -> Statements \cup Conditionals \cup Chains
           [] Len(input) = 2 /\ MaxStatements = 2 /\ Last(input) \in Statements -> Statements \cup Conditionals
           [] OTHER -> {}
    [] subject = "format" -> IF input = <<>> THEN Formats ELSE {}
    [] subject = "entry" ->
         IF input = <<>> THEN [entry : Entries, lie : {Description!Honest}]
                              \cup [entry : DoubtfulEntries, lie : Lies]
         ELSE {}
    [] subject = "termcap" -> IF Len(input) < MaxPieces THEN TermcapItems
         ELSE IF Len(input) = MaxPieces THEN Showing ELSE {}
    [] subject = "listing" -> IF Len(input) < MaxCommands THEN ListedUnits ELSE {}
    [] subject = "keys" ->
         IF input = <<>> THEN Sessions ELSE IF Len(input) <= MaxCommands THEN KeyCommands ELSE {}
    [] OTHER -> {}

MCInit ==
  /\ Completing!Init /\ input = <<>> /\ RecallInit
  /\ subject \in {"bytes", "file", "words", "history", "capability", "format",
                  "entry", "keys", "line", "recall", "modes",
                 "matches", "scan", "prompt", "termcap", "listing", "view"}
  /\ subject # "recall" => past = <<>> /\ ~config.attached
  /\ DecoderInit
  /\ Init /\ (subject # "modes" => found.flags = {"flow"})
  /\ ViewInit /\ (subject # "view" => window.rows = 0 /\ view.name = "none")

Feed(symbol) == input' = Append(input, symbol) /\ UNCHANGED <<subject, completed, recalled, ttyVars, decoderVars, viewVars>>

MCNext ==
  \/ \E symbol \in Symbols : Feed(symbol)
  \/ subject = "bytes" /\ DecoderNext /\ UNCHANGED <<subject, input, completed, recalled, ttyVars, viewVars>>
  \/ subject = "line" /\ Completing!Next /\ UNCHANGED <<subject, input, recalled, ttyVars, decoderVars, viewVars>>
  \/ /\ subject = "recall" /\ RecallNext
     /\ UNCHANGED <<subject, input, invocation, query, meddling, outcome, ttyVars, decoderVars, viewVars>>
  \/ /\ subject = "modes" /\ Next
     /\ UNCHANGED <<subject, input, completed, recalled, decoderVars, viewVars>>
  \/ /\ subject = "view" /\ Len(input) < MaxCommands /\ ViewNext /\ input' = Append(input, "step")
     /\ UNCHANGED <<subject, completed, recalled, ttyVars, decoderVars>>

MCSpec == MCInit /\ [][MCNext]_<<subject, input, completed, recalled, ttyVars, decoderVars, viewVars>>

\* The pieces of an input between its cuts.
Pieces == Split(input, "cut")

\* History file: see WritesReadBack of HistoryFile.
TornWriteIsLocal == subject = "file" => WritesReadBack(input)

\* Tokenizers: see SourcesReadBack of Tokens and PublishesTheLine of CTokenizer.
WordsHaveTheirSources ==
  subject = "words" =>
    /\ SourcesReadBack({"sp"}, SelectSeq(input, LAMBDA u : u # "cut"))
    /\ \A requested \in SUBSET {"sp", "op"} : PublishesTheLine(requested, Pieces)

\* History expansion: see ExpandsToMeaning of HistoryExpansion.
ReferencesExpand == subject = "history" => Expansion!ExpandsToMeaning(input)

\* Terminal descriptions: see ExpandsAsStructured, NumberIsPrinted and EchoesAsMeant
\* of ParameterStrings, and EntryIsRead of CompiledEntry.
DescriptionsAreFollowed ==
  /\ subject = "capability" /\ Len(input) > 1 => Capability!ExpandsAsStructured(Tail(input), input[1])
  /\ subject = "format" => \A k \in DOMAIN input :
       Capability!NumberIsPrinted(input[k].n, input[k].op, FlagsOf(input[k]))
  /\ subject = "termcap" => \A words \in EchoedWords, l \in Lines : Termcap!EchoesAsMeant(input, words, l)
  /\ subject = "entry" => \A k \in DOMAIN input : Description!EntryIsRead(input[k].entry, input[k].lie)

\* Key bindings: see BoundIsFound and ListedReadsBack of KeyBindings.
BindingsAreFound ==
  /\ subject = "keys" /\ Len(input) > 1 => Keys!BoundIsFound(input[1], Tail(input))
  /\ subject = "listing" => Keys!ListedReadsBack(input)

\* What the readline layer hands over: see ArraysAgree, ListIsWhole and ScansAfresh of
\* Matches, and ShowsItsText of Prompts.
TextsArriveWhole ==
  /\ subject = "matches" /\ input # <<>> =>
       Found!ListIsWhole(input) /\ \A text \in {<<>>, <<"b">>} : Found!ArraysAgree(text, input)
  /\ subject = "scan" => \A text \in ScanTexts : Found!ScansAfresh(input, text)
  /\ subject = "prompt" => Prompted!ShowsItsText(input)

\* Completions: see ReadsBack of Completion.
CompletionReadsBack == Completing!CompletionReadsBack

MCAnswers == {<<>>, <<<<"a">>>>, <<<<"a", "sp", "sq">>>>, <<<<"bs", "dollar">>>>,
              <<<<"a", "sp", "a">>, <<"a", "sp", "dq">>>>,
              <<<<"a", "nl", "bs", "sq">>, <<"a", "nl", "bs", "sq">>>>,
              <<<<"sq", "a">>, <<"sq", "dq">>, <<"sq", "sq">>>>}
MCSuffix == <<"sp">>
=============================================================================
