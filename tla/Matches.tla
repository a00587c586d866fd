------------------------------ MODULE Matches ------------------------------
(***************************************************************************)
(* The matches of a completion on their way between the generator, the     *)
(* application and the terminal: the scan of a directory, the arrays that  *)
(* rl_completion_matches and completion_matches hand out and a completion  *)
(* hook hands back, and the list that is displayed                         *)
(* (crates/nshedit-abi/src/filecomplete.rs, readline.rs and                *)
(* readline/completion.rs).                                                *)
(*                                                                         *)
(* A name is a sequence of bytes.  "c3" begins a character of two bytes    *)
(* and "x8" and "x9" end one; any other is a character of its own, "fffd"  *)
(* the one that text has where bytes are no character.                     *)
(***************************************************************************)
EXTENDS Naturals, Sequences, FiniteSets, FiniteSetsExt, SequencesExt

CONSTANTS
  Directories,  \* the entries of each directory that can be read
  Homes         \* the home directory of each account; <<>> is the user's own name

Order == <<".", "/", "A", "a", "b", "~", "x8", "x9", "c3", "fffd">>
Rank == [b \in ToSet(Order) |-> SelectInSeq(Order, LAMBDA o : o = b)]
More == {"x8", "x9"}

\* String::from_utf8_lossy
Lossy(name) ==
  [i \in DOMAIN name |->
    LET led == i > 1 /\ name[i - 1] = "c3"
        followed == i < Len(name) /\ name[i + 1] \in More
    IN IF (name[i] = "c3" /\ ~followed) \/ (name[i] \in More /\ ~led) THEN "fffd" ELSE name[i]]
IsText(name) == Lossy(name) = name

-----------------------------------------------------------------------------
\* The default generator.

Slash(text) == SelectLastInSeq(text, LAMBDA b : b = "/")
Dirname(text) == SubSeq(text, 1, Slash(text))
Filename(text) == SubSeq(text, Slash(text) + 1, Len(text))

\* tilde_expand_string, of a text with a slash; "none" is no such account.
TildeExpand(text) ==
  LET first == SelectInSeq(text, LAMBDA b : b = "/")
      name == SubSeq(text, 2, first - 1)
  IN IF name \in DOMAIN Homes
     THEN Homes[name] \o <<"/">> \o SubSeq(text, first + 1, Len(text))
     ELSE <<"none">>

Path(dirname) ==
  CASE dirname = <<>> -> <<".", "/">>
    [] dirname # <<>> /\ dirname[1] = "~" -> TildeExpand(dirname)
    [] OTHER -> dirname

\* FilenameCompletionState
NoScan == [open |-> FALSE, left |-> <<>>, dirname |-> <<>>, filename |-> <<>>]

Opened(text) ==
  LET path == Path(Dirname(text))
      open == path \in DOMAIN Directories
  IN [open |-> open, left |-> IF open THEN Directories[path] ELSE <<>>,
      dirname |-> Dirname(text), filename |-> Filename(text)]

Unreadable == <<"unreadable">>
Offered(entry, filename) ==
  /\ entry # Unreadable /\ IsText(entry) /\ entry \notin {<<".">>, <<".", ".">>}
  /\ IsPrefix(filename, entry)

\* What is left of a directory, from the next entry that is offered on.
NextOffered(here, at) ==
  IF here.open /\ at # 0 /\ here.left[at] # Unreadable
  THEN [scan |-> [here EXCEPT !.left = SubSeq(@, at + 1, Len(@))],
        match |-> here.dirname \o here.left[at]]
  ELSE [scan |-> [here EXCEPT !.open = FALSE, !.left = <<>>], match |-> <<>>]
NextMatch(here) ==
  NextOffered(here, SelectInSeq(here.left, LAMBDA e : e = Unreadable \/ Offered(e, here.filename)))

\* Mutant: the scan that was left open goes on.
Continues(scan, text, state) == NextMatch(IF ~scan.open THEN Opened(text) ELSE scan)

\* filename_completion: the next match, or <<>> and the scan is over.  An account
\* nobody has leaves the scan as it was.
FilenameCompletion(scan, text, state) ==
  LET anew == state = 0 \/ ~scan.open
  IN IF anew /\ Path(Dirname(text)) = <<"none">> THEN [scan |-> scan, match |-> <<>>]
     ELSE NextMatch(IF anew THEN Opened(text) ELSE scan)

\* collect_candidates over a generator that keeps a scan: until it answers nothing.
CollectCandidates(scan, text) ==
  LET longest == Max({Len(Directories[d]) : d \in DOMAIN Directories}) + 1
      taken(s, next) ==
        [scan |-> next.scan, done |-> next.match = <<>>,
         found |-> IF next.match = <<>> THEN s.found ELSE Append(s.found, next.match)]
      step(s, k) == IF s.done THEN s ELSE taken(s, FilenameCompletion(s.scan, text, k - 1))
  IN FoldLeft(step, [scan |-> scan, done |-> FALSE, found |-> <<>>], [k \in 1..longest |-> k]).found

-----------------------------------------------------------------------------
\* The arrays.  The first element stands for the matches behind it.

Common(a, b) == Max({n \in 0..Min({Len(a), Len(b)}) : SubSeq(a, 1, n) = SubSeq(b, 1, n)})
Boundary(name, n) == n = Len(name) \/ name[n + 1] \notin More

\* Mutant: each candidate is compared with the first one only.
LastPrefix(candidates) ==
  LET first == candidates[1]
      length == FoldLeft(LAMBDA n, c : Common(first, c), Len(first), Tail(candidates))
  IN SubSeq(first, 1, Max({n \in 0..length : Boundary(first, n)}))

\* matches_with_common_prefix: what all begin with, cut at a character.
CommonPrefix(candidates) ==
  LET first == candidates[1]
      length == FoldLeft(LAMBDA n, c : Min({n, Common(first, c)}), Len(first), Tail(candidates))
  IN SubSeq(first, 1, Max({n \in 0..length : Boundary(first, n)}))

CompletionMatches(found) ==
  LET candidates == [k \in DOMAIN found |-> Lossy(found[k])]
  IN IF found = <<>> THEN <<>> ELSE <<CommonPrefix(candidates)>> \o candidates

\* The matches are sorted by where their memory lies, which is any order; the first
\* element is what every two neighbours share, or the text when that is nothing.
RlCompletionMatches(text, found, order) ==
  LET sorted == [k \in DOMAIN found |-> found[order[k]]]
      shared == Min({Common(sorted[k], sorted[k + 1]) : k \in 1..(Len(found) - 1)})
  IN CASE found = <<>> -> <<>>
       [] Len(found) = 1 -> <<found[1], found[1]>>
       [] OTHER -> <<IF shared = 0 /\ text # <<>> THEN text ELSE SubSeq(sorted[1], 1, shared)>> \o sorted

\* call_attempted: what a completion hook's array says.
HookCandidates(array) ==
  LET owned == [k \in DOMAIN array |-> Lossy(array[k])]
  IN IF Len(owned) > 1 THEN Tail(owned) ELSE owned

\* Whose candidates a completion takes: the hook's, or the generator's when there is
\* no hook or it found nothing and does not forbid it.
Candidates(hook, array, over, generated) ==
  CASE hook = "found" -> HookCandidates(array)
    [] hook = "nothing" /\ over -> <<>>
    [] OTHER -> [k \in DOMAIN generated |-> Lossy(generated[k])]

\* rl_complete: a completion that is inhibited inserts its key instead; any other that
\* finds a word to complete forgets that the hook forbade the generator.
RlComplete(inhibited, hook, array, over, generated) ==
  IF inhibited THEN [does |-> "insert", candidates |-> <<>>, over |-> over]
  ELSE [does |-> "complete", candidates |-> Candidates(hook, array, over, generated), over |-> FALSE]

-----------------------------------------------------------------------------
\* The list.

Lower(name) == [i \in DOMAIN name |-> IF name[i] = "A" THEN "a" ELSE name[i]]
Less(a, b) ==
  LET n == Common(a, b)
  IN Len(b) > n /\ (Len(a) = n \/ Rank[a[n + 1]] < Rank[b[n + 1]])

\* A stable sort without regard to case.
Sorted(names) ==
  LET Behind(i, j) == \/ Less(Lower(names[j]), Lower(names[i]))
                      \/ Lower(names[j]) = Lower(names[i]) /\ j < i
  IN [k \in DOMAIN names |->
       names[CHOOSE i \in DOMAIN names : Cardinality({j \in DOMAIN names : Behind(i, j)}) = k - 1]]

\* format_match_list: the lines, each with the places in the sorted list it shows.
Layout(n, width, columns) ==
  LET perLine == Max({columns \div (width + 2), 1})
      lines == (n + perLine - 1) \div perLine
  IN [l \in 1..lines |-> SelectSeq([c \in 1..perLine |-> l + (c - 1) * lines], LAMBDA i : i <= n)]

\* permute_to_match: the caller's array, from its second element, in the list's order.
PermuteToMatch(matches, sorted) ==
  LET step(s, i) ==
        LET free == {j \in 2..Len(matches) : j \notin s.used /\ s.matches[j] = sorted[i]}
            j == Min(free)
        IN IF free = {} THEN s
           ELSE [matches |-> [s.matches EXCEPT ![i] = s.matches[j], ![j] = s.matches[i]],
                 used |-> {i} \cup {IF u = i THEN j ELSE u : u \in s.used}]
  IN FoldLeft(step, [matches |-> matches, used |-> {}], [k \in 1..(Len(sorted) - 1) |-> k + 1]).matches

\* rl_display_match_list: a list of so many as the array holds.
DisplayMatchList(array, len) ==
  LET shown == SubSeq(array, 1, Min({len + 1, Len(array)}))
      names == [k \in 1..(Len(shown) - 1) |-> Lossy(shown[k + 1])]
  IN PermuteToMatch(shown, <<shown[1]>> \o Sorted(names)) \o SubSeq(array, Len(shown) + 1, Len(array))

\* fn_display_match_list: its count has the first element too.
FnDisplayMatchList(array, num) == IF num = 0 THEN array ELSE DisplayMatchList(array, num - 1)

-----------------------------------------------------------------------------
\* However a scan was left, and by whatever text, the next completion finds every
\* name of the directory it is about, once and in the directory's order.
ScansAfresh(calls, text) ==
  LET left == FoldLeft(LAMBDA s, call : FilenameCompletion(s, call.text, call.state).scan, NoScan, calls)
      path == Path(Dirname(text))
      entries == IF path \in DOMAIN Directories THEN Directories[path] ELSE <<>>
      readable == SelectInSeq(entries, LAMBDA e : e = Unreadable)
      all == IF readable = 0 THEN entries ELSE SubSeq(entries, 1, readable - 1)
      offered == SelectSeq(all, LAMBDA e : Offered(e, Filename(text)))
  IN CollectCandidates(left, text) = [k \in DOMAIN offered |-> Dirname(text) \o offered[k]]

Permutation(a, b) ==
  /\ Len(a) = Len(b)
  /\ \A x \in ToSet(a) \cup ToSet(b) :
       Cardinality({k \in DOMAIN a : a[k] = x}) = Cardinality({k \in DOMAIN b : b[k] = x})

Orders(found) == {o \in [DOMAIN found -> DOMAIN found] : ToSet(o) = DOMAIN found}
InOrder(found, order) ==
  \A i, j \in DOMAIN found : i < j => ~Less(found[order[j]], found[order[i]])

\* Whatever order their memory puts them in, all matches are in the array, and it
\* begins with the longest text all begin with when that order is theirs too (of other
\* orders the comment at readline.rs:3716 says that they corrupt it); nothing but text of whole characters is inserted by
\* completion_matches; and a completion takes the same matches whether a hook found
\* them or the generator does.
ArraysAgree(text, found) ==
  LET shared == LongestCommonPrefix(ToSet(found))
      lossy == [k \in DOMAIN found |-> Lossy(found[k])]
      whole == LongestCommonPrefix(ToSet(lossy))
      array == CompletionMatches(found)
  IN /\ \A order \in Orders(found) :
          LET matches == RlCompletionMatches(text, found, order)
          IN /\ InOrder(found, order) =>
                  matches[1] = IF shared = <<>> /\ text # <<>> /\ Len(found) > 1 THEN text ELSE shared
             /\ Permutation(Tail(matches), found)
             /\ Permutation(RlComplete(FALSE, "found", matches, TRUE, <<>>).candidates, lossy)
     /\ array[1] = IF IsText(whole) THEN whole ELSE Front(whole)
     /\ \A over \in BOOLEAN :
          LET hooked == RlComplete(FALSE, "found", array, over, <<>>)
              fallback == RlComplete(FALSE, "nothing", <<>>, hooked.over, found)
          IN hooked = fallback

\* A displayed list shows every match once, and leaves the caller with the matches
\* it had, in the order shown when they are text.
ListIsWhole(found) ==
  /\ \A width \in 0..3, columns \in 1..12 :
       Permutation(FlattenSeq(Layout(Len(found), width, columns)), [k \in DOMAIN found |-> k])
  /\ \A len \in 0..(Len(found) + 1) :
       LET array == <<<<"a">>>> \o found
           after == FnDisplayMatchList(array, len + 1)
           shown == Min({len, Len(found)})
       IN /\ Permutation(after, array) /\ after[1] = array[1]
          /\ SubSeq(after, shown + 2, Len(array)) = SubSeq(array, shown + 2, Len(array))
          /\ (\A k \in DOMAIN found : IsText(found[k])) =>
               \A k \in 2..shown : ~Less(Lower(after[k + 1]), Lower(after[k]))
=============================================================================
