---------------------------- MODULE InputProofs ----------------------------
(***************************************************************************)
(* Proofs about four components that are checked together: the modes of a  *)
(* terminal, the history recalled into a line, the input decoder, and the  *)
(* view a handle has of its terminal.                                      *)
(***************************************************************************)
EXTENDS TerminalModes, HostHistory, InputDecoder, TerminalView,
        SequenceTheorems, WellFoundedInduction, TLAPS

(***************************************************************************)
(* Terminal modes, for any attributes a terminal may have, any settys and  *)
(* any number of them.  What an argument does to the attributes (AsSet) is *)
(* not looked into: the proofs hold for every meaning it has.              *)
(***************************************************************************)
(* The mode in force is one of the three, and a session that captured       *)
(* attributes captured those of each mode.                                  *)
ModesKept ==
  /\ active \in Modes
  /\ attributes # NoAttributes => DOMAIN attributes = Modes
  /\ session = "none" => attributes = NoAttributes

ModesInv == ModesKept /\ DeviceShowsMode

LEMMA ModesInit == Init => ModesInv
  BY DEF Init, ModesInv, ModesKept, DeviceShowsMode, Modes

(* Opening: the attributes of all three modes come from what the device has. *)
LEMMA OpenKeeps ==
  ASSUME ModesInv,
         OpenWithoutTerminal \/ OpenFails \/ \E done \in BOOLEAN : OpenOnTerminal(done)
  PROVE  ModesInv'
<1> USE DEF ModesInv, ModesKept, DeviceShowsMode
<1>1. DOMAIN Captured = Modes /\ Captured["cooked"] = device
  BY DEF Captured, Modes
<1>2. CASE OpenWithoutTerminal
  BY <1>2 DEF OpenWithoutTerminal
<1>3. CASE OpenFails
  BY <1>1, <1>3 DEF OpenFails, Modes
<1>4. CASE \E done \in BOOLEAN : OpenOnTerminal(done)
  BY <1>1, <1>4 DEF OpenOnTerminal, Modes
<1> QED
  BY <1>2, <1>3, <1>4

(* Another mode is entered: its attributes reach the device or nothing does. *)
LEMMA EnterKeeps ==
  ASSUME ModesInv, NEW mode \in Modes, NEW done \in BOOLEAN, EnterMode(mode, done)
  PROVE  ModesInv'
  BY DEF ModesInv, ModesKept, DeviceShowsMode, EnterMode, Applied

(* setty changes one mode; only when that mode is in force has the device    *)
(* to follow.                                                                *)
LEMMA SetTtyKeeps ==
  ASSUME ModesInv, NEW mode \in Modes, NEW args \in Settings, NEW done \in BOOLEAN,
         SetTty(mode, args, done)
  PROVE  ModesInv'
<1> USE DEF ModesInv, ModesKept, DeviceShowsMode, SetTty
<1>1. CASE attributes = NoAttributes
  BY <1>1
<1>2. CASE attributes # NoAttributes
  <2> DEFINE set == AsSet(mode, args)
  <2>1. attributes' = [attributes EXCEPT ![mode] = set]
    BY <1>2
  <2> HIDE DEF set
  <2>2. /\ DOMAIN attributes' = Modes /\ attributes'[mode] = set
        /\ \A m \in Modes \ {mode} : attributes'[m] = attributes[m]
    BY <1>2, <2>1
  <2>3. active' = active /\ session' = "open" /\ session = "open"
    OBVIOUS
  <2>4. CASE ~InForce(mode)
    <3>1. device' = device /\ behind' = behind
      BY <1>2, <2>4
    <3> QED
      BY <1>2, <2>2, <2>3, <2>4, <3>1 DEF InForce
  <2>5. CASE InForce(mode) /\ Known(args)
    <3>1. behind' \/ device' = attributes'[mode]
      BY <1>2, <2>5 DEF Applied
    <3> QED
      BY <2>2, <2>3, <2>5, <3>1 DEF InForce
  <2>6. CASE InForce(mode) /\ ~Known(args)
    <3>1. device' = device /\ behind' = (behind \/ attributes'[mode] # attributes[mode])
      BY <1>2, <2>6
    <3> QED
      BY <1>2, <2>2, <2>3, <2>6, <3>1 DEF InForce
  <2> QED
    BY <2>4, <2>5, <2>6
<1> QED
  BY <1>1, <1>2

LEMMA FinishKeeps ==
  ASSUME ModesInv, NEW done \in BOOLEAN, Restore(done)
  PROVE  ModesInv'
  BY DEF ModesInv, ModesKept, DeviceShowsMode, Restore

LEMMA ModesStep == ModesInv /\ [Next]_ttyVars => ModesInv'
<1> SUFFICES ASSUME ModesInv, [Next]_ttyVars PROVE ModesInv'
  OBVIOUS
<1>1. CASE OpenWithoutTerminal \/ OpenFails \/ \E done \in BOOLEAN : OpenOnTerminal(done)
  BY <1>1, OpenKeeps
<1>2. ASSUME NEW done \in BOOLEAN, Restore(done) PROVE ModesInv'
  BY <1>2, FinishKeeps
<1>3. ASSUME NEW done \in BOOLEAN, NEW mode \in Modes, EnterMode(mode, done) PROVE ModesInv'
  BY <1>3, EnterKeeps
<1>4. ASSUME NEW done \in BOOLEAN, NEW mode \in Modes, NEW args \in Settings,
             SetTty(mode, args, done) PROVE ModesInv'
  BY <1>4, SetTtyKeeps
<1>5. CASE UNCHANGED ttyVars
  BY <1>5 DEF ttyVars, ModesInv, ModesKept, DeviceShowsMode
<1> QED
  BY <1>1, <1>2, <1>3, <1>4, <1>5 DEF Next

(* Whatever setty changes and whichever calls fail, the device has the       *)
(* attributes of the mode in force unless the last change meant for it did   *)
(* not reach it (AbiTerminal::set_mode, EditLine::set_tty_modes).            *)
THEOREM DeviceFollowsMode == Spec => []DeviceShowsMode
<1>1. ModesInv => DeviceShowsMode
  BY DEF ModesInv
<1> QED
  BY <1>1, ModesInit, ModesStep, PTL DEF Spec

(***************************************************************************)
(* Numbers: the least of a set, the greatest of a bounded one, and         *)
(* induction from the end of a sequence towards its start.                 *)
(***************************************************************************)

LEMMA LeastElement ==
  ASSUME NEW T \in SUBSET Nat, T # {}
  PROVE  \E n \in T : \A m \in T : n <= m
<1> DEFINE Lt == {ss \in Nat \X Nat : ss[1] < ss[2]}
<1>1. IsWellFoundedOn(Lt, Nat)
  BY NatLessThanWellFounded DEF OpToRel
<1>2. PICK x \in T : \A y \in T : ~(<<y, x>> \in Lt)
  <2> HIDE DEF Lt
  <2> QED
    BY ONLY <1>1, T \in SUBSET Nat, T # {}, WFMin
<1>3. \A y \in T : x <= y
  <2> TAKE y \in T
  <2>1. x \in Nat /\ y \in Nat /\ ~(<<y, x>> \in Lt)
    BY <1>2
  <2> QED
    BY <2>1
<1> QED
  BY <1>3

LEMMA GreatestElement ==
  ASSUME NEW n \in Nat, NEW T \in SUBSET (0 .. n), T # {}
  PROVE  \E m \in T : \A k \in T : k <= m
<1> DEFINE U == {d \in 0 .. n : n - d \in T}
<1>1. U \in SUBSET Nat /\ U # {}
  <2>1. PICK k \in T : TRUE
    OBVIOUS
  <2>2. n - k \in 0 .. n /\ n - (n - k) = k
    OBVIOUS
  <2>3. n - k \in U
    BY <2>2
  <2>4. U \in SUBSET Nat
    OBVIOUS
  <2> HIDE DEF U
  <2> QED
    BY <2>3, <2>4
<1>2. PICK d \in U : \A e \in U : d <= e
  <2> HIDE DEF U
  <2> QED
    BY <1>1, LeastElement
<1>3. \A k \in T : k <= n - d
  <2> TAKE k \in T
  <2>1. n - k \in 0 .. n /\ n - (n - k) = k
    OBVIOUS
  <2>2. n - k \in U
    BY <2>1
  <2> QED
    BY <1>2, <2>2
<1> QED
  BY <1>2, <1>3

LEMMA MinIsLeast ==
  ASSUME NEW T \in SUBSET Nat, T # {}
  PROVE  Min(T) \in T /\ \A m \in T : Min(T) <= m
  BY LeastElement DEF Min

LEMMA MaxIsGreatest ==
  ASSUME NEW n \in Nat, NEW T \in SUBSET (0 .. n), T # {}
  PROVE  Max(T) \in T /\ \A m \in T : Max(T) >= m
<1>1. \E m \in T : \A k \in T : m >= k
  <2>1. PICK m \in T : \A k \in T : k <= m
    BY GreatestElement
  <2> QED
    BY <2>1
<1> QED
  BY <1>1 DEF Max

LEMMA MinOfTwo ==
  ASSUME NEW a \in Nat, NEW b \in Nat
  PROVE  Min({a, b}) = IF a <= b THEN a ELSE b
  BY MinIsLeast, {a, b} \in SUBSET Nat

LEMMA Descends ==
  ASSUME NEW n \in Nat, NEW T \in SUBSET (1 .. n + 1), n + 1 \in T,
         \A k \in 1 .. n : (k + 1) .. (n + 1) \subseteq T => k \in T
  PROVE  T = 1 .. n + 1
<1> DEFINE U == {d \in 0 .. n : n + 1 - d \notin T}
<1> SUFFICES ASSUME U # {} PROVE FALSE
  <2> SUFFICES ASSUME NEW k \in 1 .. n + 1, k \notin T PROVE FALSE
    OBVIOUS
  <2>1. n + 1 - k \in 0 .. n /\ n + 1 - (n + 1 - k) = k
    OBVIOUS
  <2> QED
    BY <2>1
<1>1. PICK d \in U : \A e \in U : d <= e
  <2>1. U \in SUBSET Nat
    OBVIOUS
  <2> HIDE DEF U
  <2> QED
    BY <2>1, LeastElement
<1>2. d # 0 /\ n + 1 - d \in 1 .. n
  BY <1>1
<1>3. ((n + 1 - d) + 1) .. (n + 1) \subseteq T
  <2> SUFFICES ASSUME NEW k \in ((n + 1 - d) + 1) .. (n + 1), k \notin T PROVE FALSE
    OBVIOUS
  <2>1. n + 1 - k \in 0 .. n /\ n + 1 - (n + 1 - k) = k /\ n + 1 - k < d
    BY <1>1
  <2>2. n + 1 - k \in U
    BY <2>1
  <2> QED
    BY <1>1, <2>1, <2>2
<1> QED
  BY <1>1, <1>2, <1>3

(***************************************************************************)
(* Recalled history, for any configurations, first histories and counts.   *)
(***************************************************************************)

(* The depth is one the history has, when it has any events at all; away    *)
(* from the line being typed, that line is the one the adapter saved.       *)
RecallInv ==
  /\ depth \in Nat
  /\ \E S : past \in Seq(S)
  /\ past # <<>> => depth <= Len(past)
  /\ depth # 0 => saved = typed

LEMMA PastIsCounted ==
  ASSUME RecallInv
  PROVE  /\ Len(past) \in Nat /\ DOMAIN past = 1 .. Len(past)
         /\ past # <<>> <=> Len(past) # 0
<1>1. PICK S : past \in Seq(S)
  BY DEF RecallInv
<1> QED
  BY <1>1, EmptySeq, LenProperties

LEMMA RecallStarts == ASSUME RecallAssumption, RecallInit PROVE RecallInv
<1>1. past \in Seq({past[k] : k \in DOMAIN past})
  BY DEF RecallAssumption, RecallInit
<1>2. \E S : past \in Seq(S)
  BY <1>1
<1> QED
  BY <1>2 DEF RecallInit, RecallInv

(* What an answer of the adapter may be: it stays where it is, it goes to   *)
(* the line being typed, or it goes to an event and shows that event.  An   *)
(* Emacs line over no history goes anywhere.                                *)
Fit(a) ==
  /\ a.depth \in Nat
  /\ a.depth # 0 => a.saved = LiveLine
  /\ past # <<>> /\ a.depth \notin {depth, 0} =>
       a.depth \in DOMAIN past /\ a.selection = Entry(HistoryItem(a.depth))

LEMMA AnswerFields ==
  ASSUME NEW d, NEW s, NEW selection
  PROVE  /\ Answer(d, s, selection).depth = d /\ Answer(d, s, selection).saved = s
         /\ Answer(d, s, selection).selection = selection
  BY DEF Answer

LEMMA Fetched ==
  ASSUME RecallInv, NEW d \in Nat
  PROVE  /\ FetchHistory(d).reached = IF d <= Len(past) THEN d ELSE Len(past)
         /\ past # <<>> => FetchHistory(d).line = HistoryItem(FetchHistory(d).reached)
<1> DEFINE m == Min({d, Len(past)})
<1>1. Len(past) \in Nat /\ (past # <<>> <=> Len(past) # 0)
  BY PastIsCounted
<1>2. m = IF d <= Len(past) THEN d ELSE Len(past)
  BY <1>1, MinOfTwo
<1>3. CASE past = <<>>
  <2>1. FetchHistory(d).reached = 0
    BY <1>3 DEF FetchHistory
  <2> QED
    BY <1>1, <1>3, <2>1
<1>4. CASE past # <<>>
  <2>1. FetchHistory(d) = [reached |-> m, line |-> HistoryItem(m)]
    BY <1>4 DEF FetchHistory
  <2> HIDE DEF m
  <2>2. FetchHistory(d).reached = m /\ FetchHistory(d).line = HistoryItem(m)
    BY <2>1
  <2> QED
    BY <1>2, <2>2
<1> QED
  BY <1>3, <1>4

LEMMA OlderFits ==
  ASSUME RecallInv, NEW count \in Nat
  PROVE  Fit(Older(count))
<1> DEFINE requested == depth + count
           fetched == FetchHistory(requested)
           selected == CASE config.editing = "vi" -> depth
                         [] fetched.reached = 0 -> requested
                         [] OTHER -> fetched.reached
           retried == FetchHistory(selected)
           offered == CASE selected = 0 -> Entry(LiveLine)
                      [] selected # 0 /\ retried.reached = 0 -> Unchanged
                      [] OTHER -> Entry(retried.line)
<1>1. Older(count) = IF fetched.reached = requested
                     THEN Answer(requested, LiveLine, Entry(fetched.line))
                     ELSE Answer(selected, LiveLine, offered)
  BY Zenon DEF Older
<1>2. /\ depth \in Nat /\ requested \in Nat /\ Len(past) \in Nat
      /\ DOMAIN past = 1 .. Len(past) /\ (past # <<>> <=> Len(past) # 0)
  BY PastIsCounted DEF RecallInv
<1>3. /\ fetched.reached = IF requested <= Len(past) THEN requested ELSE Len(past)
      /\ past # <<>> => fetched.line = HistoryItem(fetched.reached)
  BY <1>2, Fetched
<1>4. CASE fetched.reached = requested
  <2> HIDE DEF requested, fetched
  <2>1. Older(count) = Answer(requested, LiveLine, Entry(fetched.line))
    BY <1>1, <1>4
  <2>2. /\ Older(count).depth = requested /\ Older(count).saved = LiveLine
        /\ Older(count).selection = Entry(fetched.line)
    BY <2>1, AnswerFields
  <2>3. past # <<>> /\ requested # 0 => requested \in DOMAIN past /\ fetched.line = HistoryItem(requested)
    BY <1>2, <1>3, <1>4
  <2> QED
    BY <1>2, <2>2, <2>3 DEF Fit
<1>5. CASE fetched.reached # requested
  <2> HIDE DEF requested
  <2>1. \/ selected = depth
        \/ fetched.reached = 0 /\ selected = requested
        \/ fetched.reached # 0 /\ selected = fetched.reached
    OBVIOUS
  <2> HIDE DEF fetched
  <2>2. selected \in Nat
    BY <1>2, <1>3, <2>1
  <2>3. past # <<>> /\ selected \notin {depth, 0} => selected = Len(past)
    BY <1>2, <1>3, <1>5, <2>1
  <2> HIDE DEF selected
  <2>4. /\ retried.reached = IF selected <= Len(past) THEN selected ELSE Len(past)
        /\ past # <<>> => retried.line = HistoryItem(retried.reached)
    BY <2>2, Fetched
  <2>5. past # <<>> /\ selected \notin {depth, 0} => retried.reached = selected /\ retried.reached # 0
    BY <1>2, <2>2, <2>3, <2>4
  <2> HIDE DEF retried
  <2>6. past # <<>> /\ selected \notin {depth, 0} => offered = Entry(HistoryItem(selected))
    BY <2>4, <2>5
  <2> HIDE DEF offered
  <2>7. Older(count) = Answer(selected, LiveLine, offered)
    BY <1>1, <1>5
  <2>8. /\ Older(count).depth = selected /\ Older(count).saved = LiveLine
        /\ Older(count).selection = offered
    BY <2>7, AnswerFields
  <2>9. past # <<>> /\ selected \notin {depth, 0} => selected \in DOMAIN past
    BY <1>2, <2>2, <2>3
  <2> QED
    BY <2>2, <2>6, <2>8, <2>9 DEF Fit
<1> QED
  BY <1>4, <1>5

(* Newer: the plain way back; it ends with the saved line or on an event.   *)
LEMMA NewerFits ==
  ASSUME RecallInv, NEW count \in Nat \ {0}
  PROVE  /\ Fit(Newer(count))
         /\ depth # 0 /\ Newer(count).depth = 0 => Newer(count).selection = Entry(saved)
<1> DEFINE requested == depth - count
           fetched == FetchHistory(requested)
<1>0. depth \in Nat /\ (depth # 0 => saved = LiveLine)
  BY DEF RecallInv, LiveLine
<1>1. CASE count >= depth
  <2>1. Newer(count) = Answer(0, saved, Entry(saved))
    BY <1>1 DEF Newer
  <2> QED
    BY <2>1, AnswerFields DEF Fit
<1>2. CASE ~(count >= depth)
  <2>1. Newer(count) = IF fetched.reached = requested THEN Answer(requested, saved, Entry(fetched.line))
                       ELSE Answer(IF fetched.reached = 0 THEN depth ELSE fetched.reached, saved, Unchanged)
    BY <1>2, Zenon DEF Newer
  <2>2. /\ requested \in Nat \ {0} /\ depth # 0 /\ requested < depth /\ Len(past) \in Nat
        /\ DOMAIN past = 1 .. Len(past) /\ (past # <<>> <=> Len(past) # 0)
    <3>1. requested \in Nat \ {0} /\ depth # 0 /\ requested < depth
      BY <1>0, <1>2
    <3> QED
      BY <3>1, PastIsCounted
  <2>3. /\ fetched.reached = IF requested <= Len(past) THEN requested ELSE Len(past)
        /\ past # <<>> => fetched.line = HistoryItem(fetched.reached)
    BY <2>2, Fetched
  <2>4. past # <<>> => depth <= Len(past)
    BY DEF RecallInv
  <2> HIDE DEF requested, fetched
  <2>5. CASE fetched.reached = requested
    <3>1. Newer(count) = Answer(requested, saved, Entry(fetched.line))
      BY <2>1, <2>5
    <3>2. /\ Newer(count).depth = requested /\ Newer(count).saved = saved
          /\ Newer(count).selection = Entry(fetched.line)
      BY <3>1, AnswerFields
    <3>3. past # <<>> => requested \in DOMAIN past /\ fetched.line = HistoryItem(requested)
      BY <2>2, <2>3, <2>5
    <3> QED
      BY <1>0, <2>2, <3>2, <3>3 DEF Fit
  <2>6. CASE fetched.reached # requested
    <3>1. past = <<>> /\ fetched.reached = 0
      <4>1. past # <<>> => requested <= Len(past)
        BY <1>0, <2>2, <2>4
      <4>2. past = <<>>
        BY <2>2, <2>3, <2>6, <4>1
      <4> QED
        BY <2>2, <2>3, <4>2
    <3>2. Newer(count) = Answer(depth, saved, Unchanged)
      BY <2>1, <2>6, <3>1
    <3>3. Newer(count).depth = depth /\ Newer(count).saved = saved
      BY <3>2, AnswerFields
    <3> QED
      BY <1>0, <2>2, <3>1, <3>3 DEF Fit
  <2> QED
    BY <2>5, <2>6
<1> QED
  BY <1>1, <1>2

(* An answer that is no movement between events fits whatever it shows.     *)
LEMMA StaysFit ==
  ASSUME RecallInv, NEW selection
  PROVE  Fit(Answer(depth, LiveLine, selection)) /\ Fit(Answer(0, LiveLine, selection))
<1>1. depth \in Nat
  BY DEF RecallInv
<1> QED
  BY <1>1, AnswerFields DEF Fit

LEMMA EventFits ==
  ASSUME RecallInv, NEW k \in DOMAIN past
  PROVE  Fit(Answer(k, LiveLine, Entry(HistoryItem(k))))
<1>1. k \in Nat
  BY PastIsCounted
<1> QED
  BY <1>1, AnswerFields DEF Fit

LEMMA SearchFits ==
  ASSUME RecallInv, NEW direction, NEW pattern
  PROVE  Fit(HostHistorySearch(direction, pattern))
<1> DEFINE older == {k \in ((depth + 1) .. Len(past)) \cap DOMAIN past :
                       HistoryMatches(HistoryItem(k), pattern)}
           newer == {k \in (1 .. (depth - 1)) \cap DOMAIN past :
                       HistoryMatches(HistoryItem(k), pattern)}
           At(k) == Answer(k, LiveLine, Entry(HistoryItem(k)))
           A == Answer(0, saved, Live)
           B == Answer(depth, LiveLine, Unchanged)
<1>1. HostHistorySearch(direction, pattern) =
        CASE direction = "previous" /\ older # {} -> At(Min(older))
          [] direction = "next" /\ newer # {} -> At(Max(newer))
          [] direction = "next" /\ newer = {} /\ depth # 0 /\ HistoryMatches(saved, pattern) -> A
          [] OTHER -> B
  BY Zenon DEF HostHistorySearch
<1>2. Len(past) \in Nat /\ DOMAIN past = 1 .. Len(past)
  BY PastIsCounted
<1>3. older # {} => Min(older) \in DOMAIN past
  <2>1. older \in SUBSET Nat /\ older \subseteq DOMAIN past
    BY <1>2
  <2> HIDE DEF older
  <2> QED
    BY <2>1, MinIsLeast
<1>4. newer # {} => Max(newer) \in DOMAIN past
  <2>1. newer \in SUBSET (0 .. Len(past)) /\ newer \subseteq DOMAIN past
    BY <1>2
  <2> HIDE DEF newer
  <2> QED
    BY <1>2, <2>1, MaxIsGreatest
<1>5. Fit(B)
  BY StaysFit
<1>6. depth # 0 => Fit(A)
  BY StaysFit DEF LiveLine
<1>7. older # {} => Fit(At(Min(older)))
  BY <1>3, EventFits
<1>8. newer # {} => Fit(At(Max(newer)))
  BY <1>4, EventFits
<1> HIDE DEF older, newer, At, A, B
<1>9. \/ older # {} /\ HostHistorySearch(direction, pattern) = At(Min(older))
      \/ newer # {} /\ HostHistorySearch(direction, pattern) = At(Max(newer))
      \/ depth # 0 /\ HostHistorySearch(direction, pattern) = A
      \/ HostHistorySearch(direction, pattern) = B
  BY <1>1
<1> QED
  BY <1>5, <1>6, <1>7, <1>8, <1>9

LEMMA LineFits ==
  ASSUME RecallInv, NEW position
  PROVE  Fit(HostHistoryLine(position))
<1> DEFINE Named == IF position = Unnumbered THEN {k \in DOMAIN past : k = Len(past)}
                    ELSE {k \in DOMAIN past : past[k].number = position}
           narrow == position # Unnumbered /\ config.encoding = "narrow"
           A == Answer(0, LiveLine, Live)
           first == IF past = <<>> THEN Unchanged ELSE Entry(HistoryItem(1))
           B == Answer(depth, LiveLine, first)
           C == Answer(depth, LiveLine, Unchanged)
           D == Answer(Min(Named), LiveLine, Entry(HistoryItem(Min(Named))))
<1>1. HostHistoryLine(position) = CASE narrow -> (IF position = 1 THEN A ELSE B)
                                    [] Named = {} -> C
                                    [] OTHER -> D
  BY Zenon DEF HostHistoryLine
<1>2. DOMAIN past \subseteq Nat
  BY PastIsCounted
<1>3. Named # {} => Fit(D)
  <2>1. Named \in SUBSET Nat /\ Named \subseteq DOMAIN past
    BY <1>2
  <2> HIDE DEF Named
  <2>2. Named # {} => Min(Named) \in DOMAIN past
    BY <2>1, MinIsLeast
  <2> QED
    BY <2>2, EventFits
<1>4. Fit(A) /\ Fit(B) /\ Fit(C)
  <2> HIDE DEF first
  <2> QED
    BY StaysFit
<1> HIDE DEF Named, narrow, A, first, B, C, D
<1>5. \/ HostHistoryLine(position) \in {A, B, C}
      \/ Named # {} /\ HostHistoryLine(position) = D
  BY <1>1
<1> QED
  BY <1>3, <1>4, <1>5


LEMMA ShownEntry ==
  ASSUME NEW text, NEW current, NEW at, ApplyHistoryResponse(Entry(text), current, at)
  PROVE  line' = text
<1>1. Entry(text) # Unchanged /\ Entry(text) # Live
  <2>1. Entry(text).what = "entry" /\ Unchanged.what = "unchanged" /\ Live.what = "live"
    BY DEF Entry, Unchanged, Live
  <2> QED
    BY <2>1
<1>2. Entry(text).line = text
  BY DEF Entry
<1> HIDE DEF Entry
<1>3. line' = Entry(text).line
  BY <1>1 DEF ApplyHistoryResponse
<1> QED
  BY <1>2, <1>3

(* The invariant and the first half of the property, for a command that     *)
(* adopts an answer that fits or refuses.                                   *)
Fits == /\ RecallInv'
        /\ depth' \notin {depth, 0} /\ past # <<>> =>
             depth' \in DOMAIN past /\ line' = HistoryItem(depth')

LEMMA StillFits ==
  ASSUME RecallInv, past' = past, depth' = depth, saved' = saved,
         typed' = (IF depth = 0 THEN line ELSE typed)
  PROVE  Fits
  BY DEF RecallInv, Fits

LEMMA AdoptFits ==
  ASSUME RecallInv, NEW a, NEW current, NEW at, Fit(a), Adopt(a, current, at),
         past' = past, typed' = (IF depth = 0 THEN line ELSE typed)
  PROVE  Fits
<1>1. /\ depth' = a.depth /\ saved' = a.saved
      /\ ApplyHistoryResponse(a.selection, current, at)
  BY DEF Adopt
<1>2. depth' \notin {depth, 0} /\ past # <<>> =>
        depth' \in DOMAIN past /\ line' = HistoryItem(depth')
  <2> SUFFICES ASSUME depth' \notin {depth, 0}, past # <<>>
               PROVE  depth' \in DOMAIN past /\ line' = HistoryItem(depth')
    OBVIOUS
  <2>1. depth' \in DOMAIN past /\ a.selection = Entry(HistoryItem(depth'))
    BY <1>1 DEF Fit
  <2>2. ApplyHistoryResponse(Entry(HistoryItem(depth')), current, at)
    BY <1>1, <2>1
  <2> QED
    BY <2>1, <2>2, ShownEntry
<1>3. depth' \in Nat /\ (depth' # 0 => saved' = typed')
  BY <1>1 DEF Fit, RecallInv, LiveLine
<1>4. past # <<>> => depth' <= Len(past)
  BY <1>2, PastIsCounted DEF RecallInv
<1>5. (\E S : past \in Seq(S))'
  BY DEF RecallInv
<1> QED
  BY <1>2, <1>3, <1>4, <1>5 DEF Fits, RecallInv

LEMMA AnswerOrFits ==
  ASSUME RecallInv, NEW a, NEW current, NEW at, Fit(a), AnswerOr(a, current, at), Command
  PROVE  Fits
<1>1. past' = past /\ typed' = (IF depth = 0 THEN line ELSE typed)
  BY DEF Command
<1>2. CASE Adopt(a, current, at)
  BY <1>1, <1>2, AdoptFits
<1>3. CASE Refuse(current, at)
  BY <1>1, <1>3, StillFits DEF Refuse
<1> QED
  BY <1>2, <1>3 DEF AnswerOr

LEMMA RefuseFits ==
  ASSUME RecallInv, NEW current, NEW at, Refuse(current, at), Command
  PROVE  Fits
  BY StillFits DEF Refuse, Command

LEMMA NavigateFits ==
  ASSUME RecallInv, NEW direction, NEW count \in Nat \ {0}, Navigate(direction, count)
  PROVE  /\ Fits
         /\ direction = "next" /\ depth # 0 /\ depth' = 0 => line' = typed
<1>1. Fit(HostHistory(direction, count))
  BY OlderFits, NewerFits DEF HostHistory
<1>2. AnswerOr(HostHistory(direction, count), line, cursor) /\ Command
  BY DEF Navigate
<1>3. Fits
  BY <1>1, <1>2, AnswerOrFits
<1>4. ASSUME direction = "next", depth # 0, depth' = 0 PROVE line' = typed
  <2>1. HostHistory(direction, count) = Newer(count)
    BY <1>4 DEF HostHistory
  <2>2. Adopt(Newer(count), line, cursor)
    BY <1>2, <1>4, <2>1 DEF AnswerOr, Refuse
  <2>3. Newer(count).depth = 0
    BY <1>4, <2>2 DEF Adopt
  <2>4. Newer(count).selection = Entry(saved)
    BY <1>4, <2>3, NewerFits
  <2>5. ApplyHistoryResponse(Entry(saved), line, cursor)
    BY <2>2, <2>4 DEF Adopt
  <2>6. line' = saved
    BY <2>5, ShownEntry
  <2> QED
    BY <1>4, <2>6 DEF RecallInv
<1> QED
  BY <1>3, <1>4

LEMMA SearchForFits ==
  ASSUME RecallInv, NEW pattern, NEW direction, NEW current, NEW at,
         SearchFor(pattern, direction, current, at)
  PROVE  Fits
  BY SearchFits, AnswerOrFits DEF SearchFor

LEMMA SearchesFit ==
  ASSUME RecallInv, NEW direction,
         SearchPrefix(direction) \/ SearchPrompted(direction) \/ SearchIncremental(direction)
  PROVE  Fits
<1>1. CASE SearchPrefix(direction)
  BY <1>1, SearchForFits DEF SearchPrefix
<1>2. CASE SearchPrompted(direction)
  BY <1>2, SearchForFits, RefuseFits DEF SearchPrompted
<1>3. CASE SearchIncremental(direction)
  <2>1. CASE \E pattern \in Patterns : SearchFor(pattern, direction, line, cursor)
    BY <2>1, SearchForFits
  <2>2. CASE Refuse(line, cursor) /\ Command
    BY <2>2, RefuseFits
  <2>3. CASE Command /\ UNCHANGED <<editor, depth, saved>>
    BY <2>3, StillFits DEF Command
  <2> QED
    BY <1>3, <2>1, <2>2, <2>3 DEF SearchIncremental
<1> QED
  BY <1>1, <1>2, <1>3

LEMMA RestoreFits ==
  ASSUME RecallInv, RestoreLine
  PROVE  Fits /\ (depth # 0 => line' = typed)
<1>1. Adopt(HostHistoryCurrent, line, cursor) /\ past' = past /\ typed' = (IF depth = 0 THEN line ELSE typed)
  BY DEF RestoreLine, Command
<1>2. /\ HostHistoryCurrent.depth = 0 /\ HostHistoryCurrent.saved = saved
      /\ HostHistoryCurrent.selection = Entry(saved)
  BY AnswerFields DEF HostHistoryCurrent
<1>3. /\ depth' = 0 /\ saved' = saved /\ ApplyHistoryResponse(Entry(saved), line, cursor)
  BY <1>1, <1>2 DEF Adopt
<1>4. line' = saved
  BY <1>3, ShownEntry
<1>5. Fits
  BY <1>1, <1>3, PastIsCounted DEF Fits, RecallInv
<1> QED
  BY <1>4, <1>5 DEF RecallInv

LEMMA NextReadFits == ASSUME RecallInv, NextRead PROVE Fits
<1>1. depth' = 0
  BY DEF NextRead
<1>2. (\E S : past \in Seq(S))'
  <2>1. CASE past' = past
    BY <2>1 DEF RecallInv
  <2>2. CASE past' # past
    <3> DEFINE x == [number |-> Len(past) + 1, line |-> Append(line, "nl")]
    <3>1. past' = <<x>> \o past
      BY <2>2 DEF NextRead
    <3>2. PICK S : past \in Seq(S)
      BY DEF RecallInv
    <3> HIDE DEF x
    <3>3. past \in Seq(S \cup {x}) /\ <<x>> \in Seq(S \cup {x})
      BY <3>2
    <3>4. past' \in Seq(S \cup {x})
      BY <3>1, <3>3, ConcatProperties
    <3> QED
      BY <3>4
  <2> QED
    BY <2>1, <2>2
<1>3. past' # <<>> => 0 <= Len(past')
  BY <1>2, LenProperties
<1> QED
  BY <1>1, <1>2, <1>3 DEF Fits, RecallInv

LEMMA RecallStep ==
  ASSUME RecallAssumption, RecallInv, [RecallNext]_recallVars
  PROVE  Fits
<1>1. ASSUME NEW direction \in Directions, NEW count \in 1 .. MaxCount, Navigate(direction, count)
      PROVE  Fits
  <2>1. count \in Nat \ {0}
    BY DEF RecallAssumption
  <2> QED
    BY <1>1, <2>1, NavigateFits
<1>2. ASSUME NEW direction \in Directions,
             SearchPrefix(direction) \/ SearchPrompted(direction) \/ SearchIncremental(direction)
      PROVE  Fits
  BY <1>2, SearchesFit
<1>3. ASSUME NEW opposite \in BOOLEAN, SearchAgain(opposite) PROVE Fits
  BY <1>3, SearchForFits, Zenon DEF SearchAgain
<1>4. ASSUME NEW position \in 0 .. MaxCount, SelectLine(position) PROVE Fits
  BY <1>4, LineFits, AnswerOrFits DEF SelectLine
<1>5. ASSUME NEW position \in 0 .. MaxCount, InsertWord(position) PROVE Fits
  <2>1. /\ past' = past /\ depth' = depth /\ saved' = saved
        /\ typed' = (IF depth = 0 THEN line ELSE typed)
    BY <1>5, Zenon DEF InsertWord
  <2> QED
    BY <2>1, StillFits
<1>6. CASE Edit
  <2>1. /\ past' = past /\ depth' = depth /\ saved' = saved
        /\ typed' = (IF depth = 0 THEN line ELSE typed)
    BY <1>6, Zenon DEF Edit
  <2> QED
    BY <2>1, StillFits
<1>7. CASE NextRead
  BY <1>7, NextReadFits
<1>8. CASE UNCHANGED recallVars
  BY <1>8 DEF recallVars, Fits, RecallInv
<1>9. CASE RestoreLine
  BY <1>9, RestoreFits
<1> QED
  BY <1>1, <1>2, <1>3, <1>4, <1>5, <1>6, <1>7, <1>8, <1>9 DEF RecallNext

(* A movement to another event shows that event, and the plain ways back to  *)
(* the line being typed give that line back as it was left, whatever was     *)
(* recalled, searched or typed over a recalled line in between (host_history *)
(* and save_history_live_line of histedit/driver.rs, apply_history_response  *)
(* of the driver), for every history, every count and any number of reads.   *)
THEOREM RecalledLinesFit == ASSUME RecallAssumption PROVE RecallSpec => RecallFitsDepth
<1>1. RecallInit => RecallInv
  BY RecallStarts
<1>2. RecallInv /\ [RecallNext]_recallVars => RecallInv'
  BY RecallStep DEF Fits
<1>3. RecallInv /\ [RecallNext]_recallVars =>
        [/\ depth' \notin {depth, 0} /\ past # <<>> =>
              depth' \in DOMAIN past /\ line' = HistoryItem(depth')
         /\ depth # 0 /\ depth' = 0 /\ (RestoreLine \/ \E count \in 1 .. MaxCount : Navigate("next", count)) =>
              line' = typed]_recallVars
  <2> SUFFICES ASSUME RecallInv, [RecallNext]_recallVars
               PROVE  /\ depth' \notin {depth, 0} /\ past # <<>> =>
                           depth' \in DOMAIN past /\ line' = HistoryItem(depth')
                      /\ depth # 0 /\ depth' = 0 =>
                           /\ RestoreLine => line' = typed
                           /\ \A count \in 1 .. MaxCount : Navigate("next", count) => line' = typed
    OBVIOUS
  <2>1. depth' \notin {depth, 0} /\ past # <<>> =>
          depth' \in DOMAIN past /\ line' = HistoryItem(depth')
    BY RecallStep DEF Fits
  <2>2. ASSUME depth # 0, depth' = 0, NEW count \in 1 .. MaxCount, Navigate("next", count)
        PROVE  line' = typed
    <3>1. count \in Nat \ {0}
      BY DEF RecallAssumption
    <3> QED
      BY <2>2, <3>1, NavigateFits
  <2>3. RestoreLine /\ depth # 0 => line' = typed
    BY RestoreFits
  <2> QED
    BY <2>1, <2>2, <2>3
<1> QED
  BY <1>1, <1>2, <1>3, PTL DEF RecallSpec, RecallFitsDepth

(***************************************************************************)
(* The input decoder, for any bytes in any cuts and any number of ends and *)
(* of reads given up.                                                      *)
(***************************************************************************)

TextUnits == [kind : {"scalar", "raw"}, bytes : Seq(Bytes)]

(* A walk over n places exists: a place either ends it or adds a piece and  *)
(* goes on further to the right.  From a place the walk collects what it    *)
(* adds and remembers where it ends.                                        *)
Walks(n, ends, succ, piece, E, got, stop, i) ==
  IF i \in ends THEN got[i] = <<>> /\ stop[i] = i
  ELSE got[i] = piece[i] \o got[succ[i]] /\ stop[i] = stop[succ[i]]

LEMMA Between ==
  ASSUME NEW n \in Nat, NEW m \in 1 .. n, NEW i \in (m + 1) .. (n + 1)
  PROVE  /\ i \in 1 .. n + 1 /\ m \in 1 .. n + 1
         /\ \A j \in (i + 1) .. (n + 1) : j \in (m + 1) .. (n + 1)
  OBVIOUS

LEMMA WalksExist ==
  ASSUME NEW n \in Nat, NEW ends \in SUBSET (1 .. n + 1), n + 1 \in ends, NEW E,
         NEW succ, \A i \in 1 .. n : succ[i] \in (i + 1) .. (n + 1),
         NEW piece, \A i \in 1 .. n : piece[i] \in Seq(E)
  PROVE  \E got \in [1 .. n + 1 -> Seq(E)], stop \in [1 .. n + 1 -> 1 .. n + 1] :
           \A i \in 1 .. n + 1 : Walks(n, ends, succ, piece, E, got, stop, i)
<1> DEFINE From(m, got, stop) ==
             \A i \in m .. n + 1 : Walks(n, ends, succ, piece, E, got, stop, i)
           T == {m \in 1 .. n + 1 : \E got \in [1 .. n + 1 -> Seq(E)],
                                      stop \in [1 .. n + 1 -> 1 .. n + 1] : From(m, got, stop)}
<1>1. n + 1 \in T
  <2> DEFINE got == [i \in 1 .. n + 1 |-> <<>>]
             stop == [i \in 1 .. n + 1 |-> n + 1]
  <2>1. got \in [1 .. n + 1 -> Seq(E)] /\ stop \in [1 .. n + 1 -> 1 .. n + 1]
    BY EmptySeq
  <2>2. From(n + 1, got, stop)
    BY DEF Walks
  <2> HIDE DEF From, got, stop
  <2> QED
    BY <2>1, <2>2
<1>2. \A m \in 1 .. n : (m + 1) .. (n + 1) \subseteq T => m \in T
  <2> SUFFICES ASSUME NEW m \in 1 .. n, (m + 1) .. (n + 1) \subseteq T PROVE m \in T
    <3> HIDE DEF T
    <3> QED
      OBVIOUS
  <2>1. m + 1 \in T
    <3> HIDE DEF T
    <3> QED
      OBVIOUS
  <2>2. PICK got \in [1 .. n + 1 -> Seq(E)], stop \in [1 .. n + 1 -> 1 .. n + 1] :
          From(m + 1, got, stop)
    <3> HIDE DEF From
    <3> QED
      BY <2>1
  <2> DEFINE a == IF m \in ends THEN <<>> ELSE piece[m] \o got[succ[m]]
             b == IF m \in ends THEN m ELSE stop[succ[m]]
             got2 == [got EXCEPT ![m] = a]
             stop2 == [stop EXCEPT ![m] = b]
  <2>3. m \in 1 .. n + 1 /\ succ[m] \in (m + 1) .. (n + 1) /\ succ[m] \in 1 .. n + 1
    <3> HIDE DEF From, T, a, b, got2, stop2
    <3>1. succ[m] \in (m + 1) .. (n + 1)
      OBVIOUS
    <3>2. succ[m] \in 1 .. n + 1 /\ m \in 1 .. n + 1
      BY <3>1, Between
    <3> QED
      BY <3>1, <3>2
  <2>4. a \in Seq(E)
    <3>1. piece[m] \in Seq(E) /\ got[succ[m]] \in Seq(E)
      BY <2>3
    <3> QED
      BY <3>1, EmptySeq, ConcatProperties
  <2>5. b \in 1 .. n + 1
    BY <2>3
  <2>6. got2 \in [1 .. n + 1 -> Seq(E)] /\ stop2 \in [1 .. n + 1 -> 1 .. n + 1]
    <3> HIDE DEF a, b
    <3> QED
      BY <2>4, <2>5
  <2>7. /\ got2[m] = a /\ stop2[m] = b
        /\ \A i \in (m + 1) .. (n + 1) : got2[i] = got[i] /\ stop2[i] = stop[i]
    <3> HIDE DEF a, b, From, T
    <3>1. got2[m] = a /\ stop2[m] = b
      BY <2>3
    <3>2. ASSUME NEW i \in (m + 1) .. (n + 1) PROVE got2[i] = got[i] /\ stop2[i] = stop[i]
      <4>1. i \in 1 .. n + 1 /\ i # m
        OBVIOUS
      <4> QED
        BY <4>1
    <3> QED
      BY <3>1, <3>2
  <2> HIDE DEF got2, stop2
  <2>8. From(m, got2, stop2)
    <3> SUFFICES ASSUME NEW i \in m .. n + 1
                 PROVE  Walks(n, ends, succ, piece, E, got2, stop2, i)
      OBVIOUS
    <3>1. CASE i = m
      <4>1. got2[succ[m]] = got[succ[m]] /\ stop2[succ[m]] = stop[succ[m]]
        BY <2>3, <2>7
      <4> QED
        BY <2>7, <3>1, <4>1 DEF Walks
    <3>2. CASE i # m
      <4>1. i \in (m + 1) .. (n + 1)
        BY <3>2
      <4>2. Walks(n, ends, succ, piece, E, got, stop, i)
        BY <2>2, <4>1
      <4>3. got2[i] = got[i] /\ stop2[i] = stop[i]
        BY <2>7, <4>1
      <4>4. CASE i \in ends
        BY <4>2, <4>3, <4>4 DEF Walks
      <4>5. CASE i \notin ends
        <5> HIDE DEF From, T, a, b
        <5>0. i # n + 1
          BY <4>5
        <5>1. i \in 1 .. n
          BY <4>1, <5>0
        <5>2. succ[i] \in (i + 1) .. (n + 1)
          BY <5>1
        <5>4. succ[i] \in (m + 1) .. (n + 1)
          BY <4>1, <5>2, Between
        <5>3. got2[succ[i]] = got[succ[i]] /\ stop2[succ[i]] = stop[succ[i]]
          BY <2>7, <5>4
        <5> QED
          BY <4>2, <4>3, <4>5, <5>3 DEF Walks
      <4> QED
        BY <4>4, <4>5
    <3> QED
      BY <3>1, <3>2
  <2> HIDE DEF From
  <2> QED
    BY <2>3, <2>6, <2>8
<1>3. 1 \in T
  <2>1. T \in SUBSET (1 .. n + 1)
    OBVIOUS
  <2> HIDE DEF T
  <2>2. T = 1 .. n + 1
    BY <1>1, <1>2, <2>1, Descends
  <2> QED
    BY <2>2
<1> QED
  BY <1>3

(***************************************************************************)
(* Where the characters are.                                               *)
(***************************************************************************)

Whole(s, i) ==
  /\ CharLength(s[i]) > 0 /\ i + CharLength(s[i]) <= Len(s) + 1
  /\ \A k \in 1 .. CharLength(s[i]) - 1 : s[i + k] = "cont"
Width(s, i) == IF Whole(s, i) THEN CharLength(s[i]) ELSE 1
UnitAt(s, i) == IF Whole(s, i) THEN Scalar(SubSeq(s, i, i + CharLength(s[i]) - 1))
                ELSE RawByte(s[i])

LEMMA Lengths ==
  ASSUME NEW b \in Bytes
  PROVE  CharLength(b) \in 0 .. 3 /\ (CharLength(b) = 0 <=> b \in {"cont", "never"})
  BY DEF Bytes, CharLength

LEMMA ByteAt ==
  ASSUME NEW s \in Seq(Bytes), NEW i \in 1 .. Len(s)
  PROVE  s[i] \in Bytes /\ i \in Nat /\ i + 1 \in 1 .. Len(s) + 1
  BY ElementOfSeq, LenProperties

LEMMA CharacterAt ==
  ASSUME NEW s \in Seq(Bytes), NEW i \in 1 .. Len(s), NEW n \in 1 .. 3
  PROVE  <<i, n>> \in Characters(s) <=> Whole(s, i) /\ n = CharLength(s[i])
<1>1. CharLength(s[i]) \in 0 .. 3 /\ i \in Nat /\ Len(s) \in Nat
  BY Lengths, ByteAt, LenProperties
<1>2. <<i, n>> \in (1 .. Len(s)) \X (1 .. 3)
  OBVIOUS
<1>3. <<i, n>> \in Characters(s) <=> /\ CharLength(s[i]) = n
                                     /\ i + n - 1 <= Len(s)
                                     /\ \A k \in 1 .. (n - 1) : s[i + k] = "cont"
  BY <1>2 DEF Characters
<1> HIDE DEF CharLength
<1> QED
  BY <1>1, <1>3 DEF Whole

LEMMA UnitIsOne ==
  ASSUME NEW s \in Seq(Bytes), NEW i \in 1 .. Len(s)
  PROVE  /\ Width(s, i) \in 1 .. 3 /\ i + Width(s, i) \in (i + 1) .. (Len(s) + 1)
         /\ UnitAt(s, i) \in TextUnits
<1>1. CharLength(s[i]) \in 0 .. 3 /\ i \in Nat /\ Len(s) \in Nat /\ s[i] \in Bytes
  BY Lengths, ByteAt, LenProperties
<1> DEFINE c == CharLength(s[i])
<1>2. Whole(s, i) => c > 0 /\ i + c <= Len(s) + 1
  BY DEF Whole
<1>3. /\ Width(s, i) = IF Whole(s, i) THEN c ELSE 1
      /\ UnitAt(s, i) = IF Whole(s, i) THEN Scalar(SubSeq(s, i, i + c - 1)) ELSE RawByte(s[i])
  BY DEF Width, UnitAt
<1> HIDE DEF c
<1>4. c \in 0 .. 3
  BY <1>1 DEF c
<1>5. Width(s, i) \in 1 .. 3 /\ i + Width(s, i) \in (i + 1) .. (Len(s) + 1)
  BY <1>1, <1>2, <1>3, <1>4
<1>6. CASE Whole(s, i)
  <2>1. i \in Int /\ i + c - 1 \in Int /\ \A k \in i .. (i + c - 1) : s[k] \in Bytes
    BY <1>1, <1>2, <1>4, <1>6, ElementOfSeq
  <2>2. SubSeq(s, i, i + c - 1) \in Seq(Bytes)
    BY <2>1, SubSeqProperties
  <2> HIDE DEF Bytes
  <2> QED
    BY <1>3, <1>5, <1>6, <2>2 DEF Scalar, TextUnits
<1>7. CASE ~Whole(s, i)
  <2>1. <<s[i]>> \in Seq(Bytes)
    <3> HIDE DEF Bytes
    <3> QED
      BY <1>1
  <2> QED
    BY <1>3, <1>5, <1>7, <2>1 DEF RawByte, TextUnits
<1> QED
  BY <1>6, <1>7

(***************************************************************************)
(* UnitsOf, place by place.                                                *)
(***************************************************************************)

Reads(s, from) ==
  from = [i \in 1 .. (Len(s) + 1) |->
            IF i > Len(s) THEN <<>>
            ELSE IF \E n \in 1 .. 3 : <<i, n>> \in Characters(s)
                 THEN LET n == CHOOSE n \in 1 .. 3 : <<i, n>> \in Characters(s)
                      IN <<Scalar(SubSeq(s, i, i + n - 1))>> \o from[i + n]
                 ELSE <<RawByte(s[i])>> \o from[i + 1]]

Piled(a, b) == a \o b

ReadAt(s, f, i) == IF i > Len(s) THEN <<>> ELSE Piled(<<UnitAt(s, i)>>, f[i + Width(s, i)])

LEMMA ReadsAre ==
  ASSUME NEW s \in Seq(Bytes), NEW f
  PROVE  Reads(s, f) <=> f = [i \in 1 .. (Len(s) + 1) |-> ReadAt(s, f, i)]
<1> DEFINE Body(i) ==
             IF i > Len(s) THEN <<>>
             ELSE IF \E n \in 1 .. 3 : <<i, n>> \in Characters(s)
                  THEN LET n == CHOOSE n \in 1 .. 3 : <<i, n>> \in Characters(s)
                       IN <<Scalar(SubSeq(s, i, i + n - 1))>> \o f[i + n]
                  ELSE <<RawByte(s[i])>> \o f[i + 1]
<1>1. \A i \in 1 .. (Len(s) + 1) : Body(i) = ReadAt(s, f, i)
  <2> TAKE i \in 1 .. (Len(s) + 1)
  <2>0. Len(s) \in Nat
    BY LenProperties
  <2>1. CASE i > Len(s)
    BY <2>1 DEF ReadAt
  <2>2. CASE ~(i > Len(s))
    <3>1. i \in 1 .. Len(s)
      BY <2>0, <2>2
    <3>2. \A n \in 1 .. 3 : <<i, n>> \in Characters(s) <=> Whole(s, i) /\ n = CharLength(s[i])
      BY <3>1, CharacterAt
    <3>3. CharLength(s[i]) \in 0 .. 3
      BY <3>1, ByteAt, Lengths
    <3>4. CASE Whole(s, i)
      <4> DEFINE c == CharLength(s[i])
                 n == CHOOSE n \in 1 .. 3 : <<i, n>> \in Characters(s)
      <4>1. c \in 1 .. 3
        BY <3>3, <3>4 DEF Whole
      <4>2. <<i, c>> \in Characters(s)
        BY <3>2, <3>4, <4>1
      <4>3. n \in 1 .. 3 /\ <<i, n>> \in Characters(s)
        BY <4>1, <4>2
      <4>4. n = c
        BY <3>2, <4>3
      <4>5. Body(i) = <<Scalar(SubSeq(s, i, i + n - 1))>> \o f[i + n]
        BY <2>2, <4>1, <4>2
      <4>6. ReadAt(s, f, i) = <<Scalar(SubSeq(s, i, i + c - 1))>> \o f[i + c]
        BY <2>2, <3>4 DEF ReadAt, Piled, UnitAt, Width
      <4> QED
        BY <4>4, <4>5, <4>6
    <3>5. CASE ~Whole(s, i)
      <4>1. ~\E n \in 1 .. 3 : <<i, n>> \in Characters(s)
        BY <3>2, <3>5
      <4>2. Body(i) = <<RawByte(s[i])>> \o f[i + 1]
        BY <2>2, <4>1
      <4>3. ReadAt(s, f, i) = <<RawByte(s[i])>> \o f[i + 1]
        BY <2>2, <3>5 DEF ReadAt, Piled, UnitAt, Width
      <4> QED
        BY <4>2, <4>3
    <3> QED
      BY <3>4, <3>5
  <2> QED
    BY <2>1, <2>2
<1>2. Reads(s, f) <=> f = [i \in 1 .. (Len(s) + 1) |-> Body(i)]
  BY Zenon DEF Reads
<1> HIDE DEF Body
<1> QED
  BY <1>1, <1>2

Walk(s, f) ==
  /\ f \in [1 .. Len(s) + 1 -> Seq(TextUnits)] /\ f[Len(s) + 1] = <<>>
  /\ \A i \in 1 .. Len(s) : f[i] = Piled(<<UnitAt(s, i)>>, f[i + Width(s, i)])

LEMMA OneUnit ==
  ASSUME NEW s \in Seq(Bytes), NEW i \in 1 .. Len(s)
  PROVE  <<UnitAt(s, i)>> \in Seq(TextUnits)
<1>1. UnitAt(s, i) \in TextUnits
  BY UnitIsOne
<1> HIDE DEF TextUnits
<1> QED
  BY <1>1

LEMMA PiledAre ==
  ASSUME NEW E, NEW a \in Seq(E), NEW b \in Seq(E)
  PROVE  Piled(a, b) \in Seq(E)
  BY ConcatProperties DEF Piled

LEMMA ReadsExist ==
  ASSUME NEW s \in Seq(Bytes)
  PROVE  \E f : Reads(s, f)
<1> DEFINE n == Len(s)
           succ == [i \in 1 .. n |-> i + Width(s, i)]
           piece == [i \in 1 .. n |-> <<UnitAt(s, i)>>]
<1>1. n \in Nat /\ {n + 1} \in SUBSET (1 .. n + 1)
  BY LenProperties
<1>2. \A i \in 1 .. n : succ[i] \in (i + 1) .. (n + 1)
  BY UnitIsOne
<1>3. \A i \in 1 .. n : piece[i] \in Seq(TextUnits)
  BY OneUnit
<1>4. \A i \in 1 .. n : succ[i] = i + Width(s, i) /\ piece[i] = <<UnitAt(s, i)>>
  OBVIOUS
<1> HIDE DEF succ, piece, n
<1>5. PICK f \in [1 .. n + 1 -> Seq(TextUnits)], stop \in [1 .. n + 1 -> 1 .. n + 1] :
        \A i \in 1 .. n + 1 : Walks(n, {n + 1}, succ, piece, TextUnits, f, stop, i)
  BY <1>1, <1>2, <1>3, WalksExist
<1>6. \A i \in 1 .. n + 1 : f[i] = ReadAt(s, f, i)
  <2> TAKE i \in 1 .. n + 1
  <2>1. CASE i = n + 1
    <3>1. f[i] = <<>>
      BY <1>5, <2>1 DEF Walks
    <3>2. i > Len(s)
      BY <1>1, <2>1 DEF n
    <3> QED
      BY <3>1, <3>2 DEF ReadAt
  <2>2. CASE i # n + 1
    <3>1. i \in 1 .. n /\ ~(i > Len(s)) /\ i \notin {n + 1}
      BY <1>1, <2>2 DEF n
    <3>2. f[i] = piece[i] \o f[succ[i]]
      BY <1>5, <3>1 DEF Walks
    <3> QED
      BY <1>4, <3>1, <3>2 DEF ReadAt, Piled
  <2> QED
    BY <2>1, <2>2
<1>7. f = [i \in 1 .. (Len(s) + 1) |-> ReadAt(s, f, i)]
  <2>1. f = [i \in 1 .. n + 1 |-> f[i]]
    BY <1>5
  <2>2. f = [i \in 1 .. n + 1 |-> ReadAt(s, f, i)]
    BY <1>6, <2>1
  <2> QED
    BY <2>2 DEF n
<1> QED
  BY <1>7, ReadsAre

LEMMA ReadsWalk ==
  ASSUME NEW s \in Seq(Bytes), NEW f, Reads(s, f)
  PROVE  Walk(s, f)
<1>1. f = [i \in 1 .. (Len(s) + 1) |-> ReadAt(s, f, i)] /\ Len(s) \in Nat
  BY ReadsAre, LenProperties
<1>2. \A i \in 1 .. Len(s) + 1 : f[i] = ReadAt(s, f, i)
  BY <1>1
<1>3. f[Len(s) + 1] = <<>>
  BY <1>1, <1>2 DEF ReadAt
<1>4. \A i \in 1 .. Len(s) : f[i] = Piled(<<UnitAt(s, i)>>, f[i + Width(s, i)])
  BY <1>1, <1>2 DEF ReadAt
<1> DEFINE T == {i \in 1 .. Len(s) + 1 : f[i] \in Seq(TextUnits)}
<1>0. Len(s) \in Nat
  BY LenProperties
<1>5. Len(s) + 1 \in T
  <2>1. Len(s) + 1 \in 1 .. Len(s) + 1
    BY <1>0
  <2> QED
    BY <1>3, <2>1, EmptySeq
<1>6. \A i \in 1 .. Len(s) : (i + 1) .. (Len(s) + 1) \subseteq T => i \in T
  <2> SUFFICES ASSUME NEW i \in 1 .. Len(s), (i + 1) .. (Len(s) + 1) \subseteq T
               PROVE  f[i] \in Seq(TextUnits)
    <3>1. \A i \in 1 .. Len(s) : i \in 1 .. Len(s) + 1
      BY <1>0
    <3> QED
      BY <3>1
  <2>1. i + Width(s, i) \in (i + 1) .. (Len(s) + 1)
    BY UnitIsOne
  <2>2. f[i + Width(s, i)] \in Seq(TextUnits)
    BY <2>1
  <2>3. <<UnitAt(s, i)>> \in Seq(TextUnits)
    BY OneUnit
  <2> QED
    BY <1>4, <2>2, <2>3, PiledAre
<1>7. \A i \in 1 .. Len(s) + 1 : f[i] \in Seq(TextUnits)
  <2>1. T \in SUBSET (1 .. Len(s) + 1)
    OBVIOUS
  <2> HIDE DEF T
  <2>2. T = 1 .. Len(s) + 1
    BY <1>0, <1>5, <1>6, <2>1, Descends
  <2> QED
    BY <2>2 DEF T
<1>8. f \in [1 .. Len(s) + 1 -> Seq(TextUnits)]
  BY <1>1, <1>7
<1> QED
  BY <1>3, <1>4, <1>8 DEF Walk

LEMMA UnitsWalk ==
  ASSUME NEW s \in Seq(Bytes)
  PROVE  \E f : Walk(s, f) /\ UnitsOf(s) = f[1]
<1> DEFINE f == CHOOSE from : Reads(s, from)
<1>1. UnitsOf(s) = f[1]
  BY Zenon DEF UnitsOf, Reads
<1>2. Reads(s, f)
  BY ReadsExist
<1> HIDE DEF f
<1> QED
  BY <1>1, <1>2, ReadsWalk

(***************************************************************************)
(* The walk over what is left of a sequence is the rest of the walk over   *)
(* the sequence.                                                           *)
(***************************************************************************)

LEMMA Rest ==
  ASSUME NEW x \in Seq(Bytes), NEW m \in 1 .. Len(x) + 1
  PROVE  LET y == SubSeq(x, m, Len(x))
         IN  /\ y \in Seq(Bytes) /\ Len(y) = Len(x) + 1 - m
             /\ \A j \in 1 .. Len(y) : y[j] = x[m - 1 + j]
<1>1. m \in Int /\ Len(x) \in Int /\ \A k \in m .. Len(x) : x[k] \in Bytes
  BY LenProperties, ElementOfSeq
<1> HIDE DEF Bytes
<1>2. /\ SubSeq(x, m, Len(x)) \in Seq(Bytes)
      /\ Len(SubSeq(x, m, Len(x))) = IF m <= Len(x) THEN Len(x) - m + 1 ELSE 0
      /\ \A i \in 1 .. Len(x) - m + 1 : SubSeq(x, m, Len(x))[i] = x[m + i - 1]
  BY <1>1, SubSeqProperties
<1> QED
  BY <1>1, <1>2

LEMMA RestUnits ==
  ASSUME NEW x \in Seq(Bytes), NEW m \in 1 .. Len(x) + 1,
         NEW j \in 1 .. Len(SubSeq(x, m, Len(x)))
  PROVE  /\ Width(SubSeq(x, m, Len(x)), j) = Width(x, m - 1 + j)
         /\ UnitAt(SubSeq(x, m, Len(x)), j) = UnitAt(x, m - 1 + j)
<1> DEFINE y == SubSeq(x, m, Len(x))
           i == m - 1 + j
           c == CharLength(x[i])
<1>1. y \in Seq(Bytes) /\ Len(y) = Len(x) + 1 - m /\ \A k \in 1 .. Len(y) : y[k] = x[m - 1 + k]
  BY Rest
<1>2. Len(x) \in Nat /\ Len(y) \in Nat /\ m \in Nat /\ j \in Nat
  BY <1>1, LenProperties
<1>3. i \in 1 .. Len(x) /\ y[j] = x[i] /\ i >= m
  <2> HIDE DEF y
  <2>1. y[j] = x[i]
    BY <1>1 DEF y
  <2>2. j \in 1 .. Len(y)
    BY DEF y
  <2>3. i \in 1 .. Len(x) /\ i >= m
    BY <1>1, <1>2, <2>2
  <2> QED
    BY <2>1, <2>3
<1>4. c \in 0 .. 3
  BY <1>3, ByteAt, Lengths
<1> HIDE DEF y
<1>5. Whole(y, j) <=> Whole(x, i)
  <2>1. Whole(y, j) <=> /\ c > 0 /\ j + c <= Len(y) + 1
                        /\ \A k \in 1 .. c - 1 : y[j + k] = "cont"
    BY <1>3 DEF Whole
  <2>2. Whole(x, i) <=> /\ c > 0 /\ i + c <= Len(x) + 1
                        /\ \A k \in 1 .. c - 1 : x[i + k] = "cont"
    BY DEF Whole
  <2> HIDE DEF c
  <2>3. j + c <= Len(y) + 1 <=> i + c <= Len(x) + 1
    BY <1>1, <1>2, <1>4
  <2>4. ASSUME j + c <= Len(y) + 1, NEW k \in 1 .. c - 1 PROVE y[j + k] = x[i + k]
    <3>1. j + k \in 1 .. Len(y) /\ m - 1 + (j + k) = i + k
      BY <1>2, <1>4, <2>4
    <3> QED
      BY <1>1, <3>1
  <2> QED
    BY <2>1, <2>2, <2>3, <2>4
<1>6. Width(y, j) = Width(x, i)
  BY <1>3, <1>5 DEF Width
<1>7. UnitAt(y, j) = UnitAt(x, i)
  <2>1. CASE Whole(x, i)
    <3>1. c > 0 /\ i + c <= Len(x) + 1
      BY <2>1 DEF Whole
    <3> HIDE DEF c, i
    <3>2. /\ m \in 1 .. Len(x) /\ Len(x) \in 1 .. Len(x)
          /\ j \in 1 .. Len(x) - m + 1 /\ j + c - 1 \in 1 .. Len(x) - m + 1
          /\ m + j - 1 = i /\ m + (j + c - 1) - 1 = i + c - 1
      BY <1>1, <1>2, <1>3, <1>4, <3>1 DEF i
    <3>3. SubSeq(y, j, j + c - 1) = SubSeq(x, i, i + c - 1)
      <4> HIDE DEF Bytes
      <4>1. SubSeq(SubSeq(x, m, Len(x)), j, j + c - 1) = SubSeq(x, m + j - 1, m + (j + c - 1) - 1)
        BY <3>2, SubSeqOfSubSeq
      <4> QED
        BY <3>2, <4>1 DEF y
    <3>4. UnitAt(y, j) = Scalar(SubSeq(y, j, j + c - 1)) /\ UnitAt(x, i) = Scalar(SubSeq(x, i, i + c - 1))
      BY <1>3, <1>5, <2>1 DEF UnitAt, c
    <3> QED
      BY <3>3, <3>4
  <2>2. CASE ~Whole(x, i)
    BY <1>3, <1>5, <2>2 DEF UnitAt
  <2> QED
    BY <2>1, <2>2
<1> QED
  BY <1>6, <1>7 DEF y

LEMMA RestWalk ==
  ASSUME NEW x \in Seq(Bytes), NEW m \in 1 .. Len(x) + 1, NEW f, Walk(x, f)
  PROVE  UnitsOf(SubSeq(x, m, Len(x))) = f[m]
<1> DEFINE y == SubSeq(x, m, Len(x))
<1>1. y \in Seq(Bytes) /\ Len(y) = Len(x) + 1 - m
  BY Rest
<1>2. Len(x) \in Nat /\ Len(y) \in Nat /\ m \in Nat
  BY <1>1, LenProperties
<1>3. PICK g : Walk(y, g) /\ UnitsOf(y) = g[1]
  BY <1>1, UnitsWalk
<1> DEFINE T == {j \in 1 .. Len(y) + 1 : g[j] = f[m - 1 + j]}
<1>4. Len(y) + 1 \in T
  <2>1. m - 1 + (Len(y) + 1) = Len(x) + 1 /\ Len(y) + 1 \in 1 .. Len(y) + 1
    BY <1>1, <1>2
  <2>2. g[Len(y) + 1] = <<>> /\ f[Len(x) + 1] = <<>>
    BY <1>3 DEF Walk
  <2> HIDE DEF y
  <2> QED
    BY <2>1, <2>2
<1>5. \A j \in 1 .. Len(y) : (j + 1) .. (Len(y) + 1) \subseteq T => j \in T
  <2> SUFFICES ASSUME NEW j \in 1 .. Len(y), (j + 1) .. (Len(y) + 1) \subseteq T
               PROVE  j \in T
    OBVIOUS
  <2>1. Width(y, j) = Width(x, m - 1 + j) /\ UnitAt(y, j) = UnitAt(x, m - 1 + j)
    BY RestUnits
  <2>2. Width(y, j) \in 1 .. 3 /\ j + Width(y, j) \in (j + 1) .. (Len(y) + 1)
    BY <1>1, UnitIsOne
  <2>3. g[j + Width(y, j)] = f[m - 1 + (j + Width(y, j))]
    BY <2>2
  <2>4. g[j] = Piled(<<UnitAt(y, j)>>, g[j + Width(y, j)])
    BY <1>3 DEF Walk
  <2> HIDE DEF y
  <2>5. m - 1 + j \in 1 .. Len(x) /\ j \in 1 .. Len(y) + 1
    BY <1>1, <1>2
  <2>6. f[m - 1 + j] = Piled(<<UnitAt(x, m - 1 + j)>>, f[(m - 1 + j) + Width(x, m - 1 + j)])
    BY <2>5 DEF Walk
  <2>7. (m - 1 + j) + Width(x, m - 1 + j) = m - 1 + (j + Width(y, j))
    BY <1>2, <2>1, <2>2
  <2> QED
    BY <2>1, <2>3, <2>4, <2>5, <2>6, <2>7
<1>6. 1 \in T
  <2>1. T \in SUBSET (1 .. Len(y) + 1) /\ 1 \in 1 .. Len(y) + 1
    BY <1>2
  <2> HIDE DEF T, y
  <2>2. T = 1 .. Len(y) + 1
    BY <1>2, <1>4, <1>5, <2>1, Descends
  <2> QED
    BY <2>1, <2>2
<1>7. g[1] = f[m]
  BY <1>2, <1>6
<1> QED
  BY <1>3, <1>7

(***************************************************************************)
(* What fits at a place (Decoder::decode): a whole character, the start of *)
(* one that the bytes end in, or nothing that could become one.            *)
(***************************************************************************)

Fit3(s, i, n) ==
  /\ \A k \in 1 .. (n - 1) : i + k \in DOMAIN s /\ s[i + k] = "cont"
  /\ n < CharLength(s[i]) => i + n > Len(s) \/ (n > 0 /\ s[i + n] # "cont")

LEMMA FittingIs ==
  ASSUME NEW s \in Seq(Bytes), NEW i \in 1 .. Len(s)
  PROVE  Fitting(s, i) \in 0 .. CharLength(s[i]) /\ Fit3(s, i, Fitting(s, i))
<1> DEFINE c == CharLength(s[i])
<1>1. c \in 0 .. 3 /\ i \in Nat /\ Len(s) \in Nat /\ DOMAIN s = 1 .. Len(s)
  BY ByteAt, Lengths, LenProperties
<1>2. Fitting(s, i) = CHOOSE n \in 0 .. c : Fit3(s, i, n)
  BY Zenon DEF Fitting, Fit3
<1>3. \A n \in 0 .. 3 : Fit3(s, i, n) <=>
        /\ \A k \in 1 .. (n - 1) : i + k \in DOMAIN s /\ s[i + k] = "cont"
        /\ n < c => i + n > Len(s) \/ (n > 0 /\ s[i + n] # "cont")
  BY DEF Fit3
<1> HIDE DEF c
<1>4. \E n \in 0 .. c : Fit3(s, i, n)
  <2>1. CASE c = 0
    <3>1. Fit3(s, i, 0)
      BY <1>1, <1>3, <2>1
    <3> QED
      BY <2>1, <3>1
  <2>2. CASE c # 0 /\ (c > 1 => i + 1 > Len(s) \/ s[i + 1] # "cont")
    <3>1. Fit3(s, i, 1)
      BY <1>1, <1>3, <2>2
    <3> QED
      BY <1>1, <2>2, <3>1
  <2>3. CASE c > 1 /\ i + 1 <= Len(s) /\ s[i + 1] = "cont"
            /\ (c > 2 => i + 2 > Len(s) \/ s[i + 2] # "cont")
    <3>1. \A k \in 1 .. (2 - 1) : k = 1
      OBVIOUS
    <3>2. Fit3(s, i, 2)
      BY <1>1, <1>3, <2>3, <3>1
    <3> QED
      BY <1>1, <2>3, <3>2
  <2>4. CASE c > 2 /\ i + 2 <= Len(s) /\ s[i + 1] = "cont" /\ s[i + 2] = "cont"
    <3>1. \A k \in 1 .. (3 - 1) : k = 1 \/ k = 2
      OBVIOUS
    <3>2. c = 3 /\ i + 1 \in DOMAIN s /\ i + 2 \in DOMAIN s
      BY <1>1, <2>4
    <3>3. Fit3(s, i, 3)
      BY <1>1, <1>3, <2>4, <3>1, <3>2
    <3> QED
      BY <1>1, <3>2, <3>3
  <2> QED
    BY <1>1, <2>1, <2>2, <2>3, <2>4
<1>5. Fitting(s, i) \in 0 .. c /\ Fit3(s, i, Fitting(s, i))
  BY <1>2, <1>4
<1> QED
  BY <1>5 DEF c

IsWhole(s, i) == CharLength(s[i]) > 0 /\ Fitting(s, i) = CharLength(s[i])
IsShort(s, i) == Fitting(s, i) > 0 /\ ~IsWhole(s, i) /\ i + Fitting(s, i) > Len(s)
Bad(s, i) == IF Fitting(s, i) = 0 THEN 1 ELSE Fitting(s, i)

(* A character found whole in the bytes so far is one of the bytes however  *)
(* they go on.                                                              *)
LEMMA WholeStays ==
  ASSUME NEW s \in Seq(Bytes), NEW t \in Seq(Bytes), NEW i \in 1 .. Len(s), IsWhole(s, i)
  PROVE  /\ Fitting(s, i) \in 1 .. 3 /\ i + Fitting(s, i) \in (i + 1) .. (Len(s) + 1)
         /\ Width(s \o t, i) = Fitting(s, i)
         /\ UnitAt(s \o t, i) = Scalar(SubSeq(s, i, i + Fitting(s, i) - 1))
<1> DEFINE n == Fitting(s, i)
           x == s \o t
<1>1. /\ CharLength(s[i]) \in 0 .. 3 /\ i \in Nat /\ Len(s) \in Nat /\ Len(t) \in Nat
      /\ DOMAIN s = 1 .. Len(s)
  BY ByteAt, Lengths, LenProperties
<1>2. /\ x \in Seq(Bytes) /\ Len(x) = Len(s) + Len(t)
      /\ \A k \in 1 .. Len(s) : x[k] = s[k]
  BY <1>1, ConcatProperties
<1>3. n = CharLength(s[i]) /\ n \in 1 .. 3
  BY <1>1 DEF IsWhole
<1>4. \A k \in 1 .. (n - 1) : i + k \in DOMAIN s /\ s[i + k] = "cont"
  BY FittingIs DEF Fit3
<1> HIDE DEF n, x
<1>5. i + n - 1 \in 1 .. Len(s)
  <2>1. CASE n = 1
    BY <1>1, <2>1
  <2>2. CASE n > 1
    <3>1. n - 1 \in 1 .. (n - 1)
      BY <1>3, <2>2
    <3>2. i + (n - 1) \in 1 .. Len(s)
      BY <1>1, <1>4, <3>1
    <3> QED
      BY <1>1, <1>3, <3>2
  <2> QED
    BY <1>3, <2>1, <2>2
<1>6. x[i] = s[i] /\ CharLength(x[i]) = n
  BY <1>2, <1>3
<1>7. \A k \in 1 .. (n - 1) : x[i + k] = "cont"
  BY <1>1, <1>2, <1>4
<1>8. Whole(x, i)
  BY <1>1, <1>2, <1>3, <1>5, <1>6, <1>7 DEF Whole
<1>9. SubSeq(x, i, i + n - 1) = SubSeq(s, i, i + n - 1)
  BY <1>5, SubSeqOfConcat1 DEF x
<1>10. i + n \in (i + 1) .. (Len(s) + 1)
  BY <1>1, <1>3, <1>5
<1> QED
  BY <1>3, <1>6, <1>8, <1>9, <1>10 DEF Width, UnitAt, n, x

(* Bytes given out raw are no part of a character however the bytes go on.  *)
LEMMA RawStays ==
  ASSUME NEW s \in Seq(Bytes), NEW t \in Seq(Bytes), NEW i \in 1 .. Len(s),
         ~IsWhole(s, i), IsShort(s, i) => t = <<>>
  PROVE  /\ Bad(s, i) \in 1 .. 2 /\ i + Bad(s, i) \in (i + 1) .. (Len(s) + 1)
         /\ \A k \in 0 .. Bad(s, i) - 1 :
              /\ i + k \in 1 .. Len(s)
              /\ Width(s \o t, i + k) = 1 /\ UnitAt(s \o t, i + k) = RawByte(s[i + k])
<1> DEFINE n == Fitting(s, i)
           x == s \o t
           c == CharLength(s[i])
<1>1. /\ c \in 0 .. 3 /\ i \in Nat /\ Len(s) \in Nat /\ Len(t) \in Nat
      /\ DOMAIN s = 1 .. Len(s)
  BY ByteAt, Lengths, LenProperties
<1>2. /\ x \in Seq(Bytes) /\ Len(x) = Len(s) + Len(t)
      /\ \A k \in 1 .. Len(s) : x[k] = s[k]
  BY <1>1, ConcatProperties
<1>3. /\ n \in 0 .. c
      /\ \A k \in 1 .. (n - 1) : i + k \in DOMAIN s /\ s[i + k] = "cont"
      /\ n < c => i + n > Len(s) \/ (n > 0 /\ s[i + n] # "cont")
  BY FittingIs DEF Fit3
<1>4. c = 0 \/ n < c
  BY <1>1, <1>3 DEF IsWhole
<1>5. n > 0 /\ i + n > Len(s) => t = <<>>
  BY DEF IsShort
<1>6. Bad(s, i) = IF n = 0 THEN 1 ELSE n
  BY DEF Bad
<1> HIDE DEF n, x, c
<1>7. Bad(s, i) \in 1 .. 2 /\ (c = 0 => n = 0) /\ (n = 0 => c = 0)
  BY <1>1, <1>3, <1>4, <1>6
<1>8. Bad(s, i) = 2 => n = 2 /\ i + 1 \in 1 .. Len(s) /\ s[i + 1] = "cont"
  <2> SUFFICES ASSUME Bad(s, i) = 2 PROVE n = 2 /\ i + 1 \in 1 .. Len(s) /\ s[i + 1] = "cont"
    OBVIOUS
  <2>1. n = 2 /\ 1 \in 1 .. (n - 1)
    BY <1>1, <1>3, <1>6
  <2> QED
    BY <1>1, <1>3, <2>1
<1>9. ~Whole(x, i)
  <2>1. x[i] = s[i] /\ CharLength(x[i]) = c
    BY <1>2 DEF c
  <2> SUFFICES ASSUME c > 0 /\ i + c <= Len(x) + 1,
                      \A k \in 1 .. c - 1 : x[i + k] = "cont"
               PROVE  FALSE
    BY <2>1 DEF Whole
  <2>2. n > 0 /\ n < c /\ n \in 1 .. c - 1 /\ x[i + n] = "cont"
    BY <1>1, <1>3, <1>4, <1>7
  <2>3. CASE i + n > Len(s)
    <3>1. Len(x) = Len(s)
      BY <1>1, <1>2, <1>5, <2>2, <2>3, EmptySeq
    <3> QED
      BY <1>1, <1>3, <2>2, <2>3, <3>1
  <2>4. CASE ~(i + n > Len(s))
    <3>1. s[i + n] # "cont" /\ i + n \in 1 .. Len(s)
      BY <1>1, <1>3, <2>2, <2>4
    <3> QED
      BY <1>2, <2>2, <3>1
  <2> QED
    BY <2>3, <2>4
<1>10. Bad(s, i) = 2 => ~Whole(x, i + 1)
  <2> SUFFICES ASSUME Bad(s, i) = 2 PROVE ~Whole(x, i + 1)
    OBVIOUS
  <2>1. x[i + 1] = "cont"
    BY <1>2, <1>8
  <2>2. CharLength("cont") = 0
    BY DEF CharLength
  <2> QED
    BY <2>1, <2>2 DEF Whole
<1>11. ASSUME NEW k \in 0 .. Bad(s, i) - 1
       PROVE  /\ i + k \in 1 .. Len(s)
              /\ Width(x, i + k) = 1 /\ UnitAt(x, i + k) = RawByte(s[i + k])
  <2>1. k = 0 \/ (k = 1 /\ Bad(s, i) = 2)
    BY <1>7
  <2>2. i + k \in 1 .. Len(s) /\ ~Whole(x, i + k)
    BY <1>1, <1>8, <1>9, <1>10, <2>1
  <2> QED
    BY <1>2, <2>2 DEF Width, UnitAt
<1>12. i + Bad(s, i) \in (i + 1) .. (Len(s) + 1)
  BY <1>1, <1>7, <1>8
<1> QED
  BY <1>7, <1>11, <1>12 DEF x

LEMMA TwoConcat ==
  ASSUME NEW a, NEW b
  PROVE  <<a>> \o <<b>> = <<a, b>>
<1>1. <<a>> \in Seq({a, b}) /\ <<b>> \in Seq({a, b}) /\ <<a, b>> \in Seq({a, b})
  OBVIOUS
<1>2. Len(<<a>>) = 1 /\ Len(<<b>>) = 1 /\ Len(<<a, b>>) = 2
  OBVIOUS
<1>3. /\ <<a>> \o <<b>> \in Seq({a, b}) /\ Len(<<a>> \o <<b>>) = 2
      /\ (<<a>> \o <<b>>)[1] = a /\ (<<a>> \o <<b>>)[2] = b
  <2>1. /\ Len(<<a>> \o <<b>>) = 1 + 1
        /\ \A i \in 1 .. 1 + 1 : (<<a>> \o <<b>>)[i] = IF i <= 1 THEN <<a>>[i] ELSE <<b>>[i - 1]
    BY <1>1, <1>2, ConcatProperties
  <2>2. <<a>> \o <<b>> \in Seq({a, b})
    BY <1>1, ConcatProperties
  <2> QED
    BY <2>1, <2>2
<1>4. \A i \in 1 .. 2 : (<<a>> \o <<b>>)[i] = <<a, b>>[i]
  <2>1. \A i \in 1 .. 2 : i = 1 \/ i = 2
    OBVIOUS
  <2> QED
    BY <1>3, <2>1
<1> QED
  BY <1>1, <1>2, <1>3, <1>4, SeqEqual

LEMMA RawBytesAre ==
  ASSUME NEW s \in Seq(Bytes), NEW i \in 1 .. Len(s), NEW n \in 1 .. 2, i + n - 1 \in 1 .. Len(s)
  PROVE  RawBytes(SubSeq(s, i, i + n - 1)) =
           IF n = 1 THEN <<RawByte(s[i])>> ELSE <<RawByte(s[i])>> \o <<RawByte(s[i + 1])>>
<1> DEFINE p == SubSeq(s, i, i + n - 1)
<1>1. i \in Nat /\ Len(s) \in Nat /\ \A k \in i .. (i + n - 1) : s[k] \in Bytes
  BY ByteAt, LenProperties, ElementOfSeq
<1>2. p \in Seq(Bytes) /\ Len(p) = n /\ \A k \in 1 .. n : p[k] = s[i + k - 1]
  <2> HIDE DEF Bytes
  <2>1. /\ p \in Seq(Bytes) /\ Len(p) = IF i <= i + n - 1 THEN (i + n - 1) - i + 1 ELSE 0
        /\ \A k \in 1 .. (i + n - 1) - i + 1 : p[k] = s[i + k - 1]
    BY <1>1, SubSeqProperties
  <2> QED
    BY <1>1, <2>1
<1>3. DOMAIN p = 1 .. n
  BY <1>2, LenProperties
<1> HIDE DEF p
<1>4. RawBytes(p) = [k \in 1 .. n |-> RawByte(s[i + k - 1])]
  BY <1>2, <1>3 DEF RawBytes
<1>5. CASE n = 1
  <2>1. RawBytes(p) = [k \in 1 .. 1 |-> RawByte(s[i + k - 1])]
    BY <1>4, <1>5
  <2>2. s[i + 1 - 1] = s[i]
    BY <1>1
  <2> HIDE DEF RawByte
  <2>3. <<RawByte(s[i])>> = [k \in 1 .. 1 |-> RawByte(s[i + k - 1])]
    BY <2>2
  <2> QED
    BY <1>5, <2>1, <2>3 DEF p
<1>6. CASE n = 2
  <2>1. RawBytes(p) = [k \in 1 .. 2 |-> RawByte(s[i + k - 1])]
    BY <1>4, <1>6
  <2>2. s[i + 1 - 1] = s[i] /\ s[i + 2 - 1] = s[i + 1]
    BY <1>1
  <2> HIDE DEF RawByte
  <2>3. <<RawByte(s[i])>> \o <<RawByte(s[i + 1])>> = <<RawByte(s[i]), RawByte(s[i + 1])>>
    BY TwoConcat
  <2>4. <<RawByte(s[i]), RawByte(s[i + 1])>> = [k \in 1 .. 2 |-> RawByte(s[i + k - 1])]
    BY <2>2
  <2> QED
    BY <1>6, <2>1, <2>3, <2>4 DEF p
<1> QED
  BY <1>5, <1>6

(***************************************************************************)
(* Decode, place by place.                                                 *)
(***************************************************************************)

Decodes(s, final, from) ==
  from = [i \in 1 .. (Len(s) + 1) |->
            IF i > Len(s) THEN [ready |-> <<>>, kept |-> i]
            ELSE LET n == Fitting(s, i)
                     whole == CharLength(s[i]) > 0 /\ n = CharLength(s[i])
                     short == n > 0 /\ ~whole /\ i + n > Len(s)
                     bad == IF n = 0 THEN 1 ELSE n
                 IN CASE whole -> [from[i + n] EXCEPT
                                     !.ready = <<Scalar(SubSeq(s, i, i + n - 1))>> \o @]
                      [] short /\ ~final -> [ready |-> <<>>, kept |-> i]
                      [] OTHER -> [from[i + bad] EXCEPT
                                     !.ready = RawBytes(SubSeq(s, i, i + bad - 1)) \o @]]

Ahead(p, a) == [a EXCEPT !.ready = p \o @]
Sure(s, i) == <<Scalar(SubSeq(s, i, i + Fitting(s, i) - 1))>>
Raws(s, i) == RawBytes(SubSeq(s, i, i + Bad(s, i) - 1))
DecodeAt(s, final, d, i) ==
  IF i > Len(s) THEN [ready |-> <<>>, kept |-> i]
  ELSE CASE IsWhole(s, i) -> Ahead(Sure(s, i), d[i + Fitting(s, i)])
         [] IsShort(s, i) /\ ~final -> [ready |-> <<>>, kept |-> i]
         [] OTHER -> Ahead(Raws(s, i), d[i + Bad(s, i)])

LEMMA DecodesAre ==
  ASSUME NEW s, NEW final, NEW d
  PROVE  Decodes(s, final, d) <=> d = [i \in 1 .. (Len(s) + 1) |-> DecodeAt(s, final, d, i)]
  BY Zenon DEF Decodes, DecodeAt, Ahead, Sure, Raws, IsWhole, IsShort, Bad

LEMMA AheadIs ==
  ASSUME NEW p, NEW r, NEW k
  PROVE  Ahead(p, [ready |-> r, kept |-> k]) = [ready |-> p \o r, kept |-> k]
<1> DEFINE a == [ready |-> r, kept |-> k]
           q == p \o a.ready
<1>1. Ahead(p, a) = [a EXCEPT !.ready = q]
  BY DEF Ahead
<1>2. q = p \o r
  OBVIOUS
<1> HIDE DEF q
<1>3. [a EXCEPT !.ready = q] = [ready |-> q, kept |-> k]
  OBVIOUS
<1> QED
  BY <1>1, <1>2, <1>3

(* What is given out raw, against the walk over the bytes as they go on.    *)
LEMMA RawsAre ==
  ASSUME NEW s \in Seq(Bytes), NEW i \in 1 .. Len(s), ~IsWhole(s, i)
  PROVE  Raws(s, i) \in Seq(TextUnits)
<1>1. /\ Bad(s, i) \in 1 .. 2
      /\ \A k \in 0 .. Bad(s, i) - 1 : i + k \in 1 .. Len(s) /\ UnitAt(s \o <<>>, i + k) = RawByte(s[i + k])
  BY RawStays, EmptySeq
<1>2. s \o <<>> = s
  BY ConcatEmptySeq
<1>3. \A k \in 0 .. Bad(s, i) - 1 : i + k \in 1 .. Len(s) /\ <<RawByte(s[i + k])>> \in Seq(TextUnits)
  BY <1>1, <1>2, OneUnit
<1>4. i \in Nat /\ i + 0 = i /\ 0 \in 0 .. Bad(s, i) - 1 /\ Bad(s, i) - 1 \in 0 .. Bad(s, i) - 1
  BY <1>1
<1>5. Raws(s, i) = IF Bad(s, i) = 1 THEN <<RawByte(s[i])>>
                   ELSE <<RawByte(s[i])>> \o <<RawByte(s[i + 1])>>
  <2>1. i + Bad(s, i) - 1 \in 1 .. Len(s)
    BY <1>1, <1>3, <1>4
  <2> QED
    BY <1>1, <2>1, RawBytesAre DEF Raws
<1>6. <<RawByte(s[i])>> \in Seq(TextUnits)
  BY <1>3, <1>4
<1>7. CASE Bad(s, i) = 1
  BY <1>5, <1>6, <1>7
<1>8. CASE Bad(s, i) = 2
  <2>1. 1 \in 0 .. Bad(s, i) - 1
    BY <1>8
  <2>2. <<RawByte(s[i + 1])>> \in Seq(TextUnits)
    BY <1>3, <2>1
  <2> QED
    BY <1>5, <1>6, <1>8, <2>2, ConcatProperties
<1> QED
  BY <1>1, <1>7, <1>8

LEMMA RawsWalk ==
  ASSUME NEW s \in Seq(Bytes), NEW t \in Seq(Bytes), NEW i \in 1 .. Len(s),
         ~IsWhole(s, i), IsShort(s, i) => t = <<>>, NEW f, Walk(s \o t, f)
  PROVE  f[i] = Raws(s, i) \o f[i + Bad(s, i)]
<1> DEFINE x == s \o t
           b == Bad(s, i)
<1>1. /\ b \in 1 .. 2 /\ i + b \in (i + 1) .. (Len(s) + 1)
      /\ \A k \in 0 .. b - 1 : /\ i + k \in 1 .. Len(s)
                               /\ Width(x, i + k) = 1 /\ UnitAt(x, i + k) = RawByte(s[i + k])
  BY RawStays
<1>2. x \in Seq(Bytes) /\ Len(x) = Len(s) + Len(t) /\ Len(s) \in Nat /\ Len(t) \in Nat /\ i \in Nat
  BY ConcatProperties, LenProperties
<1> HIDE DEF x, b
<1>3. \A k \in 0 .. b - 1 : f[i + k] = <<RawByte(s[i + k])>> \o f[i + k + 1]
  <2> TAKE k \in 0 .. b - 1
  <2>1. i + k \in 1 .. Len(x)
    BY <1>1, <1>2
  <2>2. f[i + k] = Piled(<<UnitAt(x, i + k)>>, f[(i + k) + Width(x, i + k)])
    BY <2>1 DEF Walk, x
  <2> QED
    BY <1>1, <2>2 DEF Piled
<1>4. f[i] = <<RawByte(s[i])>> \o f[i + 1]
  <2>1. 0 \in 0 .. b - 1 /\ i + 0 = i
    BY <1>1, <1>2
  <2>2. f[i + 0] = <<RawByte(s[i + 0])>> \o f[i + 0 + 1]
    BY <1>3, <2>1
  <2> QED
    BY <2>1, <2>2
<1>5. Raws(s, i) = IF b = 1 THEN <<RawByte(s[i])>> ELSE <<RawByte(s[i])>> \o <<RawByte(s[i + 1])>>
  <2>1. i + b - 1 \in 1 .. Len(s)
    BY <1>1, <1>2
  <2> QED
    BY <1>1, <2>1, RawBytesAre DEF Raws, b
<1>6. CASE b = 1
  BY <1>4, <1>5, <1>6 DEF b
<1>7. CASE b = 2
  <2>1. 1 \in 0 .. b - 1 /\ i + 1 + 1 = i + 2 /\ 0 \in 0 .. b - 1 /\ i + 0 = i
    BY <1>2, <1>7
  <2>2. f[i + 1] = <<RawByte(s[i + 1])>> \o f[i + 2]
    BY <1>3, <2>1
  <2>3. i + 1 \in 1 .. Len(s) /\ i + 2 \in 1 .. Len(x) + 1
    BY <1>1, <1>2, <1>7, <2>1
  <2>4. f[i + 2] \in Seq(TextUnits)
    BY <2>3 DEF Walk, x
  <2>5. <<RawByte(s[i])>> \in Seq(TextUnits) /\ <<RawByte(s[i + 1])>> \in Seq(TextUnits)
    <3>1. /\ UnitAt(x, i) = RawByte(s[i]) /\ UnitAt(x, i + 1) = RawByte(s[i + 1])
          /\ i \in 1 .. Len(x) /\ i + 1 \in 1 .. Len(x)
      <4>1. UnitAt(x, i + 0) = RawByte(s[i + 0]) /\ UnitAt(x, i + 1) = RawByte(s[i + 1])
        BY <1>1, <2>1
      <4> QED
        BY <1>2, <2>1, <2>3, <4>1
    <3> QED
      BY <1>2, <3>1, OneUnit
  <2>6. (<<RawByte(s[i])>> \o <<RawByte(s[i + 1])>>) \o f[i + 2]
          = <<RawByte(s[i])>> \o (<<RawByte(s[i + 1])>> \o f[i + 2])
    BY <2>4, <2>5, ConcatAssociative
  <2> QED
    BY <1>4, <1>5, <1>7, <2>2, <2>6 DEF b
<1> QED
  BY <1>1, <1>6, <1>7

LEMMA DecodesExist ==
  ASSUME NEW s \in Seq(Bytes), NEW final
  PROVE  \E d : Decodes(s, final, d)
<1> DEFINE n == Len(s)
           stops == {i \in 1 .. n : ~IsWhole(s, i) /\ IsShort(s, i) /\ ~final}
           ends == stops \cup {n + 1}
           succ == [i \in 1 .. n |-> IF IsWhole(s, i) THEN i + Fitting(s, i) ELSE i + Bad(s, i)]
           piece == [i \in 1 .. n |-> IF IsWhole(s, i) THEN Sure(s, i) ELSE Raws(s, i)]
<1>1. n \in Nat /\ n + 1 \in ends
  BY LenProperties
<1>2. ends \in SUBSET (1 .. n + 1)
  BY <1>1
<1>3. ASSUME NEW i \in 1 .. n
      PROVE  succ[i] \in (i + 1) .. (n + 1) /\ piece[i] \in Seq(TextUnits)
  <2>1. CASE IsWhole(s, i)
    <3>1. /\ i + Fitting(s, i) \in (i + 1) .. (n + 1)
          /\ UnitAt(s \o <<>>, i) = Scalar(SubSeq(s, i, i + Fitting(s, i) - 1))
      BY <2>1, WholeStays, EmptySeq
    <3>2. s \o <<>> = s
      BY ConcatEmptySeq
    <3>3. Sure(s, i) \in Seq(TextUnits)
      BY <3>1, <3>2, OneUnit DEF Sure
    <3> QED
      BY <2>1, <3>1, <3>3
  <2>2. CASE ~IsWhole(s, i)
    <3>1. i + Bad(s, i) \in (i + 1) .. (n + 1)
      BY <2>2, RawStays, EmptySeq
    <3>2. Raws(s, i) \in Seq(TextUnits)
      BY <2>2, RawsAre
    <3> QED
      BY <2>2, <3>1, <3>2
  <2> QED
    BY <2>1, <2>2
<1>4. \A i \in 1 .. n :
        /\ succ[i] = IF IsWhole(s, i) THEN i + Fitting(s, i) ELSE i + Bad(s, i)
        /\ piece[i] = IF IsWhole(s, i) THEN Sure(s, i) ELSE Raws(s, i)
        /\ i \in ends <=> ~IsWhole(s, i) /\ IsShort(s, i) /\ ~final
  BY <1>1
<1> HIDE DEF succ, piece, ends, stops, n
<1>5. PICK r \in [1 .. n + 1 -> Seq(TextUnits)], k \in [1 .. n + 1 -> 1 .. n + 1] :
        \A i \in 1 .. n + 1 : Walks(n, ends, succ, piece, TextUnits, r, k, i)
  <2>1. \A i \in 1 .. n : succ[i] \in (i + 1) .. (n + 1)
    BY <1>3
  <2>2. \A i \in 1 .. n : piece[i] \in Seq(TextUnits)
    BY <1>3
  <2> QED
    BY <1>1, <1>2, <2>1, <2>2, WalksExist
<1> DEFINE d == [i \in 1 .. n + 1 |-> [ready |-> r[i], kept |-> k[i]]]
<1>6. \A i \in 1 .. n + 1 : d[i] = [ready |-> r[i], kept |-> k[i]]
  OBVIOUS
<1> HIDE DEF d
<1>7. \A i \in 1 .. n + 1 : d[i] = DecodeAt(s, final, d, i)
  <2> TAKE i \in 1 .. n + 1
  <2>1. CASE i = n + 1
    <3>1. r[i] = <<>> /\ k[i] = i
      BY <1>1, <1>5, <2>1 DEF Walks
    <3>2. i > Len(s)
      BY <1>1, <2>1 DEF n
    <3>3. DecodeAt(s, final, d, i) = [ready |-> <<>>, kept |-> i]
      BY <3>2 DEF DecodeAt
    <3> QED
      BY <1>6, <3>1, <3>3
  <2>2. CASE i # n + 1
    <3>1. i \in 1 .. n /\ ~(i > Len(s))
      BY <1>1, <2>2 DEF n
    <3>2. succ[i] \in 1 .. n + 1
      <4>1. succ[i] \in (i + 1) .. (n + 1)
        BY <1>3, <3>1
      <4> QED
        BY <1>1, <3>1, <4>1, Between
    <3>3. d[succ[i]] = [ready |-> r[succ[i]], kept |-> k[succ[i]]]
      BY <1>6, <3>2
    <3>4. \A p : Ahead(p, d[succ[i]]) = [ready |-> p \o r[succ[i]], kept |-> k[succ[i]]]
      <4> TAKE p
      <4>1. Ahead(p, [ready |-> r[succ[i]], kept |-> k[succ[i]]]) =
              [ready |-> p \o r[succ[i]], kept |-> k[succ[i]]]
        BY AheadIs
      <4> QED
        BY <3>3, <4>1
    <3>5. CASE i \in ends
      <4>1. r[i] = <<>> /\ k[i] = i
        BY <1>5, <3>5 DEF Walks
      <4>2. DecodeAt(s, final, d, i) = [ready |-> <<>>, kept |-> i]
        BY <1>4, <3>1, <3>5 DEF DecodeAt
      <4> QED
        BY <1>6, <4>1, <4>2
    <3>6. CASE i \notin ends
      <4>1. r[i] = piece[i] \o r[succ[i]] /\ k[i] = k[succ[i]]
        BY <1>5, <3>6 DEF Walks
      <4>2. DecodeAt(s, final, d, i) = Ahead(piece[i], d[succ[i]])
        <5>1. CASE IsWhole(s, i)
          <6>1. ~(IsShort(s, i) /\ ~final)
            BY <5>1 DEF IsShort
          <6>2. DecodeAt(s, final, d, i) = Ahead(Sure(s, i), d[i + Fitting(s, i)])
            BY <3>1, <5>1, <6>1 DEF DecodeAt
          <6> QED
            BY <1>4, <3>1, <5>1, <6>2
        <5>2. CASE ~IsWhole(s, i)
          <6>1. ~(IsShort(s, i) /\ ~final)
            BY <1>4, <3>1, <3>6, <5>2
          <6> QED
            BY <1>4, <3>1, <5>2, <6>1 DEF DecodeAt
        <5> QED
          BY <5>1, <5>2
      <4> QED
        BY <1>6, <3>4, <4>1, <4>2
    <3> QED
      BY <3>5, <3>6
  <2> QED
    BY <2>1, <2>2
<1>8. d = [i \in 1 .. n + 1 |-> DecodeAt(s, final, d, i)]
  <2>1. d = [i \in 1 .. n + 1 |-> d[i]]
    BY DEF d
  <2> QED
    BY <1>7, <2>1
<1>9. Decodes(s, final, d)
  BY <1>8, DecodesAre DEF n
<1> QED
  BY <1>9

LEMMA UnitsRegroup ==
  \A a, b, c \in Seq(TextUnits) : a \o b \in Seq(TextUnits) /\ (a \o b) \o c = a \o (b \o c)
  BY ConcatAssociative, ConcatProperties

LEMMA BytesRegroup ==
  \A a, b, c \in Seq(Bytes) : a \o b \in Seq(Bytes) /\ (a \o b) \o c = a \o (b \o c)
  BY ConcatAssociative, ConcatProperties

(* From each place, the walk over the bytes however they go on is what the  *)
(* decoder gives out and then the walk from what it keeps.                  *)
Continues(final, t) == final => t = <<>>
SplitBy(s, final, d, f) ==
  /\ d[1].ready \in Seq(TextUnits) /\ d[1].kept \in 1 .. Len(s) + 1
  /\ final => d[1].kept = Len(s) + 1
  /\ f[1] = d[1].ready \o f[d[1].kept]

LEMMA DecodeWalks ==
  ASSUME NEW s \in Seq(Bytes), NEW t \in Seq(Bytes), NEW final \in BOOLEAN,
         Continues(final, t), NEW f, Walk(s \o t, f), NEW d, Decodes(s, final, d)
  PROVE  SplitBy(s, final, d, f)
<1>0. final => t = <<>>
  BY DEF Continues
<1> DEFINE n == Len(s)
           x == s \o t
           Good(i) == /\ d[i] = [ready |-> d[i].ready, kept |-> d[i].kept]
                      /\ d[i].ready \in Seq(TextUnits) /\ d[i].kept \in 1 .. n + 1
                      /\ final => d[i].kept = n + 1
                      /\ f[i] = d[i].ready \o f[d[i].kept]
           T == {i \in 1 .. n + 1 : Good(i)}
<1>1. n \in Nat /\ Len(t) \in Nat /\ x \in Seq(Bytes) /\ Len(x) = n + Len(t)
  BY LenProperties, ConcatProperties
<1>2. \A i \in 1 .. n + 1 : d[i] = DecodeAt(s, final, d, i)
  <2>1. d = [i \in 1 .. (Len(s) + 1) |-> DecodeAt(s, final, d, i)]
    BY DecodesAre
  <2> QED
    BY <2>1
<1>3. \A i \in 1 .. n + 1 : f[i] \in Seq(TextUnits)
  <2>1. f \in [1 .. Len(x) + 1 -> Seq(TextUnits)]
    BY DEF Walk
  <2> HIDE DEF x, n
  <2> QED
    BY <1>1, <2>1
<1>4. ASSUME NEW i \in 1 .. n + 1, d[i] = [ready |-> <<>>, kept |-> i], final => i = n + 1
      PROVE  Good(i)
  <2>1. f[i] = <<>> \o f[i]
    BY <1>3, ConcatEmptySeq
  <2>2. d[i].ready = <<>> /\ d[i].kept = i
    BY <1>4
  <2> HIDE DEF n
  <2> QED
    BY <1>4, <2>1, <2>2, EmptySeq
<1>5. ASSUME NEW i \in 1 .. n + 1, NEW j \in 1 .. n + 1, Good(j), NEW p \in Seq(TextUnits),
             d[i] = Ahead(p, d[j]), f[i] = p \o f[j]
      PROVE  Good(i)
  <2> DEFINE r == d[j].ready
             k == d[j].kept
  <2>1. d[j] = [ready |-> r, kept |-> k]
    BY <1>5
  <2>2. /\ r \in Seq(TextUnits) /\ k \in 1 .. n + 1 /\ (final => k = n + 1)
        /\ f[j] = r \o f[k]
    BY <1>5
  <2> HIDE DEF r, k, n
  <2>3. d[i] = [ready |-> p \o r, kept |-> k]
    <3>1. Ahead(p, [ready |-> r, kept |-> k]) = [ready |-> p \o r, kept |-> k]
      BY AheadIs
    <3> QED
      BY <1>5, <2>1, <3>1
  <2>4. d[i].ready = p \o r /\ d[i].kept = k
    BY <2>3
  <2>5. p \o r \in Seq(TextUnits)
    BY <1>5, <2>2, ConcatProperties
  <2>6. f[k] \in Seq(TextUnits)
    BY <1>3, <2>2
  <2>7. f[i] = (p \o r) \o f[k]
    <3>1. (p \o r) \o f[k] = p \o (r \o f[k])
      BY <2>2, <2>6, UnitsRegroup
    <3> QED
      BY <1>5, <2>2, <3>1
  <2> QED
    BY <2>2, <2>3, <2>4, <2>5, <2>7
<1>6. n + 1 \in T
  <2>1. n + 1 \in 1 .. n + 1 /\ n + 1 > Len(s)
    BY <1>1
  <2>2. d[n + 1] = [ready |-> <<>>, kept |-> n + 1]
    BY <1>2, <2>1 DEF DecodeAt
  <2>3. Good(n + 1)
    <3> HIDE DEF Good, n
    <3> QED
      BY <1>4, <2>1, <2>2
  <2> HIDE DEF Good
  <2> QED
    BY <2>1, <2>3
<1>7. \A i \in 1 .. n : (i + 1) .. (n + 1) \subseteq T => i \in T
  <2> SUFFICES ASSUME NEW i \in 1 .. n, (i + 1) .. (n + 1) \subseteq T PROVE Good(i)
    <3>1. \A i \in 1 .. n : i \in 1 .. n + 1
      BY <1>1
    <3> HIDE DEF Good
    <3> QED
      BY <3>1
  <2> HIDE DEF Good
  <2>1. i \in 1 .. n + 1 /\ ~(i > Len(s)) /\ i \in 1 .. Len(x)
    BY <1>1
  <2>2. \A j \in (i + 1) .. (n + 1) : j \in 1 .. n + 1 /\ Good(j)
    OBVIOUS
  <2>3. d[i] = DecodeAt(s, final, d, i)
    BY <1>2, <2>1
  <2>4. CASE IsWhole(s, i)
    <3>1. /\ i + Fitting(s, i) \in (i + 1) .. (n + 1) /\ Width(x, i) = Fitting(s, i)
          /\ UnitAt(x, i) = Scalar(SubSeq(s, i, i + Fitting(s, i) - 1))
      BY <1>0, <2>4, WholeStays
    <3>2. f[i] = Piled(<<UnitAt(x, i)>>, f[i + Width(x, i)])
      BY <2>1 DEF Walk
    <3>3. f[i] = Sure(s, i) \o f[i + Fitting(s, i)] /\ Sure(s, i) \in Seq(TextUnits)
      BY <1>1, <2>1, <3>1, <3>2, OneUnit DEF Piled, Sure
    <3>4. d[i] = Ahead(Sure(s, i), d[i + Fitting(s, i)])
      <4>1. ~(IsShort(s, i) /\ ~final)
        BY <2>4 DEF IsShort
      <4> QED
        BY <2>1, <2>3, <2>4, <4>1 DEF DecodeAt
    <3> DEFINE j == i + Fitting(s, i)
    <3>5. j \in 1 .. n + 1 /\ Good(j)
      BY <2>2, <3>1
    <3> HIDE DEF j, n, x
    <3>6. d[i] = Ahead(Sure(s, i), d[j]) /\ f[i] = Sure(s, i) \o f[j]
      BY <3>3, <3>4 DEF j
    <3> QED
      BY <1>5, <2>1, <3>3, <3>5, <3>6
  <2>5. CASE ~IsWhole(s, i) /\ IsShort(s, i) /\ ~final
    <3>1. d[i] = [ready |-> <<>>, kept |-> i]
      BY <2>1, <2>3, <2>5 DEF DecodeAt
    <3> HIDE DEF n, x
    <3> QED
      BY <1>4, <2>1, <2>5, <3>1
  <2>6. CASE ~IsWhole(s, i) /\ ~(IsShort(s, i) /\ ~final)
    <3>1. i + Bad(s, i) \in (i + 1) .. (n + 1)
      BY <1>0, <2>6, RawStays
    <3>2. f[i] = Raws(s, i) \o f[i + Bad(s, i)]
      BY <1>0, <2>6, RawsWalk
    <3>3. Raws(s, i) \in Seq(TextUnits)
      BY <2>6, RawsAre
    <3>4. d[i] = Ahead(Raws(s, i), d[i + Bad(s, i)])
      BY <2>1, <2>3, <2>6 DEF DecodeAt
    <3> DEFINE j == i + Bad(s, i)
    <3>5. j \in 1 .. n + 1 /\ Good(j)
      BY <2>2, <3>1
    <3> HIDE DEF j, n, x
    <3>6. d[i] = Ahead(Raws(s, i), d[j]) /\ f[i] = Raws(s, i) \o f[j]
      BY <3>2, <3>4 DEF j
    <3> QED
      BY <1>5, <2>1, <3>3, <3>5, <3>6
  <2> QED
    BY <2>4, <2>5, <2>6
<1>8. Good(1)
  <2>1. T \in SUBSET (1 .. n + 1)
    OBVIOUS
  <2> HIDE DEF T, n, Good
  <2>3. 1 \in 1 .. n + 1
    BY <1>1
  <2>2. T = 1 .. n + 1
    BY <1>1, <1>6, <1>7, <2>1, Descends
  <2> QED
    BY <2>2, <2>3 DEF T
<1> QED
  BY <1>8 DEF SplitBy

LEMMA NothingHasNoUnits == UnitsOf(<<>>) = <<>>
<1>1. <<>> \in Seq(Bytes) /\ Len(<<>>) = 0
  BY EmptySeq
<1>2. PICK f : Walk(<<>>, f) /\ UnitsOf(<<>>) = f[1]
  BY <1>1, UnitsWalk
<1> QED
  BY <1>1, <1>2 DEF Walk

LEMMA UnitsAreTyped == ASSUME NEW s \in Seq(Bytes) PROVE UnitsOf(s) \in Seq(TextUnits)
<1>1. PICK f : Walk(s, f) /\ UnitsOf(s) = f[1]
  BY UnitsWalk
<1>2. 1 \in 1 .. Len(s) + 1
  BY LenProperties
<1> QED
  BY <1>1, <1>2 DEF Walk

LEMMA Leftover ==
  ASSUME NEW s \in Seq(Bytes), NEW t \in Seq(Bytes), NEW m \in 1 .. Len(s) + 1
  PROVE  /\ SubSeq(s, m, Len(s)) \in Seq(Bytes)
         /\ SubSeq(s, m, Len(s)) \o t = SubSeq(s \o t, m, Len(s \o t))
<1> DEFINE x == s \o t
           p == SubSeq(s, m, Len(s))
           q == SubSeq(x, m, Len(x))
<1>1. /\ x \in Seq(Bytes) /\ Len(x) = Len(s) + Len(t) /\ Len(s) \in Nat /\ Len(t) \in Nat
      /\ \A k \in 1 .. Len(s) + Len(t) : x[k] = IF k <= Len(s) THEN s[k] ELSE t[k - Len(s)]
  BY ConcatProperties, LenProperties
<1>2. p \in Seq(Bytes) /\ Len(p) = Len(s) + 1 - m /\ \A j \in 1 .. Len(p) : p[j] = s[m - 1 + j]
  BY Rest
<1>3. m \in 1 .. Len(x) + 1
  <2> HIDE DEF x
  <2> QED
    BY <1>1
<1>4. q \in Seq(Bytes) /\ Len(q) = Len(x) + 1 - m /\ \A j \in 1 .. Len(q) : q[j] = x[m - 1 + j]
  BY <1>1, <1>3, Rest
<1> HIDE DEF p, q, x, Bytes
<1>5. /\ p \o t \in Seq(Bytes) /\ Len(p \o t) = Len(p) + Len(t)
      /\ \A k \in 1 .. Len(p) + Len(t) : (p \o t)[k] = IF k <= Len(p) THEN p[k] ELSE t[k - Len(p)]
  BY <1>2, ConcatProperties
<1>6. Len(p \o t) = Len(q)
  BY <1>1, <1>2, <1>4, <1>5
<1>7. ASSUME NEW k \in 1 .. Len(p \o t) PROVE (p \o t)[k] = q[k]
  <2>1. /\ q[k] = x[m - 1 + k] /\ k \in 1 .. Len(p) + Len(t)
        /\ m - 1 + k \in 1 .. Len(s) + Len(t) /\ (k <= Len(p) <=> m - 1 + k <= Len(s))
        /\ m - 1 + k - Len(s) = k - Len(p)
    BY <1>1, <1>2, <1>4, <1>5, <1>6
  <2>2. CASE k <= Len(p)
    <3>1. k \in 1 .. Len(p)
      BY <1>2, <1>1, <2>1, <2>2
    <3> QED
      BY <1>1, <1>2, <1>5, <2>1, <2>2, <3>1
  <2>3. CASE ~(k <= Len(p))
    <3>1. (p \o t)[k] = t[k - Len(p)]
      BY <1>5, <2>1, <2>3
    <3>2. x[m - 1 + k] = t[m - 1 + k - Len(s)]
      BY <1>1, <2>1, <2>3
    <3> QED
      BY <2>1, <3>1, <3>2
  <2> QED
    BY <2>2, <2>3
<1>8. p \o t = q
  BY <1>4, <1>5, <1>6, <1>7, SeqEqual
<1> QED
  BY <1>2, <1>8 DEF p, q, x

(* Decode splits the bytes between units given out and bytes kept so that,  *)
(* however the bytes go on, the units are those of the whole.               *)
LEMMA DecodeSplits ==
  ASSUME NEW a, NEW s \in Seq(Bytes), a = [pending |-> s, ready |-> a.ready],
         a.ready \in Seq(TextUnits), NEW final \in BOOLEAN
  PROVE  LET b == Decode(a, final)
         IN  /\ b = [pending |-> b.pending, ready |-> b.ready]
             /\ b.pending \in Seq(Bytes) /\ b.ready \in Seq(TextUnits)
             /\ final => b.pending = <<>>
             /\ \A t \in Seq(Bytes) : (final => t = <<>>) =>
                  a.ready \o UnitsOf(s \o t) = b.ready \o UnitsOf(b.pending \o t)
<1> DEFINE d == CHOOSE from : Decodes(s, final, from)
           b == Decode(a, final)
<1>1. b = [pending |-> SubSeq(s, d[1].kept, Len(s)), ready |-> a.ready \o d[1].ready]
  <2>1. a.pending = s
    OBVIOUS
  <2>2. Decode(a, final) =
          LET e == CHOOSE from : Decodes(a.pending, final, from)
          IN [pending |-> SubSeq(a.pending, e[1].kept, Len(a.pending)), ready |-> a.ready \o e[1].ready]
    BY Zenon DEF Decode, Decodes
  <2> QED
    BY <2>1, <2>2
<1>2. Decodes(s, final, d)
  BY DecodesExist
<1> HIDE DEF d, b
<1>3. ASSUME NEW t \in Seq(Bytes), final => t = <<>>
      PROVE  /\ d[1].ready \in Seq(TextUnits) /\ d[1].kept \in 1 .. Len(s) + 1
             /\ final => d[1].kept = Len(s) + 1
             /\ UnitsOf(s \o t) = d[1].ready \o UnitsOf(SubSeq(s, d[1].kept, Len(s)) \o t)
  <2>1. s \o t \in Seq(Bytes) /\ Len(s \o t) = Len(s) + Len(t) /\ Len(s) \in Nat /\ Len(t) \in Nat
    BY ConcatProperties, LenProperties
  <2>2. PICK f : Walk(s \o t, f) /\ UnitsOf(s \o t) = f[1]
    BY <2>1, UnitsWalk
  <2>3. /\ d[1].ready \in Seq(TextUnits) /\ d[1].kept \in 1 .. Len(s) + 1
        /\ final => d[1].kept = Len(s) + 1
        /\ f[1] = d[1].ready \o f[d[1].kept]
    <3>1. Walk(s \o t, f)
      BY <2>2
    <3>2. Continues(final, t)
      BY <1>3 DEF Continues
    <3>3. SplitBy(s, final, d, f)
      BY <1>2, <3>1, <3>2, DecodeWalks
    <3> QED
      BY <3>3 DEF SplitBy
  <2>4. d[1].kept \in 1 .. Len(s \o t) + 1
    BY <2>1, <2>3
  <2>5. UnitsOf(SubSeq(s \o t, d[1].kept, Len(s \o t))) = f[d[1].kept]
    BY <2>1, <2>2, <2>4, RestWalk
  <2>6. SubSeq(s, d[1].kept, Len(s)) \o t = SubSeq(s \o t, d[1].kept, Len(s \o t))
    BY <2>3, Leftover
  <2> QED
    BY <2>2, <2>3, <2>5, <2>6
<1>4. /\ d[1].ready \in Seq(TextUnits) /\ d[1].kept \in 1 .. Len(s) + 1
      /\ final => d[1].kept = Len(s) + 1
  BY <1>3, EmptySeq
<1>5. b.pending = SubSeq(s, d[1].kept, Len(s)) /\ b.ready = a.ready \o d[1].ready
  BY <1>1
<1>6. b.pending \in Seq(Bytes) /\ b.ready \in Seq(TextUnits)
  <2>1. SubSeq(s, d[1].kept, Len(s)) \in Seq(Bytes)
    BY <1>4, EmptySeq, Leftover
  <2> QED
    BY <1>4, <1>5, <2>1, ConcatProperties
<1>7. final => b.pending = <<>>
  <2>1. Len(s) \in Int /\ Len(s) + 1 \in Int /\ Len(s) < Len(s) + 1
    BY LenProperties
  <2>2. SubSeq(s, Len(s) + 1, Len(s)) = <<>>
    BY <2>1, SubSeqEmpty
  <2> QED
    BY <1>4, <1>5, <2>2
<1>8. ASSUME NEW t \in Seq(Bytes), final => t = <<>>
      PROVE  a.ready \o UnitsOf(s \o t) = b.ready \o UnitsOf(b.pending \o t)
  <2> DEFINE u == UnitsOf(b.pending \o t)
  <2>1. UnitsOf(s \o t) = d[1].ready \o u
    BY <1>3, <1>5, <1>8
  <2>2. u \in Seq(TextUnits)
    BY <1>6, ConcatProperties, UnitsAreTyped
  <2>3. (a.ready \o d[1].ready) \o u = a.ready \o (d[1].ready \o u)
    BY <1>4, <2>2, UnitsRegroup
  <2> HIDE DEF u
  <2>4. a.ready \o UnitsOf(s \o t) = b.ready \o u
    BY <1>5, <2>1, <2>3
  <2> QED
    BY <2>4 DEF u
<1>9. b = [pending |-> b.pending, ready |-> b.ready]
  BY <1>1, <1>5
<1>10. \A t \in Seq(Bytes) : (final => t = <<>>) =>
         a.ready \o UnitsOf(s \o t) = b.ready \o UnitsOf(b.pending \o t)
  BY <1>8
<1> QED
  BY <1>6, <1>7, <1>9, <1>10 DEF b

(***************************************************************************)
(* The decoder as it runs.  However the bytes go on, what was taken, what  *)
(* is ready and the units of what is pending then are the units settled    *)
(* and those of the bytes received then.  For the bytes as they are this   *)
(* is the property; for any others it is what the next chunk needs.        *)
(***************************************************************************)
DecoderTyped ==
  /\ decoder = [pending |-> decoder.pending, ready |-> decoder.ready]
  /\ decoder.pending \in Seq(Bytes) /\ decoder.ready \in Seq(TextUnits)
  /\ taken \in Seq(TextUnits) /\ settled \in Seq(TextUnits) /\ received \in Seq(Bytes)

Agreed == \A t \in Seq(Bytes) :
            settled \o UnitsOf(received \o t) =
              taken \o (decoder.ready \o UnitsOf(decoder.pending \o t))

DecoderInv == DecoderTyped /\ Agreed

LEMMA DecoderStarts == ASSUME DecoderInit PROVE DecoderInv
<1>1. /\ decoder.pending = <<>> /\ decoder.ready = <<>> /\ taken = <<>> /\ settled = <<>>
      /\ received = <<>> /\ decoder = [pending |-> decoder.pending, ready |-> decoder.ready]
  BY DEF DecoderInit, NoBytes
<1>2. DecoderTyped
  BY <1>1, EmptySeq DEF DecoderTyped
<1>3. \A t \in Seq(Bytes) : <<>> \o UnitsOf(<<>> \o t) = <<>> \o (<<>> \o UnitsOf(<<>> \o t))
  <2> TAKE t \in Seq(Bytes)
  <2>1. UnitsOf(<<>> \o t) \in Seq(TextUnits)
    BY EmptySeq, ConcatProperties, UnitsAreTyped
  <2> QED
    BY <2>1, ConcatEmptySeq
<1> QED
  BY <1>1, <1>2, <1>3 DEF DecoderInv, Agreed

LEMMA ReceiveAgrees ==
  ASSUME DecoderInv, NEW bytes \in Seq(Bytes), Receive(bytes)
  PROVE  DecoderInv'
<1> DEFINE s == decoder.pending \o bytes
           a == [decoder EXCEPT !.pending = decoder.pending \o bytes]
<1>1. /\ decoder' = Decode(a, FALSE) /\ received' = received \o bytes
      /\ taken' = taken /\ settled' = settled
  BY DEF Receive, Push
<1>2. DecoderTyped /\ Agreed
  BY DEF DecoderInv
<1>3. s \in Seq(Bytes) /\ received \o bytes \in Seq(Bytes)
  BY <1>2, ConcatProperties DEF DecoderTyped
<1>4. a = [pending |-> s, ready |-> decoder.ready]
  <2> DEFINE p == decoder.pending
             r == decoder.ready
  <2>1. decoder = [pending |-> p, ready |-> r]
    BY <1>2 DEF DecoderTyped
  <2> HIDE DEF p, r, s
  <2>2. [decoder EXCEPT !.pending = s] = [pending |-> s, ready |-> r]
    BY <2>1
  <2> QED
    BY <2>2 DEF s, p, r
<1> HIDE DEF s, a
<1>5. a.ready = decoder.ready /\ a = [pending |-> s, ready |-> a.ready]
  BY <1>4
<1>6. /\ decoder' = [pending |-> decoder'.pending, ready |-> decoder'.ready]
      /\ decoder'.pending \in Seq(Bytes) /\ decoder'.ready \in Seq(TextUnits)
      /\ \A t \in Seq(Bytes) :
           a.ready \o UnitsOf(s \o t) = decoder'.ready \o UnitsOf(decoder'.pending \o t)
  BY <1>1, <1>2, <1>3, <1>5, DecodeSplits DEF DecoderTyped
<1>7. DecoderTyped'
  BY <1>1, <1>2, <1>3, <1>6 DEF DecoderTyped
<1>8. ASSUME NEW t \in Seq(Bytes)
      PROVE  settled \o UnitsOf((received \o bytes) \o t) =
               taken \o (decoder'.ready \o UnitsOf(decoder'.pending \o t))
  <2>1. bytes \o t \in Seq(Bytes)
    BY ConcatProperties
  <2>2. (received \o bytes) \o t = received \o (bytes \o t) /\ s \o t = decoder.pending \o (bytes \o t)
    <3>1. received \in Seq(Bytes) /\ decoder.pending \in Seq(Bytes)
      BY <1>2 DEF DecoderTyped
    <3>2. (received \o bytes) \o t = received \o (bytes \o t)
      BY <3>1, BytesRegroup
    <3>3. (decoder.pending \o bytes) \o t = decoder.pending \o (bytes \o t)
      BY <3>1, BytesRegroup
    <3> QED
      BY <3>2, <3>3 DEF s
  <2>3. settled \o UnitsOf(received \o (bytes \o t)) =
          taken \o (decoder.ready \o UnitsOf(decoder.pending \o (bytes \o t)))
    BY <1>2, <2>1 DEF Agreed
  <2>4. a.ready \o UnitsOf(s \o t) = decoder'.ready \o UnitsOf(decoder'.pending \o t)
    BY <1>6
  <2> QED
    BY <1>5, <2>2, <2>3, <2>4
<1> QED
  BY <1>1, <1>7, <1>8 DEF DecoderInv, Agreed

(* What Finish gives out: the units of what was pending.                    *)
LEMMA Finished ==
  ASSUME DecoderInv
  PROVE  /\ Finish(decoder) = [pending |-> <<>>, ready |-> Finish(decoder).ready]
         /\ Finish(decoder).ready \in Seq(TextUnits)
         /\ settled \o UnitsOf(received) = taken \o Finish(decoder).ready
<1> DEFINE b == Finish(decoder)
<1>1. DecoderTyped /\ Agreed
  BY DEF DecoderInv
<1>2. b = Decode(decoder, TRUE)
  BY DEF Finish
<1>3. /\ b = [pending |-> b.pending, ready |-> b.ready]
      /\ b.pending = <<>> /\ b.ready \in Seq(TextUnits)
      /\ \A t \in Seq(Bytes) : t = <<>> =>
           decoder.ready \o UnitsOf(decoder.pending \o t) = b.ready \o UnitsOf(b.pending \o t)
  <2> HIDE DEF b
  <2> QED
    BY <1>1, <1>2, DecodeSplits DEF DecoderTyped
<1> HIDE DEF b
<1>4. <<>> \in Seq(Bytes) /\ received \o <<>> = received /\ <<>> \o <<>> = <<>>
  BY <1>1, EmptySeq, ConcatEmptySeq DEF DecoderTyped
<1>5. b.ready \o UnitsOf(b.pending \o <<>>) = b.ready
  BY <1>3, <1>4, NothingHasNoUnits, ConcatEmptySeq
<1>6. decoder.ready \o UnitsOf(decoder.pending \o <<>>) = b.ready
  BY <1>3, <1>4, <1>5
<1>7. settled \o UnitsOf(received \o <<>>) =
        taken \o (decoder.ready \o UnitsOf(decoder.pending \o <<>>))
  BY <1>1, <1>4 DEF Agreed
<1> QED
  BY <1>3, <1>4, <1>6, <1>7 DEF b

(* Between two runs of bytes everything pending has been given out.         *)
LEMMA AfreshAgrees ==
  ASSUME DecoderTyped', decoder'.pending = <<>>, received' = <<>>,
         settled' = taken' \o decoder'.ready
  PROVE  DecoderInv'
<1>1. /\ decoder'.ready \in Seq(TextUnits) /\ taken' \in Seq(TextUnits)
  BY DEF DecoderTyped
<1>2. ASSUME NEW t \in Seq(Bytes)
      PROVE  settled' \o UnitsOf(received' \o t) =
               taken' \o (decoder'.ready \o UnitsOf(decoder'.pending \o t))
  <2>1. UnitsOf(<<>> \o t) \in Seq(TextUnits)
    BY EmptySeq, ConcatProperties, UnitsAreTyped
  <2> DEFINE u == UnitsOf(<<>> \o t)
  <2> HIDE DEF u
  <2>2. (taken' \o decoder'.ready) \o u = taken' \o (decoder'.ready \o u)
    <3>1. u \in Seq(TextUnits)
      BY <2>1 DEF u
    <3> QED
      BY <1>1, <3>1, UnitsRegroup
  <2> QED
    BY <2>2 DEF u
<1> QED
  BY <1>2 DEF DecoderInv, Agreed

LEMMA EndAgrees == ASSUME DecoderInv, EndInput PROVE DecoderInv'
<1>1. /\ decoder' = Finish(decoder) /\ settled' = settled \o UnitsOf(received)
      /\ received' = <<>> /\ taken' = taken
  BY DEF EndInput
<1>2. DecoderTyped
  BY DEF DecoderInv
<1>3. /\ decoder' = [pending |-> <<>>, ready |-> decoder'.ready]
      /\ decoder'.ready \in Seq(TextUnits) /\ settled' = taken' \o decoder'.ready
  BY <1>1, Finished
<1>4. decoder'.pending = <<>>
  BY <1>3
<1>5. settled' \in Seq(TextUnits)
  BY <1>1, <1>2, <1>3, ConcatProperties DEF DecoderTyped
<1>6. DecoderTyped'
  BY <1>1, <1>2, <1>3, <1>4, <1>5, EmptySeq DEF DecoderTyped
<1> QED
  BY <1>1, <1>3, <1>4, <1>6, AfreshAgrees

LEMMA ClearAgrees == ASSUME DecoderInv, Clear PROVE DecoderInv'
<1>1. /\ decoder' = [pending |-> <<>>, ready |-> <<>>] /\ settled' = taken
      /\ received' = <<>> /\ taken' = taken
  BY DEF Clear, NoBytes
<1>2. decoder'.pending = <<>> /\ decoder'.ready = <<>>
  BY <1>1
<1>3. taken \in Seq(TextUnits)
  BY DEF DecoderInv, DecoderTyped
<1>4. settled' = taken' \o decoder'.ready
  BY <1>1, <1>2, <1>3, ConcatEmptySeq
<1>5. DecoderTyped'
  BY <1>1, <1>2, <1>3, EmptySeq DEF DecoderTyped
<1> QED
  BY <1>1, <1>2, <1>4, <1>5, AfreshAgrees

LEMMA HeadAndTail ==
  ASSUME NEW E, NEW r \in Seq(E), r # <<>>
  PROVE  r = <<Head(r)>> \o Tail(r)
<1>1. Len(r) \in Nat /\ Len(r) # 0
  BY EmptySeq, LenProperties
<1>2. 1 \in 1 .. Len(r) /\ Len(r) \in 1 .. Len(r) /\ 1 + 1 = 2
  BY <1>1
<1>3. SubSeq(r, 1, Len(r)) = <<r[1]>> \o SubSeq(r, 2, Len(r))
  BY <1>2, SubSeqRecursiveFirst
<1>4. SubSeq(r, 1, Len(r)) = r /\ Tail(r) = SubSeq(r, 2, Len(r)) /\ Head(r) = r[1]
  BY SubSeqFull, TailIsSubSeq
<1> QED
  BY <1>3, <1>4

LEMMA PopAgrees == ASSUME DecoderInv, Pop PROVE DecoderInv'
<1> DEFINE r == decoder.ready
           p == decoder.pending
<1>1. /\ r # <<>> /\ decoder' = [decoder EXCEPT !.ready = Tail(r)]
      /\ taken' = Append(taken, Head(r)) /\ received' = received /\ settled' = settled
  BY DEF Pop
<1>2. /\ decoder = [pending |-> p, ready |-> r] /\ p \in Seq(Bytes) /\ r \in Seq(TextUnits)
      /\ taken \in Seq(TextUnits) /\ settled \in Seq(TextUnits) /\ received \in Seq(Bytes)
  BY DEF DecoderInv, DecoderTyped
<1>3. Agreed
  BY DEF DecoderInv
<1> HIDE DEF r, p, TextUnits, Bytes
<1>4. decoder' = [pending |-> p, ready |-> Tail(r)]
  <2> DEFINE q == Tail(r)
  <2>1. decoder' = [decoder EXCEPT !.ready = q]
    BY <1>1
  <2> HIDE DEF q
  <2>2. decoder' = [pending |-> p, ready |-> q]
    BY <1>2, <2>1
  <2> QED
    BY <2>2 DEF q
<1>5. decoder'.pending = p /\ decoder'.ready = Tail(r)
  BY <1>4
<1>6. Head(r) \in TextUnits /\ Tail(r) \in Seq(TextUnits)
  BY <1>1, <1>2, HeadTailProperties
<1>7. taken' = taken \o <<Head(r)>> /\ <<Head(r)>> \in Seq(TextUnits) /\ taken' \in Seq(TextUnits)
  BY <1>1, <1>2, <1>6, AppendIsConcat, AppendProperties
<1>8. r = <<Head(r)>> \o Tail(r)
  BY <1>1, <1>2, HeadAndTail
<1>9. DecoderTyped'
  BY <1>1, <1>2, <1>4, <1>5, <1>6, <1>7 DEF DecoderTyped
<1>10. ASSUME NEW t \in Seq(Bytes)
       PROVE  settled' \o UnitsOf(received' \o t) =
                taken' \o (decoder'.ready \o UnitsOf(decoder'.pending \o t))
  <2> DEFINE u == UnitsOf(p \o t)
  <2>1. settled \o UnitsOf(received \o t) = taken \o (r \o u)
    BY <1>3 DEF Agreed, r, p
  <2>2. u \in Seq(TextUnits)
    BY <1>2, ConcatProperties, UnitsAreTyped
  <2> HIDE DEF u
  <2>3. r \o u = <<Head(r)>> \o (Tail(r) \o u)
    BY <1>6, <1>7, <1>8, <2>2, ConcatAssociative
  <2>4. Tail(r) \o u \in Seq(TextUnits)
    BY <1>6, <2>2, ConcatProperties
  <2>5. taken \o (<<Head(r)>> \o (Tail(r) \o u)) = (taken \o <<Head(r)>>) \o (Tail(r) \o u)
    <3> DEFINE v == Tail(r) \o u
               h == <<Head(r)>>
    <3>1. v \in Seq(TextUnits) /\ h \in Seq(TextUnits) /\ taken \in Seq(TextUnits)
      BY <1>2, <1>7, <2>4
    <3> HIDE DEF v, h
    <3>2. (taken \o h) \o v = taken \o (h \o v)
      BY <3>1, UnitsRegroup
    <3> QED
      BY <3>2 DEF v, h
  <2> QED
    BY <1>1, <1>5, <1>7, <2>1, <2>3, <2>5 DEF u
<1> QED
  BY <1>9, <1>10 DEF DecoderInv, Agreed

LEMMA DecoderStep == DecoderInv /\ [DecoderNext]_decoderVars => DecoderInv'
<1> SUFFICES ASSUME DecoderInv, [DecoderNext]_decoderVars PROVE DecoderInv'
  OBVIOUS
<1>1. ASSUME NEW n \in 1 .. MaxBytes, NEW bytes \in [1 .. n -> Bytes], Receive(bytes)
      PROVE  DecoderInv'
  <2>1. n \in Nat
    BY BytesAssumption
  <2>2. bytes \in Seq(Bytes)
    <3> HIDE DEF Bytes
    <3> QED
      BY <2>1
  <2> QED
    BY <1>1, <2>2, ReceiveAgrees
<1>2. CASE EndInput
  BY <1>2, EndAgrees
<1>3. CASE Pop
  BY <1>3, PopAgrees
<1>4. CASE Clear
  BY <1>4, ClearAgrees
<1>5. CASE UNCHANGED decoderVars
  BY <1>5 DEF decoderVars, DecoderInv, DecoderTyped, Agreed
<1> QED
  BY <1>1, <1>2, <1>3, <1>4, <1>5 DEF DecoderNext

(* However the host's reads cut the bytes, the units a read is given are    *)
(* those of the bytes as a whole: no character is split, lost or doubled,   *)
(* and none reaches over an end of the input or a read given up             *)
(* (Decoder::push, finish, pop, clear and decode).                          *)
THEOREM UnitsAreOfTheWhole == DecoderSpec => []DecodesAnyChunks
<1>1. DecoderInit => DecoderInv
  BY DecoderStarts
<1>2. DecoderInv => DecodesAnyChunks
  BY Finished DEF DecodesAnyChunks
<1> QED
  BY <1>1, <1>2, DecoderStep, PTL DEF DecoderSpec

(***************************************************************************)
(* The view a C handle has of its terminal, and what its renderer draws    *)
(* with.  The renderer is given a size of its own by a resize and all of   *)
(* the view by everything else, so the invariant says that the two never   *)
(* part, and that li and co are numbers of a screen after every step.      *)
(***************************************************************************)
(* The shape of a view, field by field, so that an update of one leaves the rest. *)
IsView(v) ==
  v \in [name : {v.name}, bools : {v.bools}, numbers : {v.numbers}, strings : {v.strings},
         destructiveTabs : {v.destructiveTabs}, metaExtension : {v.metaExtension},
         rows : {v.rows}, columns : {v.columns}]

(* The capabilities li and co say what the rows and the columns are. *)
Measured(v) ==
  /\ "li" \in DOMAIN v.numbers /\ v.numbers["li"] = v.rows
  /\ "co" \in DOMAIN v.numbers /\ v.numbers["co"] = v.columns
  /\ v.rows \in Nat \ {0} /\ v.columns \in Nat \ {0}

(* What holds of every view that is displayed. *)
ViewOk(v) == IsView(v) /\ Measured(v)
(* The renderer was configured from the view, but for the width of a window of one column. *)
ShownInv ==
  /\ shown \in [profile : {Profile(view)}, rows : {view.rows}, columns : {shown.columns}]
  /\ shown.columns \in Nat \ {0} /\ view.columns \in {shown.columns, AtLeast(shown.columns, 2)}
(* The inductive invariant. *)
ViewInv == ViewOk(view) /\ ShownInv /\ window \in [rows : Nat, columns : Nat]

(* A view that is given a size is measured, and its other parts stay. *)
LEMMA Sizing ==
  ASSUME NEW v, IsView(v), NEW rows \in Nat \ {0}, NEW columns \in Nat \ {0}
  PROVE  LET s == Sized(v, rows, columns) IN
         ViewOk(s) /\ s.rows = rows /\ s.columns = columns /\ Profile(s) = Profile(v)
<1> DEFINE rest == Put(v.numbers, "li", rows)
           numbers == Put(rest, "co", columns)
           s == Sized(v, rows, columns)
<1>1. /\ "li" \in DOMAIN numbers /\ numbers["li"] = rows
      /\ "co" \in DOMAIN numbers /\ numbers["co"] = columns
  <2>1. "li" \in DOMAIN rest /\ rest["li"] = rows
    BY DEF Put
  <2> HIDE DEF rest
  <2> QED
    BY <2>1 DEF Put
<1>2. s = [v EXCEPT !.rows = rows, !.columns = columns, !.numbers = numbers]
  BY DEF Sized
<1> HIDE DEF numbers
<1>3. /\ IsView(s) /\ s.rows = rows /\ s.columns = columns /\ s.numbers = numbers
      /\ s.name = v.name /\ s.bools = v.bools /\ s.strings = v.strings
  BY <1>2 DEF IsView
<1> HIDE DEF s
<1>4. Profile(s) = Profile(v)
  BY <1>3 DEF Profile, Flag
<1> QED
  BY <1>1, <1>3, <1>4 DEF ViewOk, Measured, s

(* The derived flags are derived: nothing else changes. *)
LEMMA Refreshing ==
  ASSUME NEW v, IsView(v)
  PROVE  LET r == RefreshDerivedFlags(v) IN
         /\ IsView(r) /\ (Measured(v) => Measured(r)) /\ Profile(r) = Profile(v)
         /\ r.rows = v.rows /\ r.columns = v.columns
<1> DEFINE r == RefreshDerivedFlags(v)
<1>1. /\ IsView(r) /\ r.rows = v.rows /\ r.columns = v.columns /\ r.numbers = v.numbers
      /\ r.name = v.name /\ r.bools = v.bools /\ r.strings = v.strings
  BY DEF IsView, RefreshDerivedFlags
<1> HIDE DEF r
<1>2. Profile(r) = Profile(v) /\ (Measured(v) => Measured(r))
  BY <1>1 DEF Profile, Flag, Measured
<1> QED
  BY <1>1, <1>2 DEF r

(* A description may name any number as a size. *)
LEMMA SizesFit ==
  ASSUME NEW n \in Int
  PROVE  /\ UsualRows(n) \in Nat \ {0} /\ UsualColumns(n) \in Nat \ {0}
         /\ AtLeast(n, 1) \in Nat \ {0} /\ AtLeast(n, 2) \in Nat \ {0}
  BY DEF UsualRows, UsualColumns, AtLeast

(* What is built from a description and a window is measured, whatever they say. *)
LEMMA FreshFits ==
  ASSUME NEW name, NEW entry, NEW w \in [rows : Nat, columns : Nat],
         \A c \in DOMAIN entry.numbers : entry.numbers[c] \in Int
  PROVE  ViewOk(NewCapabilities(name, entry, w))
<1> DEFINE told == [name |-> name, bools |-> entry.bools, numbers |-> entry.numbers,
                    strings |-> entry.strings, destructiveTabs |-> FALSE,
                    metaExtension |-> FALSE, rows |-> 0, columns |-> 0]
           number(code) == IF code \in DOMAIN entry.numbers THEN entry.numbers[code] ELSE 0
           sized == IF HasSize(w) THEN Sized(told, w.rows, w.columns)
                    ELSE Sized(told, UsualRows(number("li")), UsualColumns(number("co")))
<1>1. IsView(told)
  BY DEF IsView
<1>2. number("li") \in Int /\ number("co") \in Int
  OBVIOUS
<1>3. NewCapabilities(name, entry, w) = RefreshDerivedFlags(sized)
  BY DEF NewCapabilities
<1> HIDE DEF told, number
<1>4. ViewOk(sized)
  BY <1>1, <1>2, SizesFit, Sizing DEF HasSize
<1> HIDE DEF sized
<1> QED
  BY <1>3, <1>4, Refreshing DEF ViewOk

(* What outlives a name that was not found leaves the measures alone. *)
LEMMA PreservedFits ==
  ASSUME NEW v, ViewOk(v), NEW previous
  PROVE  ViewOk(PreserveFailedLookupValues(v, previous))
<1> DEFINE meta == Number(previous, "MT")
           margins == Put(Put(v.bools, "am", Flag(previous, "am")), "xn", Flag(previous, "xn"))
           bools == Put(Put(margins, "MT", meta # 0), "xt", meta # 0)
           some == Put(v.numbers, "MT", meta)
           numbers == Put(some, "xt", meta)
           kept == [v EXCEPT !.bools = bools, !.numbers = numbers]
<1>1. PreserveFailedLookupValues(v, previous) = RefreshDerivedFlags(kept)
  BY DEF PreserveFailedLookupValues
<1>2. /\ "li" \in DOMAIN numbers /\ numbers["li"] = v.numbers["li"]
      /\ "co" \in DOMAIN numbers /\ numbers["co"] = v.numbers["co"]
  <2>1. /\ "li" \in DOMAIN some /\ some["li"] = v.numbers["li"]
        /\ "co" \in DOMAIN some /\ some["co"] = v.numbers["co"]
    BY DEF ViewOk, Measured, Put
  <2> HIDE DEF some
  <2> QED
    BY <2>1 DEF Put
<1> HIDE DEF bools, numbers, meta
<1>3. IsView(kept) /\ kept.numbers = numbers /\ kept.rows = v.rows /\ kept.columns = v.columns
  BY DEF ViewOk, IsView
<1> HIDE DEF kept
<1>4. ViewOk(kept)
  BY <1>2, <1>3 DEF ViewOk, Measured
<1> QED
  BY <1>1, <1>4, Refreshing DEF ViewOk

(* Configuring the renderer from a view shows that view. *)
LEMMA DisplayFits ==
  ASSUME NEW v, ViewOk(v), Display(v)
  PROVE  (ViewOk(view) /\ ShownInv)'
<1>1. view' = v /\ shown' = [profile |-> Profile(v), rows |-> v.rows, columns |-> v.columns]
  BY DEF Display, Configured
<1>2. v.columns \in Nat \ {0}
  BY DEF ViewOk, Measured
<1>3. ShownInv'
  BY <1>1, <1>2 DEF ShownInv, Profile, Flag
<1> QED
  BY <1>1, <1>3 DEF ViewOk, IsView, Measured

(* A name without a description is less as having no numbers. *)
LEMMA DescribedFits ==
  ASSUME ViewAssumption, NEW name
  PROVE  \A c \in DOMAIN Described(name).numbers : Described(name).numbers[c] \in Int
  BY DEF ViewAssumption, Described, NoDescription

(* Another terminal, found or not. *)
LEMMA NamingKeeps ==
  ASSUME ViewAssumption, ViewInv, NEW name, SetTerminalName(name)
  PROVE  (ViewOk(view) /\ ShownInv)'
<1> DEFINE fresh == NewCapabilities(name, Described(name), window)
           less == IF name \in DOMAIN Descriptions THEN fresh
                    ELSE PreserveFailedLookupValues(fresh, view)
<1>1. ViewOk(fresh)
  BY DescribedFits, FreshFits DEF ViewInv
<1>2. Display(less)
  BY DEF SetTerminalName
<1> HIDE DEF fresh
<1>3. ViewOk(less)
  BY <1>1, PreservedFits
<1> HIDE DEF less
<1> QED
  BY <1>2, <1>3, DisplayFits

(* settc of a string, a flag and a number: a number may be a size itself. *)
LEMMA StringKeeps ==
  ASSUME ViewInv, NEW code, NEW value, SetString(code, value)
  PROVE  (ViewOk(view) /\ ShownInv)'
<1> DEFINE strings == IF value = Blank THEN Drop(view.strings, code)
                      ELSE Put(view.strings, code, SevenBytes[value])
           written == [view EXCEPT !.strings = strings]
<1>1. Display(RefreshDerivedFlags(written))
  BY DEF SetString
<1> HIDE DEF strings
<1>2. ViewOk(written)
  BY DEF ViewInv, ViewOk, IsView, Measured
<1> HIDE DEF written
<1> QED
  BY <1>1, <1>2, Refreshing, DisplayFits DEF ViewOk

LEMMA FlagKeeps ==
  ASSUME ViewInv, NEW code, NEW value, SetFlag(code, value)
  PROVE  (ViewOk(view) /\ ShownInv)'
<1> DEFINE bools == Put(view.bools, code, value = Yes)
           written == [view EXCEPT !.bools = bools]
<1>1. Display(RefreshDerivedFlags(written))
  BY DEF SetFlag
<1> HIDE DEF bools
<1>2. ViewOk(written)
  BY DEF ViewInv, ViewOk, IsView, Measured
<1> HIDE DEF written
<1> QED
  BY <1>1, <1>2, Refreshing, DisplayFits DEF ViewOk

\* A number that is no size leaves the sizes; one that is is overwritten by the size.
LEMMA NumberKeeps ==
  ASSUME ViewAssumption, ViewInv, NEW code \in NumberCodes, NEW value \in DOMAIN Spelled,
         SetNumber(code, value)
  PROVE  (ViewOk(view) /\ ShownInv)'
<1> DEFINE n == Spelled[value]
           numbers == Put(view.numbers, code, n)
           bools == IF code \in SizeCodes THEN view.bools ELSE Put(view.bools, code, n # 0)
           written == [view EXCEPT !.numbers = numbers, !.bools = bools]
           v == CASE code = "li" -> SetSize(written, UsualRows(n), view.columns)
                  [] code = "co" -> SetSize(written, view.rows, UsualColumns(n))
                  [] code \notin SizeCodes -> written
<1>1. n \in Int
  BY DEF ViewAssumption
<1>2. Display(v)
  BY DEF SetNumber
<1>3. code \notin SizeCodes =>
        /\ "li" \in DOMAIN numbers /\ numbers["li"] = view.numbers["li"]
        /\ "co" \in DOMAIN numbers /\ numbers["co"] = view.numbers["co"]
  BY DEF Put, SizeCodes, ViewInv, ViewOk, Measured
<1> HIDE DEF numbers, bools, n
<1>4. /\ IsView(written) /\ written.numbers = numbers
      /\ written.rows = view.rows /\ written.columns = view.columns
  BY DEF ViewInv, ViewOk, IsView
<1>5. view.rows \in Nat \ {0} /\ view.columns \in Nat \ {0}
  BY DEF ViewInv, ViewOk, Measured
<1> HIDE DEF written
<1>6. ViewOk(v)
  <2>1. CASE code = "li"
    <3>1. v = Sized(written, AtLeast(UsualRows(n), 1), AtLeast(view.columns, 2))
      BY <2>1 DEF SetSize, SizeCodes
    <3> DEFINE rows == AtLeast(UsualRows(n), 1)
               columns == AtLeast(view.columns, 2)
    <3>2. rows \in Nat \ {0} /\ columns \in Nat \ {0}
      BY <1>1, <1>5, SizesFit
    <3>3. v = Sized(written, rows, columns)
      BY <3>1
    <3> HIDE DEF v, rows, columns
    <3> QED
      BY <3>2, <3>3, <1>4, Sizing
  <2>2. CASE code = "co"
    <3>1. v = Sized(written, AtLeast(view.rows, 1), AtLeast(UsualColumns(n), 2))
      BY <2>2 DEF SetSize, SizeCodes
    <3> DEFINE rows == AtLeast(view.rows, 1)
               columns == AtLeast(UsualColumns(n), 2)
    <3>2. rows \in Nat \ {0} /\ columns \in Nat \ {0}
      BY <1>1, <1>5, SizesFit
    <3>3. v = Sized(written, rows, columns)
      BY <3>1
    <3> HIDE DEF v, rows, columns
    <3> QED
      BY <3>2, <3>3, <1>4, Sizing
  <2>3. CASE code \notin SizeCodes
    <3>1. v = written
      BY <2>3 DEF SizeCodes
    <3> QED
      BY <3>1, <2>3, <1>3, <1>4, <1>5 DEF ViewOk, Measured, ViewInv
  <2> QED
    BY <2>1, <2>2, <2>3 DEF SizeCodes
<1> HIDE DEF v
<1> QED
  BY <1>2, <1>6, DisplayFits

(* A resize gives the renderer the size alone, so the profile must be unchanged. *)
LEMMA ResizingKeeps ==
  ASSUME ViewInv, ResizeDisplay
  PROVE  (ViewOk(view) /\ ShownInv)'
<1>1. window.rows \in Nat \ {0} /\ window.columns \in Nat \ {0}
  BY DEF ViewInv, ResizeDisplay, HasSize
<1>2. AtLeast(window.rows, 1) = window.rows
  BY <1>1 DEF AtLeast
<1>3. view' = Sized(view, window.rows, AtLeast(window.columns, 2))
  BY <1>2 DEF ResizeDisplay, SetSize
<1>4. /\ ViewOk(view') /\ view'.rows = window.rows
      /\ view'.columns = AtLeast(window.columns, 2) /\ Profile(view') = Profile(view)
  <2> DEFINE rows == window.rows
             columns == AtLeast(window.columns, 2)
  <2>1. rows \in Nat \ {0} /\ columns \in Nat \ {0}
    BY <1>1, SizesFit
  <2>2. IsView(view) /\ view' = Sized(view, rows, columns)
    BY <1>3 DEF ViewInv, ViewOk
  <2> HIDE DEF rows, columns
  <2>3. /\ ViewOk(Sized(view, rows, columns)) /\ Sized(view, rows, columns).rows = rows
        /\ Sized(view, rows, columns).columns = columns
        /\ Profile(Sized(view, rows, columns)) = Profile(view)
    BY <2>1, <2>2, Sizing
  <2> QED
    BY <2>2, <2>3 DEF rows, columns
<1>5. shown' = [shown EXCEPT !.rows = window.rows, !.columns = window.columns]
  BY DEF ResizeDisplay
<1>6. shown' \in [profile : {Profile(view)}, rows : {window.rows}, columns : {window.columns}]
  BY <1>5 DEF ViewInv, ShownInv
<1>7. ShownInv'
  BY <1>1, <1>4, <1>6 DEF ShownInv, Profile, Flag
<1> QED
  BY <1>4, <1>7 DEF ViewOk, IsView, Measured

(* The driver gives the renderer the size that the view has. *)
LEMMA ResumingKeeps ==
  ASSUME ViewInv, ResumeResize
  PROVE  (ViewOk(view) /\ ShownInv)'
<1>1. shown' \in [profile : {Profile(view)}, rows : {view.rows}, columns : {view.columns}]
  BY DEF ResumeResize, ViewInv, ShownInv
<1>2. view' = view /\ view.columns \in Nat \ {0}
  BY DEF ResumeResize, ViewInv, ViewOk, Measured
<1> QED
  BY <1>1, <1>2 DEF ViewInv, ViewOk, IsView, Measured, ShownInv, Profile, Flag

(* The renderer draws with the capabilities and the screen the application is   *)
(* told of: DisplayShowsView, for any descriptions, windows, codes and values,  *)
(* and any run of new names, settcs and resizes, whatever of them is refused.   *)
THEOREM ViewIsDrawnWith == ASSUME ViewAssumption PROVE ViewSpec => []DisplayShowsView
<1>1. ViewInit => ViewInv
  <2> SUFFICES ASSUME ViewInit PROVE ViewInv
    OBVIOUS
  <2>1. window \in [rows : Nat, columns : Nat]
    BY DEF ViewInit, ViewAssumption
  <2>2. PICK name \in TerminalNames : view = NewCapabilities(name, Described(name), window)
    BY DEF ViewInit
  <2>3. ViewOk(view)
    BY <2>1, <2>2, DescribedFits, FreshFits
  <2>4. ShownInv
    BY <2>3 DEF ViewInit, Configured, ShownInv, ViewOk, Measured
  <2> QED
    BY <2>1, <2>3, <2>4 DEF ViewInv
<1>2. ViewInv /\ [ViewNext]_viewVars => ViewInv'
  <2> SUFFICES ASSUME ViewInv, [ViewNext]_viewVars PROVE ViewInv'
    OBVIOUS
  <2>1. ASSUME NEW name \in TerminalNames, SetTerminalName(name) PROVE ViewInv'
    BY <2>1, NamingKeeps DEF SetTerminalName, ViewInv
  <2>2. ASSUME NEW code \in StringCodes \cup FlagCodes \cup NumberCodes,
               NEW value \in CapabilityTexts, SetCapability(code, value)
        PROVE  ViewInv'
    <3>1. (ViewOk(view) /\ ShownInv)'
      <4>1. ASSUME SetString(code, value) PROVE (ViewOk(view) /\ ShownInv)'
        BY <4>1, StringKeeps
      <4>2. ASSUME SetFlag(code, value) PROVE (ViewOk(view) /\ ShownInv)'
        BY <4>2, FlagKeeps
      <4>3. ASSUME code \in NumberCodes, value \in DOMAIN Spelled, SetNumber(code, value)
            PROVE  (ViewOk(view) /\ ShownInv)'
        BY <4>3, NumberKeeps
      <4> QED
        BY <2>2, <4>1, <4>2, <4>3 DEF SetCapability
    <3> QED
      BY <2>2, <3>1 DEF SetCapability, ViewInv
  <2>3. CASE ResizeDisplay
    BY <2>3, ResizingKeeps DEF ResizeDisplay, ViewInv
  <2>4. CASE ResumeResize
    BY <2>4, ResumingKeeps DEF ResumeResize, ViewInv
  <2>5. ASSUME UNCHANGED <<view, shown>>, window' = window \/ window' \in WindowSizes
        PROVE  ViewInv'
    BY <2>5 DEF ViewAssumption, ViewInv, ViewOk, IsView, Measured, ShownInv, Profile, Flag
  <2> QED
    BY <2>1, <2>2, <2>3, <2>4, <2>5 DEF ViewNext, SetEditingEnabled, WindowChanges, viewVars
<1>3. ViewInv => DisplayShowsView
  BY DEF ViewInv, ViewOk, Measured, ShownInv, DisplayShowsView, Number
<1> QED
  BY <1>1, <1>2, <1>3, PTL DEF ViewSpec
=============================================================================
