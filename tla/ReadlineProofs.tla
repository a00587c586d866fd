----------------------------- MODULE ReadlineProofs -----------------------------
(***************************************************************************)
(* Proofs about the readline layer's sessions (ReadlineSession), for any   *)
(* keys and bounds, and about saving to a named file (HistorySaving), for  *)
(* any number of savers and any length of a file.                          *)
(***************************************************************************)
EXTENDS ReadlineSession, HistorySaving, TLAPS

-----------------------------------------------------------------------------
(* A line and what was entered of it.                                       *)

Typing == Units \cup {Newline}

Synced(t, e) ==
  t \in Seq(Typing \cup {EndOfText}) /\ e \in Seq(Typing) /\ WithoutEnd(e, t)

Placed(e, t, from) ==
  /\ from \in [DOMAIN e -> {p \in DOMAIN t : t[p] # EndOfText}]
  /\ \A i, j \in DOMAIN e : i < j => from[i] < from[j]
  /\ \A p \in DOMAIN t : t[p] # EndOfText => \E i \in DOMAIN e : from[i] = p
  /\ \A i \in DOMAIN e : e[i] = t[from[i]]

LEMMA PlacedIsWithout ==
  ASSUME NEW t, NEW e
  PROVE  WithoutEnd(e, t) <=> \E from : Placed(e, t, from)
  BY DEF WithoutEnd, Placed

LEMMA KeysApart == EndOfText \notin Typing /\ Newline \in Typing /\ Newline # EndOfText
  BY UnitsAssumption DEF EndOfText, Newline, Typing

LEMMA SyncedStarts == Synced(<<>>, <<>>)
<1> DEFINE none == <<>>
<1>1. none \in Seq(Typing \cup {EndOfText}) /\ none \in Seq(Typing) /\ DOMAIN none = {}
  OBVIOUS
<1>2. \E from : from \in [{} -> {}]
  <2>1. [x \in {} |-> x] \in [{} -> {}]
    OBVIOUS
  <2> QED
    BY <2>1
<1> HIDE DEF none
<1>3. \E from : Placed(none, none, from)
  BY <1>1, <1>2 DEF Placed
<1>4. Synced(none, none)
  BY <1>1, <1>3, PlacedIsWithout DEF Synced
<1> QED
  BY <1>4 DEF none

LEMMA SyncedGrows ==
  ASSUME NEW t, NEW e, Synced(t, e)
  PROVE  /\ \A k \in Typing : Synced(Append(t, k), Append(e, k))
         /\ Synced(Append(t, EndOfText), e)
<1> PICK from : Placed(e, t, from)
  BY PlacedIsWithout DEF Synced
<1> DEFINE n == Len(t)
           m == Len(e)
<1>1. /\ t \in Seq(Typing \cup {EndOfText}) /\ e \in Seq(Typing) /\ n \in Nat /\ m \in Nat
      /\ DOMAIN t = 1 .. n /\ DOMAIN e = 1 .. m
  BY DEF Synced
<1>2. /\ from \in [1 .. m -> 1 .. n] /\ \A i \in 1 .. m : t[from[i]] # EndOfText
      /\ \A i, j \in 1 .. m : i < j => from[i] < from[j]
      /\ \A p \in 1 .. n : t[p] # EndOfText => \E i \in 1 .. m : from[i] = p
      /\ \A i \in 1 .. m : e[i] = t[from[i]]
  BY <1>1 DEF Placed
<1>3. ASSUME NEW k \in Typing PROVE Synced(Append(t, k), Append(e, k))
  <2> DEFINE u == Append(t, k)
             f == Append(e, k)
             to == [i \in 1 .. m + 1 |-> IF i = m + 1 THEN n + 1 ELSE from[i]]
  <2>1. /\ u \in Seq(Typing \cup {EndOfText}) /\ f \in Seq(Typing)
        /\ DOMAIN u = 1 .. n + 1 /\ DOMAIN f = 1 .. m + 1
        /\ u[n + 1] = k /\ f[m + 1] = k
        /\ \A p \in 1 .. n : u[p] = t[p]
        /\ \A i \in 1 .. m : f[i] = e[i]
    BY <1>1
  <2>2. k # EndOfText
    BY KeysApart
  <2> HIDE DEF n, m, u, f
  <2>3. /\ to[m + 1] = n + 1 /\ \A i \in 1 .. m : to[i] = from[i] /\ from[i] \in 1 .. n
        /\ DOMAIN to = 1 .. m + 1 /\ to = [i \in DOMAIN to |-> to[i]]
    BY <1>1, <1>2
  <2> HIDE DEF to
  <2>4. \A i \in 1 .. m + 1 : i = m + 1 \/ i \in 1 .. m
    BY <1>1
  <2>5. \A i \in 1 .. m + 1 : to[i] \in 1 .. n + 1 /\ u[to[i]] # EndOfText /\ f[i] = u[to[i]]
    BY <1>1, <1>2, <2>1, <2>2, <2>3, <2>4
  <2>6. \A i, j \in 1 .. m + 1 : i < j => to[i] < to[j]
    BY <1>1, <1>2, <2>3, <2>4
  <2>7. \A p \in 1 .. n + 1 : u[p] # EndOfText => \E i \in 1 .. m + 1 : to[i] = p
    <3> TAKE p \in 1 .. n + 1
    <3>1. CASE p = n + 1
      BY <1>1, <2>3, <3>1
    <3>2. CASE p # n + 1
      <4>1. p \in 1 .. n /\ u[p] = t[p] /\ 1 .. m \subseteq 1 .. m + 1
        BY <1>1, <2>1, <3>2
      <4> QED
        BY <1>2, <2>3, <4>1
    <3> QED
      BY <3>1, <3>2
  <2>8. Placed(f, u, to)
    BY <2>1, <2>3, <2>5, <2>6, <2>7 DEF Placed
  <2>9. Synced(u, f)
    BY <2>1, <2>8, PlacedIsWithout DEF Synced
  <2> QED
    BY <2>9 DEF u, f
<1>4. Synced(Append(t, EndOfText), e)
  <2> DEFINE u == Append(t, EndOfText)
  <2>1. /\ u \in Seq(Typing \cup {EndOfText}) /\ DOMAIN u = 1 .. n + 1
        /\ u[n + 1] = EndOfText /\ \A p \in 1 .. n : u[p] = t[p]
    BY <1>1
  <2> HIDE DEF n, m, u
  <2>2. \A p \in 1 .. n + 1 : p = n + 1 \/ p \in 1 .. n
    BY <1>1
  <2>3. \A i \in 1 .. m : from[i] \in 1 .. n /\ from[i] \in 1 .. n + 1
    BY <1>1, <1>2
  <2>4. from \in [1 .. m -> {p \in 1 .. n + 1 : u[p] # EndOfText}]
    BY <1>2, <2>1, <2>3
  <2>5. Placed(e, u, from)
    BY <1>1, <1>2, <2>1, <2>2, <2>3, <2>4 DEF Placed
  <2>6. Synced(u, e)
    BY <1>1, <2>1, <2>5, PlacedIsWithout DEF Synced
  <2> QED
    BY <2>6 DEF u
<1> QED
  BY <1>3, <1>4

LEMMA SyncedErased ==
  ASSUME NEW t, NEW e, Synced(t, e), t # <<>>
  PROVE  Synced(Front(t), IF Last(t) = EndOfText THEN e ELSE Front(e))
<1> PICK from : Placed(e, t, from)
  BY PlacedIsWithout DEF Synced
<1> DEFINE n == Len(t)
           m == Len(e)
           u == Front(t)
<1>1. /\ t \in Seq(Typing \cup {EndOfText}) /\ e \in Seq(Typing) /\ n \in Nat \ {0} /\ m \in Nat
      /\ DOMAIN t = 1 .. n /\ DOMAIN e = 1 .. m
  BY DEF Synced
<1>2. /\ from \in [1 .. m -> 1 .. n] /\ \A i \in 1 .. m : t[from[i]] # EndOfText
      /\ \A i, j \in 1 .. m : i < j => from[i] < from[j]
      /\ \A p \in 1 .. n : t[p] # EndOfText => \E i \in 1 .. m : from[i] = p
      /\ \A i \in 1 .. m : e[i] = t[from[i]]
  BY <1>1 DEF Placed
<1>3. /\ u \in Seq(Typing \cup {EndOfText}) /\ DOMAIN u = 1 .. n - 1
      /\ \A p \in 1 .. n - 1 : u[p] = t[p]
  BY <1>1 DEF Front
<1>4. Last(t) = t[n]
  BY DEF Last
<1>5. CASE Last(t) = EndOfText
  <2> HIDE DEF n, m, u
  <2>1. \A i \in 1 .. m : from[i] \in 1 .. n - 1
    <3> TAKE i \in 1 .. m
    <3>1. from[i] \in 1 .. n /\ n \in Nat
      BY <1>1, <1>2
    <3>2. from[i] # n
      BY <1>2, <1>4, <1>5
    <3> QED
      BY <3>1, <3>2
  <2>2. from \in [1 .. m -> {p \in 1 .. n - 1 : u[p] # EndOfText}]
    BY <1>2, <1>3, <2>1
  <2>3. \A p \in 1 .. n - 1 : p \in 1 .. n
    BY <1>1
  <2>4. Placed(e, u, from)
    BY <1>1, <1>2, <1>3, <2>1, <2>2, <2>3 DEF Placed
  <2>5. Synced(u, e)
    BY <1>1, <1>3, <2>4, PlacedIsWithout DEF Synced
  <2> QED
    BY <1>5, <2>5 DEF u
<1>6. CASE Last(t) # EndOfText
  <2>1. PICK l \in 1 .. m : from[l] = n
    BY <1>1, <1>2, <1>4, <1>6
  <2>2. l = m /\ m \in Nat \ {0}
    <3>1. \A i \in 1 .. m : from[i] <= n
      BY <1>1, <1>2
    <3>2. m \in 1 .. m
      BY <1>1, <2>1
    <3>3. ~(l < m)
      BY <1>2, <2>1, <3>1, <3>2
    <3>4. m \in Nat /\ l \in 1 .. m
      BY <1>1, <2>1
    <3> HIDE DEF m
    <3> QED
      BY <3>3, <3>4
  <2> DEFINE f == Front(e)
             to == [i \in 1 .. m - 1 |-> from[i]]
  <2>3. /\ f \in Seq(Typing) /\ DOMAIN f = 1 .. m - 1
        /\ \A i \in 1 .. m - 1 : f[i] = e[i]
    BY <1>1, <2>2 DEF Front
  <2> HIDE DEF n, m, u, f
  <2>4. \A i \in 1 .. m - 1 : i \in 1 .. m /\ i < m
    BY <1>1
  <2>5. \A i \in 1 .. m - 1 : from[i] \in 1 .. n /\ from[i] < n
    BY <1>1, <1>2, <2>1, <2>2, <2>4
  <2>6. \A i \in 1 .. m - 1 : from[i] \in 1 .. n - 1
    BY <1>1, <2>5
  <2>7. to \in [1 .. m - 1 -> {p \in 1 .. n - 1 : u[p] # EndOfText}]
    BY <1>2, <1>3, <2>4, <2>6
  <2>8. \A p \in 1 .. n - 1 : p \in 1 .. n /\ p # n
    BY <1>1
  <2>9. \A p \in 1 .. n - 1 : u[p] # EndOfText => \E i \in 1 .. m - 1 : to[i] = p
    <3> SUFFICES ASSUME NEW p \in 1 .. n - 1, u[p] # EndOfText
                 PROVE  \E i \in 1 .. m - 1 : to[i] = p
      OBVIOUS
    <3>1. PICK i \in 1 .. m : from[i] = p
      BY <1>2, <1>3, <2>8
    <3>2. i # m
      BY <2>1, <2>2, <2>8, <3>1
    <3>3. i \in 1 .. m - 1
      BY <1>1, <3>2
    <3> QED
      BY <3>1, <3>3
  <2>10. \A i \in 1 .. m - 1 : to[i] = from[i]
    OBVIOUS
  <2> HIDE DEF to
  <2>11. Placed(f, u, to)
    BY <1>2, <1>3, <2>3, <2>4, <2>6, <2>7, <2>9, <2>10 DEF Placed
  <2>12. Synced(u, f)
    BY <1>3, <2>3, <2>11, PlacedIsWithout DEF Synced
  <2> QED
    BY <1>6, <2>12 DEF u, f
<1> QED
  BY <1>5, <1>6

-----------------------------------------------------------------------------
(* The calls of the layer that are under way.                               *)

Callers == {"readline", "read_char"}
Phases == {"startup", "pre_input", "editing", "command", "handler",
           "got_line", "got_end", "got_command", "got_failure"}

Records == [in : Callers, phase : Phases]

(* Only a line handler is ever under another call.                          *)
Stack(fs) ==
  /\ fs \in Seq(Records)
  /\ \A i \in 1 .. Len(fs) - 1 : fs[i] = Frame("read_char", "handler")

Rest == Frame("none", "rest")

Place(fs) == IF fs = <<>> THEN Rest ELSE Last(fs)

LEMMA PlaceOk ==
  ASSUME NEW fs, Stack(fs)
  PROVE  /\ Place(fs) \in Records \cup {Rest}
         /\ fs = <<>> <=> Place(fs) = Rest
         /\ fs # <<>> => Place(fs) = Last(fs) /\ Len(fs) \in Nat \ {0} /\ Last(fs) = fs[Len(fs)]
<1>1. fs # <<>> => fs[Len(fs)] \in Records /\ Len(fs) \in Nat \ {0}
  BY DEF Stack
<1>2. Rest \notin Records
  BY DEF Frame, Callers, Records, Rest
<1>3. fs # <<>> => Place(fs) = Last(fs) /\ Last(fs) = fs[Len(fs)]
  BY DEF Place, Last
<1>4. fs = <<>> => Place(fs) = Rest
  BY DEF Place
<1>5. CASE fs = <<>>
  BY <1>4, <1>5
<1>6. CASE fs # <<>>
  <2>1. Place(fs) \in Records
    BY <1>1, <1>3, <1>6
  <2>2. Place(fs) # Rest
    BY <1>2, <2>1
  <2> QED
    BY <1>1, <1>3, <1>6, <2>1, <2>2
<1> QED
  BY <1>5, <1>6

LEMMA FrontOk ==
  ASSUME NEW S, NEW s \in Seq(S), s # <<>>
  PROVE  /\ Front(s) \in Seq(S) /\ Len(Front(s)) = Len(s) - 1
         /\ \A i \in 1 .. Len(s) - 1 : Front(s)[i] = s[i]
<1>1. Len(s) \in Nat \ {0}
  OBVIOUS
<1> DEFINE m == Len(s) - 1
           f == SubSeq(s, 1, m)
<1>2. m \in Nat /\ m <= Len(s) /\ Front(s) = f
  BY <1>1 DEF Front
<1> HIDE DEF m
<1>3. f \in Seq(S) /\ Len(f) = m /\ \A i \in 1 .. m : f[i] = s[i]
  BY <1>2
<1> QED
  BY <1>2, <1>3 DEF m

LEMMA PhaseMoves ==
  ASSUME Stack(frames), frames # <<>>, NEW p \in Phases, Phase(p)
  PROVE  Stack(frames') /\ Place(frames') = Frame(Place(frames).in, p)
<1> DEFINE x == [Top EXCEPT !.phase = p]
           n == Len(frames)
<1>1. /\ frames \in Seq(Records) /\ n \in Nat \ {0} /\ Top = frames[n] /\ Top = Place(frames)
      /\ frames[n] \in Records
  BY PlaceOk DEF Stack, Top, Last
<1>2. x = Frame(Place(frames).in, p) /\ x \in Records
  BY <1>1 DEF Frame, Records
<1> HIDE DEF x
<1>3. /\ Front(frames) \in Seq(Records) /\ Len(Front(frames)) = n - 1
      /\ \A i \in 1 .. n - 1 : Front(frames)[i] = frames[i]
  BY <1>1, FrontOk
<1>4. frames' = Append(Front(frames), x)
  BY DEF Phase, x
<1>5. /\ frames' \in Seq(Records) /\ Len(frames') = n /\ frames'[n] = x /\ frames' # <<>>
      /\ \A i \in 1 .. n - 1 : frames'[i] = frames[i]
  BY <1>1, <1>2, <1>3, <1>4
<1>6. Stack(frames')
  BY <1>5 DEF Stack
<1> QED
  BY <1>2, <1>5, <1>6, PlaceOk

LEMMA CallEnters ==
  ASSUME Stack(frames), AtRest \/ Place(frames) = Frame("read_char", "handler"),
         NEW in \in Callers, Calls(in)
  PROVE  /\ Stack(frames')
         /\ Place(frames') = Frame(in, IF in = "readline" THEN "startup" ELSE "editing")
<1> DEFINE x == Frame(in, IF in = "readline" THEN "startup" ELSE "editing")
           n == Len(frames)
<1>1. frames \in Seq(Records) /\ n \in Nat /\ x \in Records
  BY DEF Stack, Frame, Phases, Callers, Records
<1>2. frames' = Append(frames, x)
  BY DEF Calls
<1> HIDE DEF x
<1>3. /\ frames' \in Seq(Records) /\ Len(frames') = n + 1 /\ frames'[n + 1] = x /\ frames' # <<>>
      /\ \A i \in 1 .. n : frames'[i] = frames[i]
  BY <1>1, <1>2
<1>4. \A i \in 1 .. n : frames[i] = Frame("read_char", "handler")
  <2> TAKE i \in 1 .. n
  <2>1. CASE i = n
    <3>1. n # 0 /\ frames # <<>> /\ ~AtRest
      BY <1>1, <2>1 DEF AtRest
    <3> QED
      BY <2>1, <3>1, PlaceOk
  <2>2. CASE i # n
    BY <1>1, <2>2 DEF Stack
  <2> QED
    BY <2>1, <2>2
<1>5. Stack(frames')
  BY <1>1, <1>3, <1>4 DEF Stack
<1> QED
  BY <1>1, <1>3, <1>5, PlaceOk DEF x

LEMMA CallLeaves ==
  ASSUME Stack(frames), frames # <<>>, Leave
  PROVE  /\ Stack(frames')
         /\ Place(frames') \in {Rest, Frame("read_char", "handler")}
<1> DEFINE n == Len(frames)
<1>1. frames \in Seq(Records) /\ n \in Nat \ {0}
  BY PlaceOk DEF Stack
<1>2. /\ frames' \in Seq(Records) /\ Len(frames') = n - 1
      /\ \A i \in 1 .. n - 1 : frames'[i] = frames[i]
  BY <1>1, FrontOk DEF Leave
<1>3. \A i \in 1 .. n - 1 : frames'[i] = Frame("read_char", "handler")
  BY <1>1, <1>2 DEF Stack
<1>4. Stack(frames')
  BY <1>1, <1>2, <1>3 DEF Stack
<1>5. frames' # <<>> => n - 1 \in 1 .. n - 1
  BY <1>1, <1>2
<1> QED
  BY <1>2, <1>3, <1>4, <1>5, PlaceOk

-----------------------------------------------------------------------------
(* A line that is handed out.                                               *)

HandedWell(line, entered) ==
  line # Null =>
    \/ WithoutEnd(entered, Append(line, Newline))
    \/ WithoutEnd(entered, line) /\ (line # <<>> => Last(line) # Newline)

LEMMA HandedInv ==
  LinesAreHandedWhole <=> HandedWell(handed.text, handed.entered)
  BY DEF LinesAreHandedWhole, HandedWell

LEMMA NothingIsWell == HandedWell(Nothing.text, Nothing.entered)
  BY SyncedStarts DEF Synced, HandedWell, Nothing

LEMMA LinesInStep ==
  ASSUME NEW t, NEW e, Synced(t, e), NEW n \in BOOLEAN
  PROVE  Synced(Line(t, n), Line(e, n))
  BY SyncedGrows, KeysApart DEF Line

\* A newline at the end of a line may be cut off.
LEMMA CutRestores ==
  ASSUME NEW t, NEW e, Synced(t, e), t # <<>>, Last(t) = Newline
  PROVE  HandedWell(Front(t), e)
<1> DEFINE S == Typing \cup {EndOfText}
           n == Len(t)
           f == Front(t)
<1>1. t \in Seq(S) /\ n \in Nat \ {0} /\ t[n] = Newline /\ Newline \in S
  BY KeysApart DEF Synced, Last
<1>2. f \in Seq(S) /\ Len(f) = n - 1 /\ \A i \in 1 .. n - 1 : f[i] = t[i]
  BY <1>1, FrontOk
<1> HIDE DEF S, f
<1>3. Append(f, Newline) \in Seq(S) /\ Len(Append(f, Newline)) = n
  BY <1>1, <1>2
<1>4. \A i \in 1 .. n : Append(f, Newline)[i] = t[i]
  BY <1>1, <1>2
<1>5. Append(f, Newline) = t
  BY <1>1, <1>3, <1>4
<1> QED
  BY <1>5 DEF HandedWell, Synced, f

\* What el_gets returns is nothing, or a line in step with what was entered.
Answer(ret, e) == ret = Null \/ (ret # <<>> /\ Synced(ret, e))

LEMMA CutIsWell ==
  ASSUME NEW ret, NEW e, Answer(ret, e)
  PROVE  HandedWell(Cut(ret), e)
<1>1. CASE ret = Null
  BY <1>1 DEF Cut, HandedWell
<1>2. CASE ret # Null /\ Last(ret) = Newline
  BY <1>2, CutRestores DEF Cut, Answer
<1>3. CASE ret # Null /\ Last(ret) # Newline
  BY <1>3 DEF Cut, Answer, HandedWell, Synced
<1> QED
  BY <1>1, <1>2, <1>3

LEMMA FinishedLines ==
  ASSUME NEW ret, Finished(ret) = "line"
  PROVE  ret # Null /\ Last(ret) = Newline
<1>1. <<EndOfText>> # Null /\ Last(<<EndOfText>>) = EndOfText
  BY DEF Null, EndOfText, Last
<1>2. CASE ret = Null
  <2>1. Last(Null) = "null" /\ Last(Null) # Newline
    BY DEF Null, Last, Newline
  <2>2. Finished(ret) = "no"
    BY <1>1, <1>2, <2>1 DEF Finished
  <2> QED
    BY <2>2
<1>3. CASE ret # Null /\ Last(ret) # Newline
  BY <1>1, <1>3 DEF Finished
<1> QED
  BY <1>2, <1>3

-----------------------------------------------------------------------------
(* The invariant of a session.  The line is in step with what was entered   *)
(* in either buffering, whoever changed it, and where the application is    *)
(* outside of a read the terminal is raised for one of two reasons only.    *)

Good(s) ==
  /\ s = [b |-> s.b, l |-> s.l, n |-> s.n, e |-> s.e, m |-> s.m]
  /\ s.b \in {"line", "command"} /\ s.m \in {"editing", "cooked"} /\ s.n \in BOOLEAN
  /\ Synced(s.l, s.e)

\* Outside of a read.
Outside(p) == p.phase \in {"rest", "handler"}
Raised(b, m, installed, raised) == m = "editing" => (installed /\ b = "command") \/ raised

SessionInv ==
  /\ Stack(frames)
  /\ Place(frames).phase = "handler" => Place(frames).in = "read_char"
  /\ Good(Session)
  /\ handler \in BOOLEAN /\ prepared \in BOOLEAN
  /\ Outside(Place(frames)) => Raised(buffering, mode, handler, prepared)
  /\ HandedWell(handed.text, handed.entered)

LEMMA SessionFields ==
  /\ Session.b = buffering /\ Session.l = text /\ Session.n = trailing
  /\ Session.e = entry /\ Session.m = mode
  BY DEF Session

LEMMA EmptiedGood ==
  ASSUME NEW s, Good(s)
  PROVE  Good(Emptied(s)) /\ Emptied(s).b = s.b /\ Emptied(s).m = s.m
  BY SyncedStarts DEF Good, Emptied

LEMMA ModeGood ==
  ASSUME NEW s, Good(s), NEW m \in {"editing", "cooked"}
  PROVE  Good([s EXCEPT !.m = m]) /\ [s EXCEPT !.m = m].b = s.b /\ [s EXCEPT !.m = m].m = m
<1>1. [s EXCEPT !.m = m] = [b |-> s.b, l |-> s.l, n |-> s.n, e |-> s.e, m |-> m]
  BY DEF Good
<1> QED
  BY <1>1 DEF Good

LEMMA BufferingGood ==
  ASSUME NEW s, Good(s), NEW b \in {"line", "command"}, NEW m \in {"editing", "cooked"}
  PROVE  /\ Good([s EXCEPT !.b = b, !.m = m])
         /\ [s EXCEPT !.b = b, !.m = m].b = b /\ [s EXCEPT !.b = b, !.m = m].m = m
<1> DEFINE r == [s EXCEPT !.b = b]
<1>1. r = [b |-> b, l |-> s.l, n |-> s.n, e |-> s.e, m |-> s.m]
  BY DEF Good
<1>2. [s EXCEPT !.b = b, !.m = m] = [r EXCEPT !.m = m]
  OBVIOUS
<1>3. Good(r) /\ r.b = b
  BY <1>1 DEF Good
<1> HIDE DEF r
<1>4. /\ Good([r EXCEPT !.m = m])
      /\ [r EXCEPT !.m = m].b = b /\ [r EXCEPT !.m = m].m = m
  BY <1>3, ModeGood
<1> QED
  BY <1>2, <1>4

LEMMA UnbufferedGood ==
  ASSUME NEW s, Good(s)
  PROVE  Good(Unbuffered(s)) /\ Unbuffered(s).b = "command"
  BY EmptiedGood, BufferingGood DEF Unbuffered

LEMMA BufferedGood ==
  ASSUME NEW s, Good(s)
  PROVE  /\ Good(Buffered(s)) /\ Buffered(s).b = "line"
         /\ Buffered(s).m = (IF s.b = "command" THEN "cooked" ELSE s.m)
  BY DEF Good, Buffered

LEMMA BecomesGood ==
  ASSUME NEW s, Good(s), Becomes(s)
  PROVE  Good(Session)' /\ buffering' = s.b /\ mode' = s.m
  BY DEF Becomes, Session, Good

-----------------------------------------------------------------------------
(* The steps of a session.                                                  *)

LEMMA FrameFields == /\ \A in, ph : Frame(in, ph).in = in /\ Frame(in, ph).phase = ph
                     /\ Rest.in = "none" /\ Rest.phase = "rest"
  BY DEF Frame, Rest

LEMMA PlacesOk ==
  ASSUME Stack(frames)
  PROVE  /\ AtRest <=> Place(frames) = Rest
         /\ \A ph \in Phases : InPhase(ph) <=> frames # <<>> /\ Place(frames).phase = ph
         /\ frames # <<>> => Place(frames) \in Records /\ Place(frames) = Top
<1>1. frames # <<>> => Place(frames) = Top /\ Place(frames) \in Records
  BY PlaceOk DEF Top
<1>2. AtRest <=> Place(frames) = Rest
  BY PlaceOk DEF AtRest
<1>3. \A ph \in Phases : InPhase(ph) <=> frames # <<>> /\ Place(frames).phase = ph
  BY <1>1 DEF InPhase
<1> QED
  BY <1>1, <1>2, <1>3

(* Where the application may call, and what holds there.                    *)
LEMMA AtPlaces ==
  ASSUME SessionInv
  PROVE  /\ AtRest => Place(frames) = Rest
         /\ InHandler => Place(frames) = Frame("read_char", "handler")
         /\ InHook => Place(frames).phase \in {"startup", "pre_input"}
         /\ AtRest \/ InHandler => Outside(Place(frames))
<1>1. Stack(frames)
  BY DEF SessionInv
<1>2. ASSUME InHandler PROVE Place(frames) = Frame("read_char", "handler")
  <2>1. Place(frames).phase = "handler" /\ Place(frames) \in Records
    BY <1>1, <1>2, PlacesOk DEF InHandler, Phases
  <2> QED
    BY <2>1 DEF SessionInv, Records, Frame
<1>3. AtRest => Place(frames) = Rest
  BY <1>1, PlacesOk
<1>4. InHook => Place(frames).phase \in {"startup", "pre_input"}
  BY <1>1, PlacesOk DEF InHook, Phases
<1>5. AtRest \/ InHandler => Outside(Place(frames))
  BY <1>2, <1>3, FrameFields DEF Outside
<1> QED
  BY <1>2, <1>3, <1>4, <1>5

LEMMA SessionStarts == SessionInit => SessionInv
<1> SUFFICES ASSUME SessionInit PROVE SessionInv
  OBVIOUS
<1>1. Stack(frames) /\ Place(frames) = Rest
  BY DEF SessionInit, Stack, Place
<1>2. Good(Session)
  BY SyncedStarts DEF SessionInit, Session, Good
<1>3. HandedWell(handed.text, handed.entered)
  BY NothingIsWell DEF SessionInit
<1> QED
  BY <1>1, <1>2, <1>3, FrameFields DEF SessionInit, SessionInv, Raised

\* A step that goes on inside of a call, outside of line handlers.
LEMMA Within ==
  ASSUME SessionInv, frames # <<>>, NEW p \in Phases \ {"rest", "handler"}, Phase(p),
         Good(Session)', handler' \in BOOLEAN, prepared' \in BOOLEAN,
         handed' = handed
  PROVE  SessionInv'
<1>1. Stack(frames') /\ Place(frames') = Frame(Place(frames).in, p)
  BY PhaseMoves DEF SessionInv
<1> QED
  BY <1>1, FrameFields DEF SessionInv, Outside

\* A step that leaves the calls as they are.
LEMMA InPlace ==
  ASSUME SessionInv, UNCHANGED frames, Good(Session)',
         handler' \in BOOLEAN, prepared' \in BOOLEAN, handed' = handed,
         Outside(Place(frames)) => Raised(buffering, mode, handler, prepared)'
  PROVE  SessionInv'
  BY DEF SessionInv

(* A step that touches neither line nor terminal.                           *)
LEMMA OtherCallsKeep ==
  ASSUME SessionInv,
         UNCHANGED <<frames, text, trailing, entry, buffering, mode, handler, prepared, handed>>
  PROVE  SessionInv'
  BY DEF SessionInv, Session, Raised

LEMMA CallReadlineKeeps == ASSUME SessionInv, CallReadline PROVE SessionInv'
<1>1. /\ UNCHANGED <<text, trailing, entry, buffering, mode, handler, prepared>>
      /\ handed' = Nothing /\ Calls("readline") /\ (AtRest \/ InHandler)
  BY DEF CallReadline, editor, flags
<1>2. Stack(frames') /\ Place(frames') = Frame("readline", "startup")
  BY <1>1, AtPlaces, CallEnters DEF SessionInv, Callers
<1>3. Good(Session)'
  BY <1>1 DEF SessionInv, Session
<1> QED
  BY <1>1, <1>2, <1>3, FrameFields, NothingIsWell DEF SessionInv, Outside

LEMMA StartupReturnsKeeps == ASSUME SessionInv, StartupReturns PROVE SessionInv'
<1>1. /\ UNCHANGED <<text, trailing, buffering, entry, handler, prepared, handed>>
      /\ mode' = "editing" /\ Phase("pre_input") /\ InPhase("startup")
  BY DEF StartupReturns, TryAgain
<1>2. frames # <<>>
  BY <1>1 DEF InPhase
<1>3. Good(Session)'
  BY <1>1 DEF SessionInv, Session, Good
<1>4. "pre_input" \in Phases \ {"rest", "handler"}
  BY DEF Phases
<1> QED
  BY <1>1, <1>2, <1>3, <1>4, Within DEF SessionInv

LEMMA GetsBeginsGood == ASSUME SessionInv, GetsBegins PROVE Good(Session)'
<1> DEFINE s == IF buffering = "line" THEN Emptied(Session) ELSE Session
<1>1. Good(s)
  BY EmptiedGood DEF SessionInv
<1> HIDE DEF s
<1>2. Good([s EXCEPT !.m = "editing"])
  BY <1>1, ModeGood
<1>3. Becomes([s EXCEPT !.m = "editing"])
  BY DEF GetsBegins, s
<1> QED
  BY <1>2, <1>3, BecomesGood

LEMMA PreInputReturnsKeeps == ASSUME SessionInv, PreInputReturns PROVE SessionInv'
<1>1. /\ UNCHANGED <<handler, prepared, handed>> /\ GetsBegins
      /\ Phase("editing") /\ frames # <<>>
  BY DEF PreInputReturns, InPhase
<1>2. "editing" \in Phases \ {"rest", "handler"}
  BY DEF Phases
<1> QED
  BY <1>1, <1>2, GetsBeginsGood, Within DEF SessionInv

LEMMA CallReadCharKeeps == ASSUME SessionInv, CallReadChar PROVE SessionInv'
<1>1. /\ UNCHANGED <<handler, prepared>> /\ handed' = Nothing
      /\ AtRest /\ GetsBegins /\ Calls("read_char")
  BY DEF CallReadChar, flags
<1>2. Stack(frames') /\ Place(frames') = Frame("read_char", "editing")
  BY <1>1, AtPlaces, CallEnters DEF SessionInv, Callers
<1>3. Good(Session)'
  BY <1>1, GetsBeginsGood
<1> QED
  BY <1>1, <1>2, <1>3, FrameFields, NothingIsWell DEF SessionInv, Outside

\* A call returns, and the terminal is as it should be outside of a read.
LEMMA Leaving ==
  ASSUME SessionInv, frames # <<>>, Leave, Good(Session)',
         handler' \in BOOLEAN, prepared' \in BOOLEAN,
         HandedWell(handed'.text, handed'.entered),
         Raised(buffering, mode, handler, prepared)'
  PROVE  SessionInv'
<1>1. Stack(frames') /\ Place(frames') \in {Rest, Frame("read_char", "handler")}
  BY CallLeaves DEF SessionInv
<1> QED
  BY <1>1, FrameFields DEF SessionInv

LEMMA HandlerReturnsKeeps == ASSUME SessionInv, HandlerReturns PROVE SessionInv'
<1>1. /\ UNCHANGED <<text, trailing, entry, buffering, mode, handler, prepared, handed>>
      /\ InHandler /\ Leave
  BY DEF HandlerReturns, editor, flags, ghosts
<1>2. frames # <<>> /\ Outside(Place(frames))
  BY <1>1, AtPlaces DEF InHandler, InPhase
<1>3. Good(Session)' /\ Raised(buffering, mode, handler, prepared)'
  BY <1>1, <1>2 DEF SessionInv, Session, Raised
<1> QED
  BY <1>1, <1>2, <1>3, Leaving DEF SessionInv

LEMMA InstallHandlerKeeps == ASSUME SessionInv, InstallHandler PROVE SessionInv'
<1> DEFINE s == Unbuffered(Session)
<1>1. /\ UNCHANGED <<frames, handed>> /\ handler' = TRUE
      /\ Becomes(s) /\ prepared' = (prepared /\ s.m = "editing")
  BY DEF InstallHandler, Installs
<1>2. Good(s) /\ s.b = "command"
  BY UnbufferedGood DEF SessionInv
<1> HIDE DEF s
<1>3. Good(Session)' /\ buffering' = "command"
  BY <1>1, <1>2, BecomesGood
<1>4. Raised(buffering, mode, handler, prepared)'
  BY <1>1, <1>3 DEF Raised
<1> QED
  BY <1>1, <1>3, <1>4, InPlace

LEMMA RemoveHandlerKeeps == ASSUME SessionInv, RemoveHandler PROVE SessionInv'
<1> DEFINE s == Buffered(Session)
<1>1. /\ UNCHANGED <<frames, handed>> /\ handler' = FALSE
      /\ Becomes(s) /\ prepared' = (prepared /\ s.m = "editing")
  BY DEF RemoveHandler, Installs
<1>2. Good(s) /\ s.m = (IF buffering = "command" THEN "cooked" ELSE mode)
  BY BufferedGood, SessionFields DEF SessionInv
<1> HIDE DEF s
<1>3. Good(Session)' /\ mode' = s.m
  BY <1>1, <1>2, BecomesGood
<1>4. Outside(Place(frames)) => Raised(buffering, mode, handler, prepared)'
  <2> SUFFICES ASSUME Outside(Place(frames)), mode' = "editing" PROVE prepared'
    BY DEF Raised
  <2>1. mode = "editing" /\ buffering # "command"
    BY <1>2, <1>3
  <2>2. prepared
    BY <2>1 DEF SessionInv, Raised
  <2> QED
    BY <1>1, <1>3, <2>2
<1> QED
  BY <1>1, <1>3, <1>4, InPlace

(* Keys and results.                                                        *)

LEMMA GotPhases ==
  \A result \in {"line", "end", "command", "failure"} :
     ResultPhase[result] \in Phases \ {"rest", "handler", "editing", "command", "startup", "pre_input"}
  BY DEF ResultPhase, Phases

LEMMA SyncedInsert ==
  ASSUME Synced(text, entry), NEW k \in Units, InsertKey(k)
  PROVE  Synced(text', entry')
<1>1. Synced(Append(text, k), Append(entry, k))
  BY SyncedGrows DEF Typing
<1> QED
  BY <1>1 DEF InsertKey

LEMMA SyncedAlone ==
  ASSUME NEW k \in Units
  PROVE  Synced(<<k>>, <<k>>)
<1>1. Synced(Append(<<>>, k), Append(<<>>, k))
  BY SyncedStarts, SyncedGrows DEF Typing
<1>2. Append(<<>>, k) = <<k>>
  OBVIOUS
<1> QED
  BY <1>1, <1>2

LEMMA EraseKeepsPace ==
  ASSUME Synced(text, entry), Erase
  PROVE  Synced(text', entry')
  BY SyncedErased DEF Erase

\* A step inside of el_gets: the line stays in step with what was entered.
LEMMA EntryKeeps ==
  ASSUME SessionInv, UNCHANGED <<buffering, mode, handler, prepared, handed>>,
         frames # <<>>, ~Outside(Place(frames)), trailing' \in BOOLEAN,
         Synced(text', entry'),
         \/ \E r \in {"line", "end", "command", "failure"} : Result(r)
         \/ Phase("command") \/ Phase("editing") \/ UNCHANGED frames
  PROVE  SessionInv'
<1>1. Good(Session)'
  BY DEF SessionInv, Session, Good
<1>2. CASE UNCHANGED frames
  BY <1>1, <1>2, InPlace DEF SessionInv
<1>3. ASSUME NEW p \in Phases \ {"rest", "handler"}, Phase(p) PROVE SessionInv'
  BY <1>1, <1>3, Within DEF SessionInv
<1>4. {"command", "editing"} \subseteq Phases \ {"rest", "handler"}
  BY DEF Phases
<1>5. \A r \in {"line", "end", "command", "failure"} : ResultPhase[r] \in Phases \ {"rest", "handler"}
  BY GotPhases
<1> QED
  BY <1>2, <1>3, <1>4, <1>5 DEF Result

LEMMA KeyKeeps == ASSUME SessionInv, Key PROVE SessionInv'
<1>1. /\ UNCHANGED <<buffering, mode, handler, prepared, handed>> /\ InPhase("editing")
  BY DEF Key, flags
<1>2. frames # <<>> /\ ~Outside(Place(frames))
  BY <1>1, PlacesOk DEF SessionInv, Phases, Outside
<1>3. Synced(text, entry) /\ trailing \in BOOLEAN
  BY SessionFields DEF SessionInv, Good
<1>4. PICK k \in Units \cup {Newline, "erase", EndOfText, "bound"} :
        CASE k \in Units -> (pushed # <<>> \/ Room) /\ InsertKey(k) /\ Goes /\ UNCHANGED asked
          [] k = "erase" /\ text # <<>> -> Erase /\ Goes /\ UNCHANGED asked
          [] k = Newline -> Result("line") /\ UNCHANGED <<text, trailing, entry, asked>>
          [] k = EndOfText /\ text = <<>> /\ ~trailing ->
               Result("end") /\ asked' = TRUE /\ UNCHANGED <<text, trailing, entry>>
          [] k = EndOfText /\ trailing ->
               trailing' = FALSE /\ Goes /\ UNCHANGED <<text, entry, asked>>
          [] k = "bound" -> Phase("command") /\ UNCHANGED <<text, trailing, entry, asked>>
          [] OTHER -> Goes /\ UNCHANGED <<text, trailing, entry, asked>>
  BY DEF Key
<1>5. /\ (k \in Units /\ InsertKey(k)) \/ Erase \/ (UNCHANGED <<text, entry>> /\ trailing' \in BOOLEAN)
      /\ Goes \/ Result("line") \/ Result("end") \/ Phase("command")
  BY <1>3, <1>4, UnitsAssumption DEF Newline, EndOfText
<1>6. Goes => Result("command") \/ UNCHANGED frames
  BY DEF Goes
<1>7. Synced(text', entry') /\ trailing' \in BOOLEAN
  <2>1. CASE k \in Units /\ InsertKey(k)
    BY <1>3, <2>1, SyncedInsert DEF InsertKey
  <2>2. CASE Erase
    BY <1>3, <2>2, EraseKeepsPace DEF Erase
  <2> QED
    BY <1>3, <1>5, <2>1, <2>2
<1> QED
  BY <1>1, <1>2, <1>5, <1>6, <1>7, EntryKeeps

LEMMA ResultsKeep ==
  ASSUME SessionInv, CommandReturns \/ HookIsGone \/ ReadFails
  PROVE  SessionInv'
<1>1. UNCHANGED <<text, trailing, entry, buffering, mode, handler, prepared, handed>>
  BY DEF CommandReturns, HookIsGone, ReadFails, editor, flags, ghosts
<1>2. InPhase("command") \/ InPhase("editing")
  BY DEF CommandReturns, HookIsGone, ReadFails, InCommand
<1>3. frames # <<>> /\ ~Outside(Place(frames))
  BY <1>2, PlacesOk DEF SessionInv, Phases, Outside
<1>4. Synced(text', entry') /\ trailing' \in BOOLEAN
  BY <1>1, SessionFields DEF SessionInv, Good
<1>5. (\E r \in {"line", "end", "command", "failure"} : Result(r)) \/ Phase("editing")
  BY DEF CommandReturns, HookIsGone, ReadFails
<1> QED
  BY <1>1, <1>3, <1>4, <1>5, EntryKeeps

LEMMA EditLineKeeps == ASSUME SessionInv, EditLine PROVE SessionInv'
<1>1. UNCHANGED <<frames, buffering, mode, handler, prepared, handed>> /\ (InCommand \/ InHook)
  BY DEF EditLine, flags
<1>2. frames # <<>> /\ ~Outside(Place(frames))
  BY <1>1, PlacesOk DEF SessionInv, Phases, Outside, InCommand, InHook
<1>3. Synced(text, entry) /\ trailing \in BOOLEAN
  BY SessionFields DEF SessionInv, Good
<1>4. Synced(text', entry') /\ trailing' \in BOOLEAN
  <2>1. ASSUME NEW k \in Units, InsertKey(k) PROVE Synced(text', entry') /\ trailing' \in BOOLEAN
    BY <1>3, <2>1, SyncedInsert DEF InsertKey
  <2>2. ASSUME NEW k \in Units, text' = <<k>>, entry' = <<k>>, trailing' = FALSE
        PROVE  Synced(text', entry') /\ trailing' \in BOOLEAN
    <3>1. Synced(<<k>>, <<k>>)
      BY SyncedAlone
    <3> QED
      BY <2>2, <3>1
  <2>3. Erase => Synced(text', entry') /\ trailing' \in BOOLEAN
    BY <1>3, EraseKeepsPace DEF Erase
  <2> QED
    BY <2>1, <2>2, <2>3 DEF EditLine
<1> QED
  BY <1>1, <1>2, <1>4, EntryKeeps

LEMMA TerminalCallsKeep ==
  ASSUME SessionInv, PrepTerminal \/ DeprepTerminal
  PROVE  SessionInv'
<1>1. /\ UNCHANGED <<frames, text, trailing, entry, buffering, handler, handed>>
      /\ (mode' = "editing" /\ prepared' = TRUE) \/ (mode' = "cooked" /\ prepared' = FALSE)
  BY DEF PrepTerminal, DeprepTerminal, flags
<1>2. Good(Session)' /\ Raised(buffering, mode, handler, prepared)'
  BY <1>1 DEF SessionInv, Session, Good, Raised
<1> QED
  BY <1>1, <1>2, InPlace DEF SessionInv

LEMMA InitializeKeeps == ASSUME SessionInv, Initialize PROVE SessionInv'
<1> DEFINE s == [Emptied(Session) EXCEPT !.b = "line", !.m = "cooked"]
<1>1. UNCHANGED <<frames, handler, handed>> /\ Becomes(s) /\ prepared' = FALSE
  BY DEF Initialize, flags
<1>2. Good(s) /\ s.m = "cooked"
  BY EmptiedGood, BufferingGood DEF SessionInv
<1> HIDE DEF s
<1>3. Good(Session)' /\ mode' = "cooked"
  BY <1>1, <1>2, BecomesGood
<1>4. Raised(buffering, mode, handler, prepared)'
  BY <1>3 DEF Raised
<1> QED
  BY <1>1, <1>3, <1>4, InPlace DEF SessionInv

(* What el_gets leaves and returns.                                         *)

LEMMA LeftGood ==
  ASSUME SessionInv, NEW result \in {"line", "end", "command", "failure"}
  PROVE  Good(Left(result))
<1> DEFINE m == IF buffering = "command" /\ result # "failure" THEN mode ELSE "cooked"
           s == [Session EXCEPT !.m = m]
           ended == [b |-> s.b, l |-> Append(Line(text, trailing), EndOfText), n |-> FALSE,
                     e |-> Line(entry, trailing), m |-> s.m]
           accepted == [s EXCEPT !.n = trailing \/ ~EndsInNewline]
<1>1. Synced(text, entry) /\ trailing \in BOOLEAN /\ m \in {"editing", "cooked"}
  BY SessionFields DEF SessionInv, Good
<1>2. Good(s) /\ s = [b |-> buffering, l |-> text, n |-> trailing, e |-> entry, m |-> m]
  <2>1. Good(Session)
    BY DEF SessionInv
  <2> HIDE DEF m
  <2>2. Good(s)
    BY <1>1, <2>1, ModeGood, Zenon
  <2>3. s = [b |-> buffering, l |-> text, n |-> trailing, e |-> entry, m |-> m]
    BY DEF Session
  <2> QED
    BY <2>2, <2>3
<1>3. Left(result) = accepted \/ Left(result) = ended \/ Left(result) = s
  <2>1. CASE result = "line"
    BY <2>1 DEF Left
  <2>2. CASE result = "end" /\ buffering = "command"
    BY <2>2 DEF Left
  <2>3. CASE result # "line" /\ ~(result = "end" /\ buffering = "command")
    BY <2>3 DEF Left
  <2> QED
    BY <2>1, <2>2, <2>3
<1>4. Good(accepted)
  <2>1. (trailing \/ ~EndsInNewline) \in BOOLEAN
    BY <1>1 DEF EndsInNewline
  <2> DEFINE n == trailing \/ ~EndsInNewline
  <2> HIDE DEF s, m, n
  <2>2. [s EXCEPT !.n = n] = [b |-> buffering, l |-> text, n |-> n, e |-> entry, m |-> m]
    BY <1>2
  <2>3. Good([s EXCEPT !.n = n])
    BY <1>2, <2>1, <2>2 DEF Good, n
  <2> QED
    BY <2>3 DEF n, s, m
<1>5. Good(ended)
  <2>1. Synced(Append(Line(text, trailing), EndOfText), Line(entry, trailing))
    BY <1>1, LinesInStep, SyncedGrows
  <2>2. s.b \in {"line", "command"} /\ s.m \in {"editing", "cooked"}
    BY <1>2 DEF Good
  <2> HIDE DEF s
  <2> QED
    BY <2>1, <2>2 DEF Good
<1> QED
  BY <1>2, <1>3, <1>4, <1>5

LEMMA ReplyOk ==
  ASSUME NEW s, Good(s), NEW result
  PROVE  Answer(Reply(result, s), Line(s.e, s.n))
  BY LinesInStep DEF Good, Reply, Answer

LEMMA ReadlineGotKeeps ==
  ASSUME SessionInv, frames # <<>>, NEW s, Good(s), NEW ret, Answer(ret, Line(s.e, s.n)),
         ReadlineGot(ret, s)
  PROVE  SessionInv'
<1>1. UNCHANGED handler
  BY DEF ReadlineGot
<1>2. CASE aborting
  <2>1. /\ Phase("pre_input") /\ Becomes(s) /\ prepared' = (prepared /\ s.m = "editing")
        /\ UNCHANGED handed
    BY <1>2 DEF ReadlineGot, TryAgain
  <2>2. "pre_input" \in Phases \ {"rest", "handler"} /\ prepared' \in BOOLEAN
    BY <2>1 DEF Phases
  <2> QED
    BY <1>1, <2>1, <2>2, BecomesGood, Within DEF SessionInv
<1>3. CASE ~aborting
  <2> DEFINE low == [s EXCEPT !.m = "cooked"]
  <2>1. Hand(Cut(ret), s) /\ Leave /\ Becomes(low) /\ prepared' = FALSE
    BY <1>3 DEF ReadlineGot
  <2>2. Good(low) /\ low.m = "cooked"
    BY ModeGood
  <2> HIDE DEF low
  <2>3. Good(Session)' /\ mode' = "cooked"
    BY <2>1, <2>2, BecomesGood
  <2>4. HandedWell(handed'.text, handed'.entered)
    BY <2>1, CutIsWell DEF Hand
  <2>5. Raised(buffering, mode, handler, prepared)'
    BY <2>3 DEF Raised
  <2> QED
    BY <1>1, <2>1, <2>3, <2>4, <2>5, Leaving DEF SessionInv
<1> QED
  BY <1>2, <1>3

LEMMA CallbackGotKeeps ==
  ASSUME SessionInv, frames # <<>>, Place(frames).in = "read_char", NEW s, Good(s),
         NEW ret, Answer(ret, Line(s.e, s.n)), CallbackGot(ret, s)
  PROVE  SessionInv'
<1> DEFINE again == Unbuffered(s)
           back == Buffered(again)
           finished == Finished(ret)
           line == IF finished = "line" THEN Front(ret) ELSE Null
<1>1. UNCHANGED handler
  BY DEF CallbackGot, flags
<1>2. Good(again) /\ again.b = "command" /\ Good(back) /\ back.m = "cooked"
  BY UnbufferedGood, BufferedGood
<1>3. CASE finished # "no" /\ handler
  <2>1. Becomes(back) /\ prepared' = (prepared /\ back.m = "editing") /\ Hand(line, s) /\ Phase("handler")
    BY <1>3 DEF CallbackGot
  <2>2. HandedWell(line, Line(s.e, s.n))
    <3>1. CASE finished = "line"
      BY <3>1, FinishedLines, CutRestores DEF Answer
    <3>2. CASE finished # "line"
      BY <3>2 DEF HandedWell
    <3> QED
      BY <3>1, <3>2
  <2> HIDE DEF again, back, finished, line
  <2>3. HandedWell(handed'.text, handed'.entered)
    BY <2>1, <2>2 DEF Hand
  <2>4. Good(Session)' /\ mode' = "cooked" /\ prepared' \in BOOLEAN
    BY <1>2, <2>1, BecomesGood
  <2>5. Stack(frames') /\ Place(frames') = Frame("read_char", "handler")
    BY <2>1, PhaseMoves DEF SessionInv, Phases
  <2> QED
    BY <1>1, <2>3, <2>4, <2>5, FrameFields DEF SessionInv, Raised
<1>4. CASE ~(finished # "no" /\ handler)
  <2>1. /\ Becomes(again) /\ prepared' = (again.m = "editing" /\ (prepared \/ ~handler))
        /\ Leave /\ UNCHANGED handed
    BY <1>4 DEF CallbackGot
  <2> HIDE DEF again, back, finished, line
  <2>2. Good(Session)' /\ buffering' = "command" /\ mode' = again.m
    BY <1>2, <2>1, BecomesGood
  <2>3. Raised(buffering, mode, handler, prepared)' /\ prepared' \in BOOLEAN
    BY <1>1, <2>1, <2>2 DEF Raised
  <2> QED
    BY <1>1, <2>1, <2>2, <2>3, Leaving DEF SessionInv
<1> QED
  BY <1>3, <1>4

LEMMA ReturnsKeep == ASSUME SessionInv, Returns PROVE SessionInv'
<1> PICK result \in {"line", "end", "command", "failure"} :
      LET s == Left(result) IN
      /\ InPhase(ResultPhase[result])
      /\ IF Top.in = "readline" THEN ReadlineGot(Reply(result, s), s) ELSE CallbackGot(Reply(result, s), s)
  BY DEF Returns
<1> DEFINE s == Left(result)
<1>1. frames # <<>> /\ Place(frames) = Top /\ Place(frames).in \in Callers
  <2>1. frames # <<>>
    BY DEF InPhase
  <2> QED
    BY <2>1, PlacesOk DEF SessionInv, Records
<1>2. Good(s) /\ Answer(Reply(result, s), Line(s.e, s.n))
  BY LeftGood, ReplyOk
<1>3. IF Top.in = "readline" THEN ReadlineGot(Reply(result, s), s) ELSE CallbackGot(Reply(result, s), s)
  OBVIOUS
<1> HIDE DEF s
<1>4. CASE Top.in = "readline"
  BY <1>1, <1>2, <1>3, <1>4, ReadlineGotKeeps
<1>5. CASE Top.in # "readline"
  BY <1>1, <1>2, <1>3, <1>5, CallbackGotKeeps DEF Callers
<1> QED
  BY <1>4, <1>5

-----------------------------------------------------------------------------

LEMMA SessionStep ==
  SessionInv /\ [SessionNext]_<<frames, editor, flags, ghosts>> => SessionInv'
<1> SUFFICES ASSUME SessionInv, [SessionNext]_<<frames, editor, flags, ghosts>>
             PROVE  SessionInv'
  OBVIOUS
<1>1. CASE UNCHANGED <<frames, editor, flags, ghosts>>
  BY <1>1, OtherCallsKeep DEF editor, flags, ghosts
<1>2. CASE SetDone \/ Abort \/ PushInput \/ SetEventHook
  BY <1>2, OtherCallsKeep DEF SetDone, Abort, PushInput, SetEventHook, editor, flags, ghosts
<1>3. CASE \/ CallReadline \/ StartupReturns \/ PreInputReturns \/ CallReadChar
           \/ HandlerReturns \/ InstallHandler \/ RemoveHandler
  BY <1>3, CallReadlineKeeps, StartupReturnsKeeps, PreInputReturnsKeeps, CallReadCharKeeps,
     HandlerReturnsKeeps, InstallHandlerKeeps, RemoveHandlerKeeps
<1>4. CASE Key \/ CommandReturns \/ HookIsGone \/ ReadFails \/ Returns
  BY <1>4, KeyKeeps, ResultsKeep, ReturnsKeep
<1>5. CASE EditLine \/ PrepTerminal \/ DeprepTerminal \/ Initialize
  BY <1>5, EditLineKeeps, TerminalCallsKeep, InitializeKeeps
<1> QED
  BY <1>1, <1>2, <1>3, <1>4, <1>5 DEF SessionNext

LEMMA SessionInvariant == SessionSpec => []SessionInv
  BY SessionStarts, SessionStep, PTL DEF SessionSpec

(* Between its reads and in its line handler an application finds the       *)
(* terminal as it was, unless a handler waits for single keys or the        *)
(* terminal was raised outside of a read.                                   *)
THEOREM TerminalComesBack == SessionSpec => []TerminalIsGivenBack
<1>1. SessionInv => TerminalIsGivenBack
  BY AtPlaces DEF SessionInv, Raised, TerminalIsGivenBack
<1> QED
  BY <1>1, SessionInvariant, PTL

(* A line that readline() returns in either buffering, or a line handler is *)
(* given, is what was entered since it was begun, in whatever calls, hooks  *)
(* and commands, but for the newline that ended it and the ^Ds of ended     *)
(* inputs.                                                                  *)
THEOREM LinesArriveWhole == SessionSpec => []LinesAreHandedWhole
<1>1. SessionInv => LinesAreHandedWhole
  BY HandedInv DEF SessionInv
<1> QED
  BY <1>1, SessionInvariant, PTL

-----------------------------------------------------------------------------
(* Saving.  SavesAreWhole is not inductive: a power loss may bring back any *)
(* file the destination has named, so all of them have to be on the disk,   *)
(* and a rename is safe since the file was synced and had its permissions   *)
(* before it.                                                               *)

Steps == {"create", "permit", "write", "sync", "persist", "saved", "failed", "killed"}

Typed ==
  /\ at \in [Savers -> Steps]
  /\ named \in renames
  /\ renames \subseteq Files \cup {NoFile}
  /\ temporaries \subseteq Savers
  /\ filled \in [Files -> 0..Pieces]
  /\ synced \in [Files -> 0..Pieces]
  /\ permissions \in [Files -> {"shared", "private"}]

\* What the disk is sure to hold.
OnDisk ==
  /\ \A f \in renames \ {NoFile} : synced[f] = Pieces
  /\ \A f \in Files : synced[f] \leq filled[f]
  /\ \A p \in Savers :
       /\ at[p] \in {"create", "permit"} => filled[p] = 0
       /\ at[p] = "write" => filled[p] < Pieces
       /\ at[p] = "sync" => filled[p] = Pieces
       /\ at[p] = "persist" => synced[p] = Pieces

\* Who may read the files the destination has named and the ones to come.
Permitted ==
  /\ \A f \in renames : Permissions(f) = Permissions(named)
  /\ \A p \in Savers : at[p] \in {"write", "sync", "persist"} => permissions[p] = Permissions(named)

Ended ==
  \A p \in Savers :
    /\ at[p] # "saved" => p \notin renames
    /\ p \in temporaries => at[p] \notin {"create", "failed", "saved"}

SavingInv == Typed /\ OnDisk /\ Permitted /\ Ended

Distinct == Original \notin Savers /\ NoFile \notin Files /\ Pieces \in Nat \ {0}

LEMMA SavingStarts == ASSUME Distinct, SavingInit PROVE SavingInv
<1>1. Typed
  <2>1. named \in Files \cup {NoFile} /\ renames = {named} /\ temporaries = {}
    BY DEF SavingInit, Files
  <2>2. filled \in [Files -> 0..Pieces] /\ synced = filled
    BY DEF Distinct, SavingInit
  <2> QED BY <2>1, <2>2 DEF SavingInit, Typed, Steps
<1>2. OnDisk
  <2>1. /\ filled = [f \in Files |-> IF f = Original THEN Pieces ELSE 0]
        /\ synced = filled /\ at = [p \in Savers |-> "create"]
        /\ renames \subseteq {Original, NoFile}
    BY DEF SavingInit
  <2>2. synced[Original] = Pieces
    BY <2>1 DEF Files
  <2>3. \A f \in Files : filled[f] \in Nat
    BY <2>1 DEF Distinct
  <2>4. \A p \in Savers : at[p] = "create" /\ filled[p] = 0
    BY <2>1 DEF Distinct, Files
  <2> QED BY <2>1, <2>2, <2>3, <2>4 DEF OnDisk
<1>3. Permitted
  BY DEF SavingInit, Permitted
<1>4. Ended
  BY DEF Distinct, SavingInit, Ended, Files
<1> QED BY <1>1, <1>2, <1>3, <1>4 DEF SavingInv

LEMMA SavingFail ==
  ASSUME Distinct, SavingInv, NEW p \in Savers, Fail(p),
         at[p] \in {"create", "permit", "write", "sync", "persist"}
  PROVE  SavingInv'
<1>1. Typed'
  BY DEF SavingInv, Typed, Fail, Steps
<1>2. OnDisk'
  BY DEF SavingInv, Typed, OnDisk, Fail
<1>3. Permitted'
  BY DEF SavingInv, Typed, Permitted, Permissions, Fail
<1>4. Ended'
  BY DEF SavingInv, Typed, Ended, Fail
<1> QED BY <1>1, <1>2, <1>3, <1>4 DEF SavingInv

LEMMA SavingStep ==
  ASSUME Distinct, SavingInv, NEW p \in Savers, Step(p)
  PROVE  SavingInv'
<1> p \in Files
  BY DEF Files
<1>1. CASE Create(p)
  <2>1. CASE Fail(p)
    BY <1>1, <2>1, SavingFail DEF Create
  <2>2. CASE ~ Fail(p)
    <3>1. /\ at[p] = "create" /\ at' = [at EXCEPT ![p] = "permit"]
          /\ temporaries' = temporaries \cup {p}
          /\ UNCHANGED <<named, renames, filled, synced, permissions>>
      BY <1>1, <2>2 DEF Create
    <3>2. Typed'
      BY <3>1 DEF SavingInv, Typed, Steps
    <3>3. OnDisk'
      BY <3>1 DEF SavingInv, Typed, OnDisk
    <3>4. Permitted'
      BY <3>1 DEF SavingInv, Typed, Permitted, Permissions
    <3>5. Ended'
      BY <3>1 DEF SavingInv, Typed, Ended
    <3> QED BY <3>2, <3>3, <3>4, <3>5 DEF SavingInv
  <2> QED BY <2>1, <2>2
<1>2. CASE Permit(p)
  <2>1. CASE Fail(p)
    BY <1>2, <2>1, SavingFail DEF Permit
  <2>2. CASE ~ Fail(p)
    <3>1. /\ at[p] = "permit" /\ at' = [at EXCEPT ![p] = "write"]
          /\ permissions' = [permissions EXCEPT ![p] = Permissions(named)]
          /\ UNCHANGED <<named, renames, temporaries, filled, synced>>
      BY <1>2, <2>2 DEF Permit
    <3>2. Permissions(named) \in {"shared", "private"}
      BY DEF SavingInv, Typed, Permissions
    <3>3. Typed'
      BY <3>1, <3>2 DEF SavingInv, Typed, Steps
    <3>4. OnDisk'
      BY <3>1 DEF Distinct, SavingInv, Typed, OnDisk
    <3>5. p \notin renames
      BY <3>1 DEF SavingInv, Ended
    <3>6. \A f \in renames : Permissions(f)' = Permissions(f)
      BY <3>1, <3>5 DEF SavingInv, Typed, Permissions
    <3>7. Permissions(named)' = Permissions(named)
      BY <3>1, <3>6 DEF SavingInv, Typed, Permissions
    <3>8. Permitted'
      <4>1. (\A f \in renames : Permissions(f) = Permissions(named))'
        BY <3>1, <3>6, <3>7 DEF SavingInv, Permitted
      <4>2. ASSUME NEW q \in Savers, at'[q] \in {"write", "sync", "persist"}
            PROVE  permissions'[q] = Permissions(named)'
        <5>1. CASE q = p
          BY <5>1, <3>1, <3>7 DEF SavingInv, Typed, Files
        <5>2. CASE q # p
          BY <4>2, <5>2, <3>1, <3>7 DEF SavingInv, Typed, Permitted, Files
        <5> QED BY <5>1, <5>2
      <4> QED BY <4>1, <4>2 DEF Permitted
    <3>9. Ended'
      BY <3>1 DEF SavingInv, Typed, Ended
    <3> QED BY <3>3, <3>4, <3>8, <3>9 DEF SavingInv
  <2> QED BY <2>1, <2>2
<1>3. CASE Write(p)
  <2>1. CASE Fail(p)
    BY <1>3, <2>1, SavingFail DEF Write
  <2>2. CASE ~ Fail(p)
    <3>1. /\ at[p] = "write" /\ filled' = [filled EXCEPT ![p] = @ + 1]
          /\ at' = IF filled'[p] = Pieces THEN [at EXCEPT ![p] = "sync"] ELSE at
          /\ UNCHANGED <<named, renames, temporaries, synced, permissions>>
      BY <1>3, <2>2 DEF Write
    <3>2. filled[p] \in 0..Pieces /\ filled[p] < Pieces /\ filled'[p] = filled[p] + 1
      BY <3>1 DEF SavingInv, Typed, OnDisk
    <3>3. Typed'
      BY <3>1, <3>2 DEF Distinct, SavingInv, Typed, Steps
    <3>4. OnDisk'
      BY <3>1, <3>2, <3>3 DEF Distinct, SavingInv, Typed, OnDisk, Files
    <3>5. Permitted'
      BY <3>1 DEF SavingInv, Typed, Permitted, Permissions
    <3>6. Ended'
      BY <3>1 DEF SavingInv, Typed, Ended
    <3> QED BY <3>3, <3>4, <3>5, <3>6 DEF SavingInv
  <2> QED BY <2>1, <2>2
<1>4. CASE Sync(p)
  <2>1. CASE Fail(p)
    BY <1>4, <2>1, SavingFail DEF Sync
  <2>2. CASE ~ Fail(p)
    <3>1. /\ at[p] = "sync" /\ synced' = [synced EXCEPT ![p] = filled[p]]
          /\ at' = [at EXCEPT ![p] = "persist"]
          /\ UNCHANGED <<named, renames, temporaries, filled, permissions>>
      BY <1>4, <2>2 DEF Sync
    <3>2. filled[p] = Pieces /\ Pieces \in 0..Pieces
      BY <3>1 DEF Distinct, SavingInv, OnDisk
    <3>3. Typed'
      BY <3>1, <3>2 DEF SavingInv, Typed, Steps
    <3>4. OnDisk'
      BY <3>1, <3>2 DEF Distinct, SavingInv, Typed, OnDisk
    <3>5. Permitted'
      BY <3>1 DEF SavingInv, Typed, Permitted, Permissions
    <3>6. Ended'
      BY <3>1 DEF SavingInv, Typed, Ended
    <3> QED BY <3>3, <3>4, <3>5, <3>6 DEF SavingInv
  <2> QED BY <2>1, <2>2
<1>5. CASE Persist(p)
  <2>1. CASE Fail(p)
    BY <1>5, <2>1, SavingFail DEF Persist
  <2>2. CASE ~ Fail(p)
    <3>1. /\ at[p] = "persist" /\ named' = p /\ renames' = renames \cup {p}
          /\ temporaries' = temporaries \ {p} /\ at' = [at EXCEPT ![p] = "saved"]
          /\ UNCHANGED <<filled, synced, permissions>>
      BY <1>5, <2>2 DEF Persist
    <3>2. Typed'
      BY <3>1 DEF SavingInv, Typed, Steps
    <3>3. OnDisk'
      BY <3>1 DEF SavingInv, Typed, OnDisk
    <3>4. p # NoFile /\ permissions[p] = Permissions(named)
      BY <3>1 DEF Distinct, SavingInv, Permitted
    <3>5. Permitted'
      <4>1. \A f \in renames' : Permissions(f)' = permissions[p]
        BY <3>1, <3>4 DEF SavingInv, Permitted, Permissions
      <4>2. Permissions(named)' = permissions[p]
        BY <3>1, <3>4 DEF Permissions
      <4>3. \A q \in Savers : at'[q] \in {"write", "sync", "persist"} => permissions'[q] = permissions[p]
        BY <3>1, <3>4 DEF SavingInv, Typed, Permitted
      <4> QED BY <4>1, <4>2, <4>3 DEF Permitted
    <3>6. Ended'
      BY <3>1 DEF SavingInv, Typed, Ended
    <3> QED BY <3>2, <3>3, <3>5, <3>6 DEF SavingInv
  <2> QED BY <2>1, <2>2
<1>6. CASE Kill(p)
  <2>1. Typed'
    BY <1>6 DEF SavingInv, Typed, Kill, Steps
  <2>2. OnDisk'
    BY <1>6 DEF SavingInv, Typed, OnDisk, Kill
  <2>3. Permitted'
    BY <1>6 DEF SavingInv, Typed, Permitted, Permissions, Kill
  <2>4. Ended'
    BY <1>6 DEF SavingInv, Typed, Ended, Kill
  <2> QED BY <2>1, <2>2, <2>3, <2>4 DEF SavingInv
<1> QED BY <1>1, <1>2, <1>3, <1>4, <1>5, <1>6 DEF Step

LEMMA SavingPowerLoss ==
  ASSUME Distinct, SavingInv, PowerLoss
  PROVE  SavingInv'
<1>1. PICK kept \in [Files -> 0..Pieces] :
        /\ \A f \in Files : kept[f] \in synced[f]..filled[f]
        /\ filled' = kept /\ synced' = kept
  BY DEF PowerLoss
<1>2. /\ at' = [p \in Savers |-> IF at[p] \in {"permit", "write", "sync", "persist"}
                                   THEN "killed" ELSE at[p]]
      /\ named' \in renames /\ renames' = {named'}
      /\ UNCHANGED <<temporaries, permissions>>
  BY DEF PowerLoss
<1>3. Typed'
  BY <1>1, <1>2 DEF SavingInv, Typed, Steps
<1>4. \A f \in Files : /\ synced[f] = Pieces => kept[f] = Pieces
                       /\ filled[f] = 0 => kept[f] = 0
  BY <1>1 DEF Distinct, SavingInv, Typed
<1>5. OnDisk'
  BY <1>1, <1>2, <1>4 DEF Distinct, SavingInv, Typed, OnDisk, Files
<1>6. Permitted'
  BY <1>2 DEF SavingInv, Typed, Permitted
<1>7. Ended'
  BY <1>2 DEF SavingInv, Typed, Ended
<1> QED BY <1>3, <1>5, <1>6, <1>7 DEF SavingInv

\* Whatever fails, dies or stops during a save to a named file, and however many
\* save to it at once, the destination names a whole history with the permissions
\* it had, a failed save has not touched it, and only killed ones leave a
\* temporary file: the promise of save_path in history/persistence.rs.
THEOREM DestinationIsWhole ==
  ASSUME Distinct
  PROVE  SavingSpec => []SavesAreWhole
<1>1. SavingInit => SavingInv
  BY SavingStarts
<1>2. SavingInv /\ [SavingNext]_saving => SavingInv'
  <2> SUFFICES ASSUME SavingInv, [SavingNext]_saving PROVE SavingInv'
    OBVIOUS
  <2>1. CASE UNCHANGED saving
    BY <2>1 DEF saving, SavingInv, Typed, OnDisk, Permitted, Ended, Permissions
  <2>2. CASE SavingNext
    BY <2>2, SavingStep, SavingPowerLoss DEF SavingNext
  <2> QED BY <2>1, <2>2
<1>3. SavingInv => SavesAreWhole
  <2> SUFFICES ASSUME SavingInv PROVE SavesAreWhole
    OBVIOUS
  <2>1. named # NoFile => filled[named] = Pieces
    <3> SUFFICES ASSUME named # NoFile PROVE filled[named] = Pieces
      OBVIOUS
    <3>1. named \in Files /\ synced[named] = Pieces
      BY DEF SavingInv, Typed, OnDisk
    <3>2. filled[named] \in 0..Pieces /\ synced[named] \leq filled[named]
      BY <3>1 DEF SavingInv, Typed, OnDisk
    <3> QED BY <3>1, <3>2 DEF Distinct
  <2> QED BY <2>1 DEF SavesAreWhole, SavingInv, Permitted, Ended
<1> QED BY <1>1, <1>2, <1>3, PTL DEF SavingSpec
=============================================================================
