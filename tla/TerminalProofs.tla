--------------------------- MODULE TerminalProofs ---------------------------
(***************************************************************************)
(* Proofs about HostRead, for any set of interrupting signals, any number  *)
(* of deliveries and of failures: what the caller's dispositions see, and  *)
(* what a read that waits for input has behind it.  And about Renderer,    *)
(* for any size of the screen, glyphs, prompts, profiles and echoes: that  *)
(* the rows above the line are not written to.                             *)
(***************************************************************************)
EXTENDS HostRead, Renderer, SequenceTheorems, WellFoundedInduction, TLAPS

-----------------------------------------------------------------------------
(* The parts of the inductive invariant.                                    *)

Working == {"mode", "tell", "rearm", "told"}

(* A delivery that is worked off is a signal; what comes behind a result or *)
(* in finish is worked off directly.                                        *)
DeliveryOk ==
  /\ slot \in Signals \cup {NoSignal}
  /\ pc \in Working \cup {"wake"} => signal \in Signals
  /\ back \in {"rest", "look", "source", "prompt", "settle", "restore"}
  /\ back \in {"settle", "restore"} => by = "direct"

(* Where a signal is handed on, the terminal is in the mode it asks for.    *)
ModeOk ==
  /\ pc = "tell" /\ signal \in Stopping => mode = "cooked"
  /\ pc \in {"tell", "rearm", "told"} /\ signal = Continue => mode = "editing"

(* Where a reader may stand while the caller knows of a Suspend and of no   *)
(* Continue: on its way to the Continue, giving up, or past its result.     *)
SuspendOwed ==
  told = Suspend =>
    \/ pc \in {"rest", "wake", "abandon", "interrupted", "finish", "restore"}
    \/ pc \in Working /\ back = "restore"
    \/ pc = "rearm" /\ signal = Suspend
    \/ pc = "tell" /\ signal = Continue

(* Where the driver and el_wgetc may stand with the terminal cooked although *)
(* no interrupting signal was handed on: the same, or el_wgetc may have been *)
(* given a pushed-back unit before it took the terminal.                     *)
CookedWithCause ==
  kind \in {"edited", "getc"} /\ mode = "cooked" /\ told \notin Interrupts =>
    \/ pc \in {"rest", "wake", "abandon", "interrupted", "finish", "restore"}
    \/ pc \in Working /\ back = "restore"
    \/ /\ kind = "getc" /\ result = "pushed"
       /\ pc \in {"behind", "settle"} \/ (pc \in Working /\ back = "settle")
    \/ pc = "tell" /\ signal \in Stopping
    \/ pc = "rearm" /\ signal = Suspend

HostInv == /\ DeliveryOk /\ ModeOk /\ SuspendOwed /\ CookedWithCause
           /\ CallerSeesCooked

LEMMA HostInit == Init => HostInv
  BY HostReadAssumption DEF Init, HostInv, DeliveryOk, ModeOk, SuspendOwed, CookedWithCause,
     CallerSeesCooked, Stopping, Signals, Working

-----------------------------------------------------------------------------

LEMMA HostStep == HostInv /\ [Next]_vars => HostInv'
<1> SUFFICES ASSUME HostInv, [Next]_vars PROVE HostInv'
  OBVIOUS
<1> USE HostReadAssumption DEF HostInv, DeliveryOk, ModeOk, SuspendOwed, CookedWithCause,
      CallerSeesCooked, Stopping, Signals, Working,
      handle, scope, work, history, bounds, Goto, Return, Disarm, Arm, Take, Abandoned
<1>1. CASE StartEdited
  BY <1>1 DEF StartEdited
<1>2. CASE StartFails
  BY <1>2 DEF StartFails
<1>3. CASE StartUnedited
  BY <1>3 DEF StartUnedited
<1>4. CASE StartGetc
  BY <1>4 DEF StartGetc
<1>5. CASE Prepare
  BY <1>5 DEF Prepare, FailDriver
<1>6. CASE Display
  BY <1>6 DEF Display, FailDriver
<1>7. CASE Look
  BY <1>7 DEF Look
<1>8. CASE Yields \/ Broken \/ ReadFails
  BY <1>8 DEF Yields, Broken, ReadFails
<1>9. CASE TimesOut
  BY <1>9 DEF TimesOut
<1>10. CASE Behind
  BY <1>10 DEF Behind
<1>11. CASE Failed
  BY <1>11 DEF Failed, GiveUp, FailDriver
<1>12. CASE Settle
  BY <1>12 DEF Settle, Complete, GiveUp, FailDriver
<1>13. CASE CommandReturns
  BY <1>13 DEF CommandReturns, Complete
<1>14. CASE Restore
  BY <1>14 DEF Restore
<1>15. CASE SetMode
  BY <1>15 DEF SetMode, Complete, ModeFor
<1>16. CASE Tell
  BY <1>16 DEF Tell
<1>17. CASE TellFails
  BY <1>17 DEF TellFails
<1>18. CASE Rearm
  BY <1>18 DEF Rearm
<1>19. CASE Wake
  BY <1>19 DEF Wake, FollowUp
<1>20. CASE Told
  BY <1>20 DEF Told, Complete, GiveUp, FailDriver
<1>21. CASE Abandon
  BY <1>21 DEF Abandon, Complete, GiveUp, FailDriver
<1>22. CASE SetHandleSignals
  BY <1>22 DEF SetHandleSignals
<1>23. CASE SetUnbuffered
  BY <1>23 DEF SetUnbuffered
<1>24. CASE \E s \in Signals : Deliver(s)
  BY <1>24 DEF Deliver
<1>25. CASE UNCHANGED vars
  BY <1>25 DEF vars
<1> QED
  BY <1>1, <1>2, <1>3, <1>4, <1>5, <1>6, <1>7, <1>8, <1>9, <1>10, <1>11, <1>12, <1>13,
     <1>14, <1>15, <1>16, <1>17, <1>18, <1>19, <1>20, <1>21, <1>22, <1>23, <1>24, <1>25
  DEF Next, Step

LEMMA HostInvariant == Spec => []HostInv
<1> QED
  BY HostInit, HostStep, PTL DEF Spec

-----------------------------------------------------------------------------

(* The caller's disposition of a signal that ends or stops the process runs *)
(* with the terminal cooked (resume_direct, ReadDriver::handle_signal).     *)
THEOREM StopsSeenCooked == Spec => []CallerSeesCooked
<1>1. HostInv => CallerSeesCooked
  BY DEF HostInv
<1> QED
  BY <1>1, HostInvariant, PTL

(* No reader waits for input again with a Suspend handed on and its         *)
(* Continue not (propagate_platform, Wake).                                 *)
THEOREM SuspendIsFollowed == Spec => []ContinueFollowsSuspend
<1>1. HostInv => ContinueFollowsSuspend
  BY DEF HostInv, SuspendOwed, ContinueFollowsSuspend, Working
<1> QED
  BY <1>1, HostInvariant, PTL

(* The driver and el_wgetc read with the terminal in editing mode, except   *)
(* behind an interrupting signal worked off beside a result.                *)
THEOREM ReadsInEditingMode == Spec => []EditsWhileReading
<1>1. HostInv => EditsWhileReading
  BY DEF HostInv, CookedWithCause, EditsWhileReading, Working
<1> QED
  BY <1>1, HostInvariant, PTL

-----------------------------------------------------------------------------
(* Renderer: where the terminal's cursor is: the row, counted from the first that is   *)
(* not the host's, the one it is saved on, and the last of the screen.       *)

Marks == Atoms \cup {"tail", "x", "h"}
RowValues == [0 .. (Columns - 1) -> Marks \X Literals]
Places == (0 .. (Rows - 1)) \X (0 .. (Columns - 1))
Terminals ==
  [screen : [0 .. (Rows - 1) -> RowValues], above : Seq(RowValues), at : Places,
   held : BOOLEAN, attribute : Literals, saved : [at : Places, attribute : Literals]]

RowOf(t, h) == Len(t.above) + t.at[1] - Len(h)
SavedRow(t, h) == Len(t.above) + t.saved.at[1] - Len(h)
Bottom(t, h) == Len(t.above) + Rows - 1 - Len(h)

\* The terminals that show the host's rows as they were.
Standing(h) == {t \in Terminals : IsPrefix(h, AllRows(t))}

\* Those on which a region of e rows with an origin can be reached.
Clear(h, o, e, k) ==
  {t \in Standing(h) :
     /\ Bottom(t, h) >= e - 1
     /\ IF o = "Saved" THEN SavedRow(t, h) >= 0 /\ t.saved.at[1] <= k ELSE RowOf(t, h) >= 0}

\* Those of them with the cursor at row a of the region or below.
Good(h, o, e, k, a) == {t \in Clear(h, o, e, k) : RowOf(t, h) >= a}

FrameRows == [atoms : Seq(Atoms), literals : Seq(Atoms)]
Extent == Larger(region.extent, 1)

Origins == {"Unanchored", "Inline", "Saved", "Lost"}

RegionOk ==
  /\ region \in [origin : Origins, extent : Nat]
  /\ region.origin = "Unanchored" => region.extent = 0
  /\ region.origin = "Inline" => region.extent = 1
  /\ region.origin = "Saved" => region.extent >= 2
  /\ region.origin = "Lost" => Addressed /\ ~shown

InputOk == prompt \in Prompts /\ line \in Seq(Glyphs) /\ cursor \in 0 .. Len(line)

CommittedOk ==
  /\ rows \in Seq(FrameRows) /\ at \in Nat \X Nat
  /\ Len(rows) <= Extent /\ at[1] < Extent
  /\ shown \in BOOLEAN /\ damaged \in BOOLEAN /\ redraw \in BOOLEAN

PlaceOk ==
  region.origin # "Lost" =>
    /\ term \in Clear(host, region.origin, Extent, Rows - Extent)
    /\ shown \/ ~damaged => RowOf(term, host) >= 0
    /\ ~damaged => RowOf(term, host) >= at[1]

RenderInv ==
  /\ host \in Seq(RowValues) /\ term \in Standing(host)
  /\ RegionOk /\ InputOk /\ CommittedOk /\ PlaceOk

-----------------------------------------------------------------------------
(* What one operation of the terminal does to the rows.                      *)

LEMMA PrefixAt ==
  ASSUME NEW S, NEW s \in Seq(S), NEW t \in Seq(S)
  PROVE  IsPrefix(s, t) <=> Len(s) <= Len(t) /\ \A i \in 1 .. Len(s) : s[i] = t[i]
<1>1. CASE Len(s) <= Len(t)
  <2>1. SubSeq(s, 1, Len(s)) = s
    OBVIOUS
  <2>2. /\ SubSeq(t, 1, Len(s)) \in Seq(S) /\ Len(SubSeq(t, 1, Len(s))) = Len(s)
        /\ \A i \in 1 .. Len(s) : SubSeq(t, 1, Len(s))[i] = t[i]
    BY <1>1
  <2>3. s = SubSeq(t, 1, Len(s)) <=> \A i \in 1 .. Len(s) : s[i] = SubSeq(t, 1, Len(s))[i]
    BY <2>2, SeqEqual
  <2> QED
    BY <1>1, <2>1, <2>2, <2>3 DEF IsPrefix
<1>2. CASE ~(Len(s) <= Len(t))
  BY <1>2 DEF IsPrefix
<1> QED
  BY <1>1, <1>2

LEMMA AllRowsAt ==
  ASSUME NEW t \in Terminals
  PROVE  /\ AllRows(t) \in Seq(RowValues) /\ Len(AllRows(t)) = Len(t.above) + Rows
         /\ \A i \in 1 .. Len(t.above) : AllRows(t)[i] = t.above[i]
         /\ \A i \in (Len(t.above) + 1) .. (Len(t.above) + Rows) :
              AllRows(t)[i] = t.screen[i - Len(t.above) - 1]
<1> DEFINE below == [r \in 1 .. Rows |-> t.screen[r - 1]]
<1>1. t.above \in Seq(RowValues) /\ t.screen \in [0 .. (Rows - 1) -> RowValues] /\ Rows \in Nat
  BY SizeAssumption DEF Terminals
<1>2. below \in Seq(RowValues) /\ Len(below) = Rows
  <2>1. \A r \in 1 .. Rows : t.screen[r - 1] \in RowValues
    BY <1>1
  <2> QED
    BY <1>1, <2>1
<1>3. \A r \in 1 .. Rows : below[r] = t.screen[r - 1]
  OBVIOUS
<1> HIDE DEF below
<1>4. AllRows(t) = t.above \o below
  BY DEF AllRows, below
<1> DEFINE a == t.above
<1>5. /\ Len(a \o below) = Len(a) + Len(below)
      /\ \A i \in 1 .. (Len(a) + Len(below)) :
           (a \o below)[i] = IF i <= Len(a) THEN a[i] ELSE below[i - Len(a)]
  BY <1>1, <1>2, ConcatProperties
<1>6. ASSUME NEW i \in (Len(a) + 1) .. (Len(a) + Rows) PROVE (a \o below)[i] = t.screen[i - Len(a) - 1]
  <2>1. i - Len(a) \in 1 .. Rows
    BY <1>1
  <2> QED
    BY <1>1, <1>2, <1>3, <1>5, <2>1
<1>7. a \o below \in Seq(RowValues)
  BY <1>1, <1>2
<1> QED
  BY <1>1, <1>2, <1>4, <1>5, <1>6, <1>7

\* Rows below the host's may change.
LEMMA KeptBelow ==
  ASSUME NEW h \in Seq(RowValues), NEW t \in Standing(h), NEW u \in Terminals,
         u.above = t.above,
         \A r \in 0 .. (Rows - 1) : Len(t.above) + r - Len(h) < 0 => u.screen[r] = t.screen[r]
  PROVE  u \in Standing(h)
<1>1. t \in Terminals /\ t.above \in Seq(RowValues) /\ Rows \in Nat
  BY SizeAssumption DEF Standing, Terminals
<1>2. Len(h) <= Len(t.above) + Rows /\ \A i \in 1 .. Len(h) : h[i] = AllRows(t)[i]
  BY <1>1, AllRowsAt, PrefixAt DEF Standing
<1>3. ASSUME NEW i \in 1 .. Len(h) PROVE AllRows(u)[i] = AllRows(t)[i]
  <2>1. CASE i <= Len(t.above)
    BY <1>1, <2>1, AllRowsAt
  <2>2. CASE i > Len(t.above)
    <3>1. /\ i \in (Len(t.above) + 1) .. (Len(t.above) + Rows)
          /\ i - Len(t.above) - 1 \in 0 .. (Rows - 1)
          /\ Len(t.above) + (i - Len(t.above) - 1) - Len(h) < 0
      BY <1>1, <1>2, <2>2
    <3>2. u.screen[i - Len(t.above) - 1] = t.screen[i - Len(t.above) - 1]
      BY <3>1
    <3> QED
      BY <1>1, <3>1, <3>2, AllRowsAt
  <2> QED
    BY <1>1, <2>1, <2>2
<1>4. IsPrefix(h, AllRows(u))
  BY <1>1, <1>2, <1>3, AllRowsAt, PrefixAt
<1> QED
  BY <1>4 DEF Standing

\* A row may scroll off.
LEMMA KeptScrolled ==
  ASSUME NEW h \in Seq(RowValues), NEW t \in Standing(h), NEW u \in Terminals,
         u.above = Append(t.above, t.screen[0]),
         \A r \in 0 .. (Rows - 2) : u.screen[r] = t.screen[r + 1]
  PROVE  u \in Standing(h)
<1>1. t \in Terminals /\ t.above \in Seq(RowValues) /\ Rows \in Nat \ {0}
      /\ t.screen[0] \in RowValues
  BY SizeAssumption DEF Standing, Terminals
<1>2. Len(h) <= Len(t.above) + Rows /\ \A i \in 1 .. Len(h) : h[i] = AllRows(t)[i]
  BY <1>1, AllRowsAt, PrefixAt DEF Standing
<1>3. Len(u.above) = Len(t.above) + 1 /\ \A i \in 1 .. Len(t.above) : u.above[i] = t.above[i]
  BY <1>1
<1>4. u.above[Len(t.above) + 1] = t.screen[0]
  BY <1>1
<1>5. ASSUME NEW i \in 1 .. Len(h) PROVE AllRows(u)[i] = AllRows(t)[i]
  <2>1. CASE i <= Len(t.above)
    BY <1>1, <1>3, <2>1, AllRowsAt
  <2>2. CASE i = Len(t.above) + 1
    <3>1. AllRows(u)[i] = u.above[i]
      <4>1. i \in 1 .. Len(u.above)
        BY <1>3, <2>2
      <4> QED
        BY <4>1, AllRowsAt
    <3>2. AllRows(t)[i] = t.screen[i - Len(t.above) - 1] /\ i - Len(t.above) - 1 = 0
      <4>1. i \in (Len(t.above) + 1) .. (Len(t.above) + Rows)
        BY <1>1, <2>2
      <4> QED
        BY <1>1, <2>2, <4>1, AllRowsAt
    <3> QED
      BY <1>4, <2>2, <3>1, <3>2
  <2>3. CASE i > Len(t.above) + 1
    <3>1. /\ i \in (Len(t.above) + 1) .. (Len(t.above) + Rows)
          /\ i \in (Len(u.above) + 1) .. (Len(u.above) + Rows)
          /\ i - Len(u.above) - 1 \in 0 .. (Rows - 2)
          /\ i - Len(u.above) - 1 + 1 = i - Len(t.above) - 1
      BY <1>1, <1>2, <1>3, <2>3
    <3> QED
      BY <1>1, <3>1, AllRowsAt
  <2> QED
    BY <1>1, <2>1, <2>2, <2>3
<1>6. IsPrefix(h, AllRows(u))
  BY <1>1, <1>2, <1>3, <1>5, AllRowsAt, PrefixAt
<1> QED
  BY <1>6 DEF Standing

LEMMA BlankRowIsRow == BlankRow \in RowValues /\ Blank \in Marks \X Literals
  BY DEF BlankRow, Blank, RowValues, Marks, Atoms, Padding, Literals

LEMMA Relocates ==
  ASSUME NEW h \in Seq(RowValues), NEW t \in Standing(h),
         NEW r \in 0 .. (Rows - 1), NEW c \in 0 .. (Columns - 1)
  PROVE  /\ At(t, r, c) \in Standing(h) /\ At(t, r, c).at = <<r, c>>
         /\ At(t, r, c).above = t.above /\ At(t, r, c).saved = t.saved
         /\ At(t, r, c).screen = t.screen
<1>1. t \in Terminals
  BY DEF Standing
<1>2. At(t, r, c) \in Terminals
  BY <1>1 DEF At, Terminals, Places
<1> QED
  BY <1>1, <1>2, KeptBelow DEF At, Terminals

\* What a line feed from the cursor's place makes of a terminal.
Fed(t, u) ==
  /\ u.saved = t.saved /\ Len(u.above) >= Len(t.above) /\ u.at[1] <= Rows - 1
  /\ Len(u.above) + u.at[1] = Len(t.above) + t.at[1] + 1

LEMMA LineFeeds ==
  ASSUME NEW h \in Seq(RowValues), NEW t \in Standing(h)
  PROVE  LineFeed(t) \in Standing(h) /\ Fed(t, LineFeed(t))
<1>1. /\ t \in Terminals /\ t.at \in Places /\ t.above \in Seq(RowValues)
      /\ t.at[1] \in 0 .. (Rows - 1) /\ t.at[2] \in 0 .. (Columns - 1)
      /\ Rows \in Nat \ {0} /\ Columns \in Nat
  BY SizeAssumption DEF Standing, Terminals, Places
<1>2. CASE t.at[1] < Rows - 1
  <2>1. LineFeed(t) = At(t, t.at[1] + 1, t.at[2])
    BY <1>2 DEF LineFeed
  <2>2. t.at[1] + 1 \in 0 .. (Rows - 1)
    BY <1>1, <1>2
  <2> DEFINE r == t.at[1] + 1
             c == t.at[2]
             u == LineFeed(t)
  <2>9. u = At(t, r, c) /\ r \in 0 .. (Rows - 1) /\ c \in 0 .. (Columns - 1)
    BY <1>1, <2>1, <2>2
  <2> HIDE DEF u, r, c
  <2>3. u \in Standing(h) /\ u.at = <<r, c>> /\ u.above = t.above /\ u.saved = t.saved
    BY <2>9, Relocates
  <2>4. Len(t.above) \in Nat /\ u.at[1] = t.at[1] + 1
    BY <1>1, <2>3 DEF r
  <2> QED
    BY <1>1, <1>2, <2>3, <2>4 DEF Fed, u
<1>3. CASE ~(t.at[1] < Rows - 1)
  <2> DEFINE u == LineFeed(t)
             screen == [r \in 0 .. (Rows - 1) |-> IF r = Rows - 1 THEN BlankRow
                                                  ELSE t.screen[r + 1]]
  <2>1. screen \in [0 .. (Rows - 1) -> RowValues]
    <3>1. \A r \in 0 .. (Rows - 1) : r # Rows - 1 => t.screen[r + 1] \in RowValues
      BY <1>1 DEF Terminals
    <3> QED
      BY <3>1, BlankRowIsRow
  <2>2. Append(t.above, t.screen[0]) \in Seq(RowValues)
    BY <1>1 DEF Terminals
  <2>3. /\ u.above = Append(t.above, t.screen[0]) /\ u.screen = screen /\ u.saved = t.saved
        /\ u.at = t.at /\ u \in Terminals
    BY <1>1, <1>3, <2>1, <2>2 DEF LineFeed, Terminals
  <2>4. \A r \in 0 .. (Rows - 2) : screen[r] = t.screen[r + 1]
    BY <1>1
  <2> HIDE DEF u, screen
  <2>5. u \in Standing(h)
    BY <2>3, <2>4, KeptScrolled
  <2>6. Len(u.above) = Len(t.above) + 1
    BY <1>1, <2>3 DEF Terminals
  <2>7. t.at[1] = Rows - 1 /\ u.at[1] = t.at[1] /\ Len(t.above) \in Nat
    BY <1>1, <1>3, <2>3
  <2>8. Fed(t, u)
    BY <1>1, <2>3, <2>6, <2>7 DEF Fed
  <2> QED
    BY <2>5, <2>8 DEF u
<1> QED
  BY <1>2, <1>3

LEMMA NewLines ==
  ASSUME NEW h \in Seq(RowValues), NEW t \in Standing(h)
  PROVE  NewLine(t) \in Standing(h) /\ Fed(t, NewLine(t))
<1>1. t \in Terminals /\ t.at[1] \in 0 .. (Rows - 1) /\ 0 \in 0 .. (Columns - 1)
  BY SizeAssumption DEF Standing, Terminals, Places
<1> DEFINE v == At(t, t.at[1], 0)
<1>2. v \in Standing(h) /\ v.at[1] = t.at[1] /\ v.above = t.above /\ v.saved = t.saved
  BY <1>1, Relocates
<1> HIDE DEF v
<1> QED
  BY <1>2, LineFeeds DEF NewLine, v, Fed

\* What an operation that stays on its row, or wraps onto the next, makes of a terminal.
Level(t, u) ==
  /\ u.saved = t.saved /\ Len(u.above) >= Len(t.above)
  /\ Len(u.above) + u.at[1] >= Len(t.above) + t.at[1]

LEMMA Puts ==
  ASSUME NEW h \in Seq(RowValues), NEW t \in Standing(h), RowOf(t, h) >= 0,
         NEW g \in Atoms \cup {"x"}
  PROVE  Put(t, g) \in Standing(h) /\ Level(t, Put(t, g))
<1> DEFINE w == Width(g)
           here == IF t.held \/ t.at[2] + w > Columns THEN NewLine(t) ELSE t
           row == here.at[1]
           column == here.at[2]
           attribute == IF g = "blank" THEN "off" ELSE t.attribute
           cells == [c \in 0 .. (Columns - 1) |->
                       IF c = column THEN <<g, attribute>>
                       ELSE IF c > column /\ c < column + w THEN <<"tail", attribute>>
                       ELSE here.screen[row][c]]
           next == IF column + w < Columns THEN column + w ELSE Columns - 1
           held == column + w >= Columns
           u == [here EXCEPT !.screen[row] = cells, !.at = <<row, next>>, !.held = held]
<1>1. Put(t, g) = u
  BY Zenon DEF Put
<1>2. /\ t \in Terminals /\ t.at[1] \in 0 .. (Rows - 1) /\ t.attribute \in Literals
      /\ Len(t.above) \in Nat /\ Rows \in Nat /\ Columns \in Nat \ {0} /\ Len(h) \in Nat
  BY SizeAssumption DEF Standing, Terminals, Places
<1>3. w \in 0 .. 2
  BY DEF Width
<1>4. here = t \/ here = NewLine(t)
  OBVIOUS
<1> HIDE DEF here, w
<1>5. here \in Standing(h) /\ Level(t, here) /\ RowOf(here, h) >= 0
  <2>1. CASE here = t
    BY <1>2, <2>1 DEF Level
  <2>2. CASE here = NewLine(t)
    <3>1. NewLine(t) \in Standing(h) /\ Fed(t, NewLine(t))
      BY NewLines
    <3>2. NewLine(t) \in Terminals
      BY <3>1 DEF Standing
    <3>3. Len(NewLine(t).above) \in Nat /\ NewLine(t).at[1] \in Nat
      BY <3>2 DEF Terminals, Places
    <3> DEFINE n == NewLine(t)
    <3> HIDE DEF n
    <3>4. /\ n \in Standing(h) /\ n.saved = t.saved /\ Len(n.above) >= Len(t.above)
          /\ Len(n.above) + n.at[1] = Len(t.above) + t.at[1] + 1
          /\ Len(n.above) \in Nat /\ n.at[1] \in Nat
      BY <3>1, <3>3 DEF n, Fed
    <3>5. Level(t, n)
      BY <1>2, <3>4 DEF Level
    <3>6. RowOf(n, h) >= 0
      <4> DEFINE p == n.at[1]
                 q == t.at[1]
                 a == Len(n.above)
                 b == Len(t.above)
                 c == Len(h)
      <4>1. RowOf(n, h) = a + p - c /\ RowOf(t, h) = b + q - c
        BY DEF RowOf
      <4>2. a + p = b + q + 1 /\ a \in Nat /\ p \in Nat /\ b \in Nat /\ q \in Nat /\ c \in Nat
        BY <1>2, <3>4
      <4> HIDE DEF a, b, c, p, q
      <4>3. RowOf(n, h) = RowOf(t, h) + 1 /\ RowOf(t, h) \in Int
        BY <4>1, <4>2
      <4> QED
        BY <4>3
    <3> QED
      BY <2>2, <3>4, <3>5, <3>6 DEF n
  <2> QED
    BY <1>4, <2>1, <2>2
<1>6. /\ here \in Terminals /\ row \in 0 .. (Rows - 1) /\ column \in 0 .. (Columns - 1)
      /\ here.screen \in [0 .. (Rows - 1) -> RowValues] /\ Len(here.above) \in Nat
  BY <1>5 DEF Standing, Terminals, Places
<1>7. next \in 0 .. (Columns - 1) /\ held \in BOOLEAN
  BY <1>2, <1>3, <1>6
<1>8. <<g, attribute>> \in Marks \X Literals /\ <<"tail", attribute>> \in Marks \X Literals
  BY <1>2 DEF Marks, Literals
<1>9. cells \in RowValues
  <2>1. \A c \in 0 .. (Columns - 1) : here.screen[row][c] \in Marks \X Literals
    BY <1>6 DEF RowValues
  <2> HIDE DEF attribute, column
  <2> QED
    BY <1>8, <2>1 DEF RowValues
<1> HIDE DEF cells, next, held, attribute
<1>10. /\ u \in Terminals /\ u.above = here.above /\ u.saved = here.saved /\ u.at = <<row, next>>
      /\ \A r \in 0 .. (Rows - 1) : r # row => u.screen[r] = here.screen[r]
  BY <1>6, <1>7, <1>9 DEF Terminals, Places
<1> HIDE DEF u
<1>11. u \in Standing(h)
  <2>1. \A r \in 0 .. (Rows - 1) : Len(here.above) + r - Len(h) < 0 => r # row
    BY <1>2, <1>5, <1>6 DEF RowOf
  <2> QED
    BY <1>5, <1>10, <2>1, KeptBelow
<1>12. Level(t, u)
  BY <1>5, <1>10 DEF Level
<1> QED
  BY <1>1, <1>11, <1>12

LevelOps == Atoms \cup {"cr", "left", "right", "clear"}

LEMMA DoesLevel ==
  ASSUME NEW h \in Seq(RowValues), NEW t \in Standing(h), RowOf(t, h) >= 0,
         NEW op \in LevelOps
  PROVE  Does(t, op) \in Standing(h) /\ Level(t, Does(t, op))
<1>1. /\ t \in Terminals /\ t.at[1] \in 0 .. (Rows - 1) /\ t.at[2] \in 0 .. (Columns - 1)
      /\ Len(t.above) \in Nat /\ Rows \in Nat /\ Columns \in Nat \ {0} /\ Len(h) \in Nat
      /\ t.screen \in [0 .. (Rows - 1) -> RowValues]
  BY SizeAssumption DEF Standing, Terminals, Places
<1>2. ASSUME NEW c \in 0 .. (Columns - 1), Does(t, op) = At(t, t.at[1], c)
      PROVE  Does(t, op) \in Standing(h) /\ Level(t, Does(t, op))
  <2>1. /\ At(t, t.at[1], c) \in Standing(h) /\ At(t, t.at[1], c).above = t.above
        /\ At(t, t.at[1], c).at = <<t.at[1], c>> /\ At(t, t.at[1], c).saved = t.saved
    BY <1>1, Relocates
  <2> QED
    BY <1>1, <1>2, <2>1 DEF Level
<1>3. CASE op = "cr"
  <2>1. Does(t, op) = At(t, t.at[1], 0) /\ 0 \in 0 .. (Columns - 1)
    BY <1>1, <1>3 DEF Does, Literals
  <2> QED
    BY <1>2, <2>1
<1>4. CASE op = "left"
  <2> DEFINE c == IF t.at[2] = 0 THEN 0 ELSE t.at[2] - 1
  <2>1. Does(t, op) = At(t, t.at[1], c) /\ c \in 0 .. (Columns - 1)
    BY <1>1, <1>4 DEF Does, Literals
  <2> QED
    BY <1>2, <2>1
<1>5. CASE op = "right"
  <2> DEFINE c == IF t.at[2] = Columns - 1 THEN t.at[2] ELSE t.at[2] + 1
  <2>1. Does(t, op) = At(t, t.at[1], c) /\ c \in 0 .. (Columns - 1)
    BY <1>1, <1>5 DEF Does, Literals
  <2> QED
    BY <1>2, <2>1
<1>6. CASE op = "clear"
  <2> DEFINE cells == [c \in 0 .. (Columns - 1) |->
                         IF c < t.at[2] THEN t.screen[t.at[1]][c] ELSE Blank]
             u == [t EXCEPT !.screen[t.at[1]] = cells]
  <2>1. Does(t, op) = u
    BY <1>1, <1>6 DEF Does, Literals
  <2>2. cells \in RowValues
    <3>1. \A c \in 0 .. (Columns - 1) : t.screen[t.at[1]][c] \in Marks \X Literals
      BY <1>1 DEF RowValues
    <3> QED
      BY <3>1, BlankRowIsRow DEF RowValues
  <2> HIDE DEF cells
  <2>3. /\ u \in Terminals /\ u.above = t.above /\ u.saved = t.saved /\ u.at = t.at
        /\ \A r \in 0 .. (Rows - 1) : r # t.at[1] => u.screen[r] = t.screen[r]
    BY <1>1, <2>2 DEF Terminals
  <2> HIDE DEF u
  <2>4. \A r \in 0 .. (Rows - 1) : Len(t.above) + r - Len(h) < 0 => r # t.at[1]
    BY <1>1 DEF RowOf
  <2>5. u \in Standing(h)
    BY <2>3, <2>4, KeptBelow
  <2> QED
    BY <1>1, <2>1, <2>3, <2>5 DEF Level
<1>7. CASE op \in Literals
  <2> DEFINE u == [t EXCEPT !.attribute = op]
  <2>1. Does(t, op) = u
    BY <1>7 DEF Does, Literals
  <2>2. /\ u \in Terminals /\ u.above = t.above /\ u.saved = t.saved /\ u.at = t.at
        /\ u.screen = t.screen
    BY <1>1, <1>7 DEF Terminals
  <2> HIDE DEF u
  <2>3. u \in Standing(h)
    BY <2>2, KeptBelow
  <2> QED
    BY <1>1, <2>1, <2>2, <2>3 DEF Level
<1>8. CASE op \in Atoms \ Literals
  <2>1. op \notin Controls
    BY <1>8, AtomsAssumption
  <2>2. Does(t, op) = Put(t, op)
    BY <1>8, <2>1 DEF Does, Controls
  <2> QED
    BY <1>8, <2>2, Puts
<1> QED
  BY <1>3, <1>4, <1>5, <1>6, <1>7, <1>8 DEF LevelOps

LEMMA DoesMoves ==
  ASSUME NEW h \in Seq(RowValues), NEW t \in Standing(h)
  PROVE  /\ \A op \in {"up", "down"} :
              /\ Does(t, op) \in Standing(h)
              /\ Does(t, op).above = t.above /\ Does(t, op).saved = t.saved
         /\ Does(t, "up").at[1] = IF t.at[1] = 0 THEN 0 ELSE t.at[1] - 1
         /\ Does(t, "down").at[1] = IF t.at[1] = Rows - 1 THEN t.at[1] ELSE t.at[1] + 1
<1>1. /\ t \in Terminals /\ t.at[1] \in 0 .. (Rows - 1) /\ t.at[2] \in 0 .. (Columns - 1)
      /\ Rows \in Nat
  BY SizeAssumption DEF Standing, Terminals, Places
<1> DEFINE r == IF t.at[1] = 0 THEN 0 ELSE t.at[1] - 1
           d == IF t.at[1] = Rows - 1 THEN t.at[1] ELSE t.at[1] + 1
           c == t.at[2]
<1>2. Does(t, "up") = At(t, r, c) /\ Does(t, "down") = At(t, d, c)
  BY DEF Does, Literals
<1>3. r \in 0 .. (Rows - 1) /\ d \in 0 .. (Rows - 1) /\ c \in 0 .. (Columns - 1)
  BY <1>1
<1> HIDE DEF r, d, c
<1>4. /\ At(t, r, c) \in Standing(h) /\ At(t, r, c).above = t.above
      /\ At(t, r, c).at = <<r, c>> /\ At(t, r, c).saved = t.saved
      /\ At(t, d, c) \in Standing(h) /\ At(t, d, c).above = t.above
      /\ At(t, d, c).at = <<d, c>> /\ At(t, d, c).saved = t.saved
  BY <1>3, Relocates
<1>5. Does(t, "up").at[1] = r /\ Does(t, "down").at[1] = d
  BY <1>2, <1>4
<1> QED
  BY <1>2, <1>4, <1>5 DEF r, d

LEMMA DoesSaves ==
  ASSUME NEW h \in Seq(RowValues), NEW t \in Standing(h)
  PROVE  /\ Does(t, "save") \in Standing(h) /\ Does(t, "save").at = t.at
         /\ Does(t, "save").above = t.above /\ Does(t, "save").saved.at = t.at
         /\ Does(t, "restore") \in Standing(h) /\ Does(t, "restore").above = t.above
         /\ Does(t, "restore").at[1] = t.saved.at[1] /\ Does(t, "restore").saved = t.saved
<1>1. t \in Terminals /\ t.saved \in [at : Places, attribute : Literals]
  BY DEF Standing, Terminals
<1> DEFINE u == [t EXCEPT !.saved = [at |-> t.at, attribute |-> t.attribute]]
<1>2. Does(t, "save") = u
  BY DEF Does, Literals
<1>3. /\ u \in Terminals /\ u.above = t.above /\ u.screen = t.screen /\ u.at = t.at
      /\ u.saved.at = t.at
  BY <1>1 DEF Terminals
<1> DEFINE r == t.saved.at[1]
           c == t.saved.at[2]
           v == At(t, r, c)
           x == [v EXCEPT !.attribute = t.saved.attribute]
<1>4. Does(t, "restore") = x
  BY DEF Does, Literals
<1>5. r \in 0 .. (Rows - 1) /\ c \in 0 .. (Columns - 1)
  BY <1>1 DEF Places
<1> HIDE DEF u, r, c
<1>6. v \in Standing(h) /\ v.above = t.above /\ v.at = <<r, c>> /\ v.saved = t.saved
      /\ v.screen = t.screen
  BY <1>5, Relocates
<1> HIDE DEF v
<1>7. /\ x \in Terminals /\ x.above = t.above /\ x.screen = t.screen /\ x.at = <<r, c>>
      /\ x.saved = t.saved
  BY <1>1, <1>6 DEF Terminals, Standing
<1> HIDE DEF x
<1>8. u \in Standing(h) /\ x \in Standing(h)
  BY <1>3, <1>7, KeptBelow
<1> QED
  BY <1>2, <1>3, <1>4, <1>7, <1>8 DEF r

-----------------------------------------------------------------------------
(* Functions that go along a sequence, one place after the other.            *)

LEMMA LeastOf ==
  ASSUME NEW T \in SUBSET Nat, T # {}
  PROVE  \E n \in T : \A m \in T : n <= m
<1> DEFINE Lt == {ss \in Nat \X Nat : ss[1] < ss[2]}
<1>1. IsWellFoundedOn(Lt, Nat)
  BY NatLessThanWellFounded DEF OpToRel
<1>2. PICK x \in T : \A y \in T : ~(<<y, x>> \in Lt)
  <2> HIDE DEF Lt
  <2> QED
    BY ONLY <1>1, T \in SUBSET Nat, T # {}, WFMin
<1>3. \A y \in T : x <= y
  <2> TAKE y \in T
  <2>1. x \in Nat /\ y \in Nat /\ ~(<<y, x>> \in Lt)
    BY <1>2
  <2> QED
    BY <2>1
<1> QED
  BY <1>3

LEMMA Climbs ==
  ASSUME NEW n \in Nat, NEW T \in SUBSET (0 .. n), 0 \in T,
         \A k \in 1 .. n : k - 1 \in T => k \in T
  PROVE  T = 0 .. n
<1> DEFINE U == {k \in 0 .. n : k \notin T}
<1> SUFFICES ASSUME U # {} PROVE FALSE
  OBVIOUS
<1>1. PICK u \in U : \A v \in U : u <= v
  <2>1. U \in SUBSET Nat
    OBVIOUS
  <2> QED
    BY <2>1, LeastOf
<1>2. u \in 1 .. n /\ u - 1 \in 0 .. n /\ u - 1 \notin U
  BY <1>1
<1> QED
  BY <1>1, <1>2

Goes(g, n, first, step) == g[0] = first /\ \A k \in 1 .. n : g[k] = step[<<k, g[k - 1]>>]

LEMMA GoesAlong ==
  ASSUME NEW n \in Nat, NEW S, NEW first \in S, NEW step \in [(1 .. n) \X S -> S]
  PROVE  \E g \in [0 .. n -> S] : Goes(g, n, first, step)
<1> DEFINE T == {m \in 0 .. n : \E g \in [0 .. n -> S] : Goes(g, m, first, step)}
<1>1. 0 \in T
  <2> DEFINE g == [k \in 0 .. n |-> first]
  <2>1. g \in [0 .. n -> S] /\ g[0] = first /\ 0 \in 0 .. n
    OBVIOUS
  <2> HIDE DEF g
  <2>2. Goes(g, 0, first, step)
    BY <2>1 DEF Goes
  <2> QED
    BY <2>1, <2>2
<1>2. ASSUME NEW m \in 1 .. n, m - 1 \in T PROVE m \in T
  <2>1. PICK g \in [0 .. n -> S] : Goes(g, m - 1, first, step)
    BY <1>2
  <2> DEFINE x == step[<<m, g[m - 1]>>]
             f == [k \in 0 .. n |-> IF k = m THEN x ELSE g[k]]
  <2>2. x \in S
    <3>1. m - 1 \in 0 .. n /\ g[m - 1] \in S
      BY <2>1
    <3> QED
      BY <3>1
  <2> HIDE DEF x
  <2>3. f \in [0 .. n -> S] /\ f[0] = first
    BY <2>1, <2>2 DEF Goes
  <2>4. ASSUME NEW k \in 1 .. m PROVE f[k] = step[<<k, f[k - 1]>>]
    <3>1. k \in 0 .. n /\ k - 1 \in 0 .. n /\ k - 1 # m /\ f[k - 1] = g[k - 1]
      OBVIOUS
    <3>2. CASE k = m
      BY <3>1, <3>2 DEF x
    <3>3. CASE k # m
      <4>1. k \in 1 .. (m - 1) /\ f[k] = g[k]
        BY <3>1, <3>3
      <4>2. g[k] = step[<<k, g[k - 1]>>]
        BY <2>1, <4>1 DEF Goes
      <4> QED
        BY <3>1, <4>1, <4>2
    <3> QED
      BY <3>2, <3>3
  <2> HIDE DEF f
  <2>5. Goes(f, m, first, step)
    BY <2>3, <2>4 DEF Goes
  <2> QED
    BY <2>3, <2>5
<1> HIDE DEF T
<1>3. T = 0 .. n
  <2>1. T \in SUBSET (0 .. n)
    BY DEF T
  <2> QED
    BY <1>1, <1>2, <2>1, Climbs
<1>4. n \in T
  BY <1>3
<1> QED
  BY <1>4 DEF T

-----------------------------------------------------------------------------
(* Sequences of operations.                                                  *)

Ops == Atoms \cup Controls

LEMMA PlaceTypes ==
  ASSUME NEW h \in Seq(RowValues), NEW t \in Standing(h)
  PROVE  /\ Len(t.above) \in Nat /\ Len(h) \in Nat /\ Rows \in Nat \ {0}
         /\ t.at[1] \in 0 .. (Rows - 1) /\ t.saved.at[1] \in 0 .. (Rows - 1)
         /\ RowOf(t, h) \in Int /\ SavedRow(t, h) \in Int /\ Bottom(t, h) \in Int
         /\ RowOf(t, h) <= Bottom(t, h)
<1> DEFINE a == Len(t.above)
           c == Len(h)
           p == t.at[1]
           q == t.saved.at[1]
<1>1. /\ a \in Nat /\ c \in Nat /\ Rows \in Nat \ {0}
      /\ p \in 0 .. (Rows - 1) /\ q \in 0 .. (Rows - 1)
  BY SizeAssumption DEF Standing, Terminals, Places
<1>2. RowOf(t, h) = a + p - c /\ SavedRow(t, h) = a + q - c /\ Bottom(t, h) = a + Rows - 1 - c
  BY DEF RowOf, SavedRow, Bottom
<1> HIDE DEF a, c, p, q
<1>3. /\ RowOf(t, h) \in Int /\ SavedRow(t, h) \in Int /\ Bottom(t, h) \in Int
      /\ RowOf(t, h) <= Bottom(t, h)
  BY <1>1, <1>2
<1> QED
  BY <1>1, <1>3 DEF a, c, p, q

LEMMA NothingKept == Standing(<<>>) = Terminals
<1>1. ASSUME NEW t \in Terminals PROVE IsPrefix(<<>>, AllRows(t))
  <2>1. <<>> \in Seq(RowValues) /\ Len(<<>>) = 0
    OBVIOUS
  <2> DEFINE s == AllRows(t)
  <2>2. s \in Seq(RowValues)
    BY AllRowsAt
  <2> HIDE DEF s
  <2>3. Len(s) >= 0 /\ SubSeq(s, 1, 0) = <<>> /\ SubSeq(<<>>, 1, 0) = <<>>
    BY <2>2
  <2> QED
    BY <2>1, <2>3 DEF IsPrefix, s
<1> QED
  BY <1>1 DEF Standing

LEMMA DoesTypes ==
  ASSUME NEW t \in Terminals, NEW op \in Ops
  PROVE  Does(t, op) \in Terminals
<1> DEFINE h == <<>>
<1>1. h \in Seq(RowValues) /\ t \in Standing(h) /\ Len(h) = 0
  BY NothingKept
<1> HIDE DEF h
<1>2. RowOf(t, h) >= 0
  <2>1. Len(t.above) \in Nat /\ t.at[1] \in Nat
    <3>1. Len(t.above) \in Nat /\ t.at[1] \in 0 .. (Rows - 1) /\ Rows \in Nat
      BY <1>1, PlaceTypes
    <3> QED
      BY <3>1
  <2> DEFINE a == Len(t.above)
             p == t.at[1]
  <2>2. RowOf(t, h) = a + p - 0
    BY <1>1 DEF RowOf
  <2>3. a \in Nat /\ p \in Nat
    BY <2>1
  <2> HIDE DEF a, p
  <2> QED
    BY <2>2, <2>3
<1>3. Does(t, op) \in Standing(h)
  <2>1. CASE op \in LevelOps
    BY <1>1, <1>2, <2>1, DoesLevel
  <2>2. CASE op \in {"up", "down"}
    BY <1>1, <2>2, DoesMoves
  <2>3. CASE op \in {"save", "restore"}
    BY <1>1, <2>3, DoesSaves
  <2>4. CASE op = "nl"
    <3>1. Does(t, "nl") = NewLine(t)
      BY DEF Does, Literals
    <3> QED
      BY <1>1, <2>4, <3>1, NewLines
  <2> QED
    BY <2>1, <2>2, <2>3, <2>4 DEF Ops, LevelOps, Controls
<1> QED
  BY <1>3 DEF Standing

LEMMA AfterRuns ==
  ASSUME NEW t \in Terminals, NEW ops \in Seq(Ops)
  PROVE  /\ After(t, ops) \in [0 .. Len(ops) -> Terminals]
         /\ After(t, ops)[0] = t
         /\ \A k \in 1 .. Len(ops) : After(t, ops)[k] = Does(After(t, ops)[k - 1], ops[k])
<1> DEFINE n == Len(ops)
           step == [p \in (1 .. n) \X Terminals |-> Does(p[2], ops[p[1]])]
           Eq(f) == f = [k \in 0 .. n |-> IF k = 0 THEN t ELSE Does(f[k - 1], ops[k])]
<1>1. n \in Nat /\ \A k \in 1 .. n : ops[k] \in Ops
  OBVIOUS
<1>2. step \in [(1 .. n) \X Terminals -> Terminals]
  BY <1>1, DoesTypes
<1> HIDE DEF n
<1>3. PICK g \in [0 .. n -> Terminals] : Goes(g, n, t, step)
  <2> HIDE DEF step
  <2> QED
    BY <1>1, <1>2, GoesAlong
<1>4. Eq(g)
  <2>1. \A k \in 1 .. n : g[k] = Does(g[k - 1], ops[k])
    <3> TAKE k \in 1 .. n
    <3>1. g[k] = step[<<k, g[k - 1]>>]
      BY <1>3 DEF Goes
    <3>2. k - 1 \in 0 .. n /\ g[k - 1] \in Terminals
      <4>1. k - 1 \in 0 .. n
        BY <1>1
      <4> QED
        BY <1>3, <4>1
    <3> QED
      BY <3>1, <3>2
  <2>2. g[0] = t
    BY <1>3 DEF Goes
  <2> DEFINE f == [k \in 0 .. n |-> IF k = 0 THEN t ELSE Does(g[k - 1], ops[k])]
  <2>3. \A k \in 0 .. n : g[k] = f[k]
    BY <2>1, <2>2
  <2>4. DOMAIN g = 0 .. n /\ g = [k \in 0 .. n |-> g[k]]
    BY <1>3
  <2>5. g = f
    BY <2>3, <2>4
  <2> QED
    BY <2>5
<1> DEFINE a == After(t, ops)
<1>5. a = CHOOSE f : Eq(f)
  BY Zenon DEF After, n
<1>6. Eq(a)
  <2> HIDE DEF Eq, a
  <2> QED
    BY <1>4, <1>5
<1>7. a[0] = t /\ \A k \in 1 .. n : a[k] = Does(a[k - 1], ops[k])
  <2> HIDE DEF a
  <2> QED
    BY <1>1, <1>6
<1> HIDE DEF a
<1> DEFINE T == {k \in 0 .. n : a[k] \in Terminals}
<1>8. \A k \in 1 .. n : k - 1 \in T => k \in T
  BY <1>1, <1>7, DoesTypes
<1> HIDE DEF Eq
<1>9. \A k \in 0 .. n : a[k] \in Terminals
  <2>1. T \in SUBSET (0 .. n) /\ 0 \in T
    BY <1>1, <1>7
  <2> HIDE DEF T
  <2>2. T = 0 .. n
    BY <1>1, <1>8, <2>1, Climbs
  <2> QED
    BY <2>2 DEF T
<1>10. a \in [0 .. n -> Terminals]
  <2>1. a = [k \in 0 .. n |-> a[k]]
    BY <1>6 DEF Eq
  <2> QED
    BY <1>9, <2>1
<1> QED
  BY <1>7, <1>10 DEF a, n

\* Operations that lead from the terminals of one set to those of another, by way of
\* those of a third.
Runs(ops, A, B, C) ==
  \A t \in A : /\ Shows(t, ops) \in B
               /\ \A n \in 0 .. Len(ops) : After(t, ops)[n] \in C

LEMMA RunsWithin ==
  ASSUME NEW ops, NEW A, NEW B, NEW C, Runs(ops, A, B, C),
         NEW A1 \in SUBSET A, NEW B1, B \subseteq B1, NEW C1, C \subseteq C1
  PROVE  Runs(ops, A1, B1, C1)
  BY DEF Runs

\* Each operation leads from one set to the next.
LEMMA RunsChained ==
  ASSUME NEW ops \in Seq(Ops), NEW C, NEW sets \in [0 .. Len(ops) -> SUBSET Terminals],
         \A k \in 0 .. Len(ops) : sets[k] \subseteq C,
         \A k \in 1 .. Len(ops) : \A t \in sets[k - 1] : Does(t, ops[k]) \in sets[k]
  PROVE  Runs(ops, sets[0], sets[Len(ops)], C)
<1> SUFFICES ASSUME NEW t \in sets[0]
             PROVE  /\ Shows(t, ops) \in sets[Len(ops)]
                    /\ \A n \in 0 .. Len(ops) : After(t, ops)[n] \in C
  BY DEF Runs
<1> DEFINE a == After(t, ops)
           T == {k \in 0 .. Len(ops) : a[k] \in sets[k]}
<1>1. Len(ops) \in Nat
  OBVIOUS
<1>2. t \in Terminals
  BY <1>1
<1>3. a[0] = t /\ \A k \in 1 .. Len(ops) : a[k] = Does(a[k - 1], ops[k])
  BY <1>2, AfterRuns
<1> HIDE DEF a
<1>4. T \in SUBSET (0 .. Len(ops)) /\ 0 \in T
  BY <1>1, <1>3
<1>5. \A k \in 1 .. Len(ops) : k - 1 \in T => k \in T
  BY <1>1, <1>3
<1> HIDE DEF T
<1>6. T = 0 .. Len(ops)
  BY <1>1, <1>4, <1>5, Climbs
<1>7. \A k \in 0 .. Len(ops) : a[k] \in sets[k]
  BY <1>6 DEF T
<1>8. a[Len(ops)] \in sets[Len(ops)] /\ \A n \in 0 .. Len(ops) : a[n] \in C
  BY <1>1, <1>7
<1> QED
  BY <1>8 DEF Shows, a

LEMMA RunsOne ==
  ASSUME NEW op \in Ops, NEW A \in SUBSET Terminals, NEW B \in SUBSET Terminals, NEW C,
         A \subseteq C, B \subseteq C, \A t \in A : Does(t, op) \in B
  PROVE  Runs(<<op>>, A, B, C)
<1> DEFINE sets == [k \in 0 .. 1 |-> IF k = 0 THEN A ELSE B]
           ops == <<op>>
<1>1. ops \in Seq(Ops) /\ Len(ops) = 1 /\ ops[1] = op
  OBVIOUS
<1>2. /\ sets \in [0 .. 1 -> SUBSET Terminals] /\ sets[0] = A /\ sets[1] = B
      /\ \A k \in 0 .. 1 : sets[k] \subseteq C
  OBVIOUS
<1> HIDE DEF sets, ops
<1>3. \A k \in 1 .. 1 : \A t \in sets[k - 1] : Does(t, ops[k]) \in sets[k]
  BY <1>1, <1>2
<1>4. Runs(ops, sets[0], sets[Len(ops)], C)
  BY <1>1, <1>2, <1>3, RunsChained
<1> QED
  BY <1>1, <1>2, <1>4 DEF ops

LEMMA RunsSame ==
  ASSUME NEW D \in SUBSET Ops, NEW ops \in Seq(D), NEW A \in SUBSET Terminals, NEW C,
         A \subseteq C, \A t \in A : \A op \in D : Does(t, op) \in A
  PROVE  Runs(ops, A, A, C)
<1> DEFINE sets == [k \in 0 .. Len(ops) |-> A]
<1>1. ops \in Seq(Ops) /\ Len(ops) \in Nat /\ \A k \in 1 .. Len(ops) : ops[k] \in D
  OBVIOUS
<1>2. /\ sets \in [0 .. Len(ops) -> SUBSET Terminals]
      /\ \A k \in 0 .. Len(ops) : sets[k] = A
  OBVIOUS
<1> HIDE DEF sets
<1>3. \A k \in 1 .. Len(ops) : \A t \in sets[k - 1] : Does(t, ops[k]) \in sets[k]
  BY <1>1, <1>2
<1>4. Runs(ops, sets[0], sets[Len(ops)], C)
  BY <1>1, <1>2, <1>3, RunsChained
<1> QED
  BY <1>1, <1>2, <1>4

LEMMA RunsNone ==
  ASSUME NEW A \in SUBSET Terminals, NEW B, NEW C, A \subseteq B, A \subseteq C
  PROVE  Runs(<<>>, A, B, C)
<1>1. Runs(<<>>, A, A, C)
  <2>1. {} \in SUBSET Ops /\ <<>> \in Seq({})
    OBVIOUS
  <2> QED
    BY <2>1, RunsSame
<1> QED
  BY <1>1, RunsWithin

\* What comes behind other operations does what it does on the terminal they leave.
LEMMA AfterConcat ==
  ASSUME NEW t \in Terminals, NEW o1 \in Seq(Ops), NEW o2 \in Seq(Ops)
  PROVE  /\ \A n \in 0 .. Len(o1) : After(t, o1 \o o2)[n] = After(t, o1)[n]
         /\ \A n \in 0 .. Len(o2) : After(t, o1 \o o2)[Len(o1) + n] = After(Shows(t, o1), o2)[n]
<1> DEFINE o == o1 \o o2
           m == Len(o1)
           n == Len(o2)
           a == After(t, o)
           a1 == After(t, o1)
           u == Shows(t, o1)
           a2 == After(u, o2)
           T1 == {k \in 0 .. m : a[k] = a1[k]}
           T2 == {k \in 0 .. n : a[m + k] = a2[k]}
<1>1. /\ m \in Nat /\ n \in Nat /\ o \in Seq(Ops) /\ Len(o) = m + n
      /\ \A k \in 1 .. m : o[k] = o1[k]
  BY ConcatProperties
<1>2. ASSUME NEW k \in 1 .. n PROVE o[m + k] = o2[k] /\ m + k \in 1 .. (m + n)
  <2>1. m + k \in 1 .. (m + n) /\ ~(m + k <= m) /\ m + k - m = k
    BY <1>1
  <2> QED
    BY <2>1, ConcatProperties
<1>3. /\ a[0] = t /\ \A k \in 1 .. (m + n) : a[k] = Does(a[k - 1], o[k])
      /\ a1[0] = t /\ \A k \in 1 .. m : a1[k] = Does(a1[k - 1], o1[k])
      /\ a1 \in [0 .. m -> Terminals]
  <2>1. /\ a1[0] = t /\ \A k \in 1 .. m : a1[k] = Does(a1[k - 1], o1[k])
        /\ a1 \in [0 .. m -> Terminals]
    BY AfterRuns
  <2> HIDE DEF o
  <2>2. a[0] = t /\ \A k \in 1 .. Len(o) : a[k] = Does(a[k - 1], o[k])
    BY <1>1, AfterRuns
  <2> QED
    BY <1>1, <2>1, <2>2
<1>4. u = a1[m] /\ u \in Terminals
  BY <1>1, <1>3 DEF Shows
<1> HIDE DEF u
<1>5. a2[0] = u /\ \A k \in 1 .. n : a2[k] = Does(a2[k - 1], o2[k])
  BY <1>4, AfterRuns
<1> HIDE DEF a, a1, a2, o, m, n
<1>6. T1 = 0 .. m
  <2>1. T1 \in SUBSET (0 .. m) /\ 0 \in T1
    BY <1>1, <1>3
  <2>2. \A k \in 1 .. m : k - 1 \in T1 => k \in T1
    BY <1>1, <1>3
  <2> HIDE DEF T1
  <2> QED
    BY <1>1, <2>1, <2>2, Climbs
<1>7. \A k \in 0 .. m : a[k] = a1[k]
  BY <1>6
<1>8. T2 = 0 .. n
  <2>1. T2 \in SUBSET (0 .. n) /\ 0 \in T2
    BY <1>1, <1>4, <1>5, <1>7
  <2>2. ASSUME NEW k \in 1 .. n, k - 1 \in T2 PROVE k \in T2
    <3>1. a[m + k] = Does(a[m + k - 1], o[m + k]) /\ m + k - 1 = m + (k - 1)
      BY <1>1, <1>2, <1>3
    <3>2. a[m + (k - 1)] = a2[k - 1] /\ a2[k] = Does(a2[k - 1], o2[k]) /\ k \in 0 .. n
      BY <1>1, <1>5, <2>2
    <3> QED
      BY <1>2, <3>1, <3>2
  <2> HIDE DEF T2
  <2> QED
    BY <1>1, <2>1, <2>2, Climbs
<1>9. \A k \in 0 .. n : a[m + k] = a2[k]
  BY <1>8
<1> QED
  BY <1>7, <1>9 DEF a, a1, a2, o, m, n, u

LEMMA RunsOn ==
  ASSUME NEW o1 \in Seq(Ops), NEW o2 \in Seq(Ops),
         NEW A \in SUBSET Terminals, NEW B \in SUBSET Terminals, NEW D, NEW C,
         Runs(o1, A, B, C), Runs(o2, B, D, C)
  PROVE  Runs(o1 \o o2, A, D, C)
<1> SUFFICES ASSUME NEW t \in A
             PROVE  /\ Shows(t, o1 \o o2) \in D
                    /\ \A n \in 0 .. Len(o1 \o o2) : After(t, o1 \o o2)[n] \in C
  BY DEF Runs
<1> DEFINE m == Len(o1)
           n == Len(o2)
           u == Shows(t, o1)
<1>1. m \in Nat /\ n \in Nat /\ Len(o1 \o o2) = m + n
  OBVIOUS
<1>2. u \in B /\ \A k \in 0 .. m : After(t, o1)[k] \in C
  BY DEF Runs
<1>3. Shows(u, o2) \in D /\ \A k \in 0 .. n : After(u, o2)[k] \in C
  BY <1>2 DEF Runs
<1>4. /\ \A k \in 0 .. m : After(t, o1 \o o2)[k] = After(t, o1)[k]
      /\ \A k \in 0 .. n : After(t, o1 \o o2)[m + k] = After(u, o2)[k]
  BY AfterConcat
<1> HIDE DEF m, n, u
<1>5. Shows(t, o1 \o o2) \in D
  <2>1. n \in 0 .. n /\ Shows(u, o2) = After(u, o2)[n]
    BY <1>1 DEF Shows, n
  <2>2. After(t, o1 \o o2)[m + n] = After(u, o2)[n]
    BY <1>4, <2>1
  <2> QED
    BY <1>1, <1>3, <2>1, <2>2 DEF Shows
<1>6. ASSUME NEW k \in 0 .. (m + n) PROVE After(t, o1 \o o2)[k] \in C
  <2>1. CASE k \in 0 .. m
    BY <1>2, <1>4, <2>1
  <2>2. CASE k \notin 0 .. m
    <3>1. k - m \in 0 .. n /\ m + (k - m) = k
      BY <1>1, <2>2
    <3>2. After(t, o1 \o o2)[m + (k - m)] = After(u, o2)[k - m] /\ After(u, o2)[k - m] \in C
      BY <1>3, <1>4, <3>1
    <3> QED
      BY <3>1, <3>2
  <2> QED
    BY <2>1, <2>2
<1> QED
  BY <1>1, <1>5, <1>6

-----------------------------------------------------------------------------
(* Ways of the cursor within a region.                                       *)

LEMMA GoodSets ==
  ASSUME NEW h, NEW o, NEW e, NEW k, NEW a
  PROVE  /\ Clear(h, o, e, k) \in SUBSET Terminals
         /\ Good(h, o, e, k, a) \in SUBSET Clear(h, o, e, k)
         /\ Good(h, o, e, k, a) \in SUBSET Terminals
         /\ Clear(h, o, e, k) \in SUBSET Standing(h) /\ Standing(h) \in SUBSET Terminals
  BY DEF Clear, Good, Standing

\* Nothing that leaves the cursor as low, and the saved one where it is, leaves the region.
LEMMA LevelStays ==
  ASSUME NEW h \in Seq(RowValues), NEW o, NEW e \in Int, NEW k \in Int, NEW a \in Nat,
         NEW t \in Good(h, o, e, k, a), NEW u \in Standing(h), Level(t, u)
  PROVE  u \in Good(h, o, e, k, a)
<1>1. t \in Standing(h)
  BY DEF Good, Clear
<1> DEFINE ta == Len(t.above)
           ua == Len(u.above)
           tr == t.at[1]
           ur == u.at[1]
           ts == t.saved.at[1]
           hn == Len(h)
<1>2. /\ ta \in Nat /\ ua \in Nat /\ hn \in Nat /\ tr \in Int /\ ur \in Int /\ ts \in Int
      /\ Rows \in Nat
  <2>1. /\ ta \in Nat /\ hn \in Nat /\ Rows \in Nat /\ tr \in 0 .. (Rows - 1)
        /\ ts \in 0 .. (Rows - 1) /\ ua \in Nat /\ ur \in 0 .. (Rows - 1)
    BY <1>1, PlaceTypes
  <2> QED
    BY <2>1
<1>3. u.saved = t.saved /\ ua >= ta /\ ua + ur >= ta + tr
  BY DEF Level
<1>4. /\ RowOf(t, h) = ta + tr - hn /\ RowOf(u, h) = ua + ur - hn
      /\ SavedRow(t, h) = ta + ts - hn /\ SavedRow(u, h) = ua + ts - hn
      /\ Bottom(t, h) = ta + Rows - 1 - hn /\ Bottom(u, h) = ua + Rows - 1 - hn
  BY <1>3 DEF RowOf, SavedRow, Bottom
<1> HIDE DEF ta, ua, tr, ur, ts, hn
<1>5. /\ RowOf(u, h) >= RowOf(t, h) /\ SavedRow(u, h) >= SavedRow(t, h)
      /\ Bottom(u, h) >= Bottom(t, h) /\ RowOf(t, h) \in Int /\ RowOf(u, h) \in Int
      /\ SavedRow(u, h) \in Int /\ SavedRow(t, h) \in Int
      /\ Bottom(u, h) \in Int /\ Bottom(t, h) \in Int
  BY <1>2, <1>3, <1>4
<1>6. /\ RowOf(t, h) >= a /\ Bottom(t, h) >= e - 1
      /\ IF o = "Saved" THEN SavedRow(t, h) >= 0 /\ t.saved.at[1] <= k ELSE RowOf(t, h) >= 0
  BY DEF Good, Clear
<1>7. /\ RowOf(u, h) >= a /\ Bottom(u, h) >= e - 1
      /\ IF o = "Saved" THEN SavedRow(u, h) >= 0 /\ u.saved.at[1] <= k ELSE RowOf(u, h) >= 0
  BY <1>3, <1>5, <1>6
<1> QED
  BY <1>7 DEF Good, Clear

LEMMA LevelRuns ==
  ASSUME NEW h \in Seq(RowValues), NEW o, NEW e \in Int, NEW k \in Int, NEW a \in Nat,
         NEW ops \in Seq(LevelOps)
  PROVE  Runs(ops, Good(h, o, e, k, a), Good(h, o, e, k, a), Clear(h, o, e, k))
<1> DEFINE G == Good(h, o, e, k, a)
<1>1. ASSUME NEW t \in G, NEW op \in LevelOps PROVE Does(t, op) \in G
  <2>1. t \in Standing(h) /\ RowOf(t, h) >= a
    BY DEF Good, Clear
  <2>2. RowOf(t, h) >= 0
    <3>1. RowOf(t, h) \in Int
      BY <2>1, PlaceTypes
    <3> QED
      BY <2>1, <3>1
  <2>3. Does(t, op) \in Standing(h) /\ Level(t, Does(t, op))
    BY <2>1, <2>2, DoesLevel
  <2> QED
    BY <2>3, LevelStays
<1>2. LevelOps \in SUBSET Ops
  BY DEF LevelOps, Ops, Controls
<1>3. G \in SUBSET Terminals /\ G \subseteq Clear(h, o, e, k)
  BY GoodSets
<1> HIDE DEF G
<1>4. Runs(ops, G, G, Clear(h, o, e, k))
  BY <1>1, <1>2, <1>3, RunsSame
<1> QED
  BY <1>4 DEF G

\* The cursor moves to another row of the screen.
LEMMA MovesTo ==
  ASSUME NEW h \in Seq(RowValues), NEW o, NEW e \in Int, NEW k \in Int, NEW a \in Nat,
         NEW t \in Clear(h, o, e, k), NEW u \in Standing(h),
         u.above = t.above, u.saved = t.saved, RowOf(u, h) >= a
  PROVE  u \in Good(h, o, e, k, a)
<1>1. t \in Standing(h)
  BY DEF Clear
<1>2. SavedRow(u, h) = SavedRow(t, h) /\ Bottom(u, h) = Bottom(t, h) /\ RowOf(u, h) \in Int
  BY PlaceTypes DEF SavedRow, Bottom
<1>3. RowOf(u, h) >= 0
  BY <1>2
<1> QED
  BY <1>2, <1>3 DEF Good, Clear

LEMMA UpOne ==
  ASSUME NEW h \in Seq(RowValues), NEW o, NEW e \in Int, NEW k \in Int, NEW a \in Nat \ {0},
         NEW t \in Good(h, o, e, k, a)
  PROVE  Does(t, "up") \in Good(h, o, e, k, a - 1)
<1> DEFINE u == Does(t, "up")
<1>1. t \in Standing(h) /\ t \in Clear(h, o, e, k) /\ RowOf(t, h) >= a
  BY DEF Good, Clear
<1>2. /\ u \in Standing(h) /\ u.above = t.above /\ u.saved = t.saved
      /\ u.at[1] = IF t.at[1] = 0 THEN 0 ELSE t.at[1] - 1
  BY <1>1, DoesMoves
<1> DEFINE ta == Len(t.above)
           tr == t.at[1]
           ur == u.at[1]
           hn == Len(h)
<1>3. /\ RowOf(t, h) = ta + tr - hn /\ RowOf(u, h) = ta + ur - hn
  BY <1>2 DEF RowOf
<1>4. /\ ta \in Nat /\ hn \in Nat /\ Rows \in Nat /\ tr \in 0 .. (Rows - 1)
  BY <1>1, PlaceTypes
<1> HIDE DEF ta, tr, ur, hn, u
<1>5. RowOf(u, h) >= a - 1
  BY <1>1, <1>2, <1>3, <1>4 DEF tr, ur
<1> QED
  BY <1>1, <1>2, <1>5, MovesTo DEF u

LEMMA DownOne ==
  ASSUME NEW h \in Seq(RowValues), NEW o, NEW e \in Int, NEW k \in Int, NEW a \in Nat,
         NEW t \in Good(h, o, e, k, a), a + 1 < e
  PROVE  Does(t, "down") \in Good(h, o, e, k, a + 1)
<1> DEFINE u == Does(t, "down")
<1>1. /\ t \in Standing(h) /\ t \in Clear(h, o, e, k) /\ RowOf(t, h) >= a
      /\ Bottom(t, h) >= e - 1
  BY DEF Good, Clear
<1>2. /\ u \in Standing(h) /\ u.above = t.above /\ u.saved = t.saved
      /\ u.at[1] = IF t.at[1] = Rows - 1 THEN t.at[1] ELSE t.at[1] + 1
  BY <1>1, DoesMoves
<1> DEFINE ta == Len(t.above)
           tr == t.at[1]
           ur == u.at[1]
           hn == Len(h)
<1>3. /\ RowOf(t, h) = ta + tr - hn /\ RowOf(u, h) = ta + ur - hn
      /\ Bottom(t, h) = ta + Rows - 1 - hn
  BY <1>2 DEF RowOf, Bottom
<1>4. /\ ta \in Nat /\ hn \in Nat /\ Rows \in Nat /\ tr \in 0 .. (Rows - 1)
  BY <1>1, PlaceTypes
<1>5. ur = IF tr = Rows - 1 THEN tr ELSE tr + 1
  BY <1>2
<1> HIDE DEF ta, tr, ur, hn, u
<1>6. RowOf(u, h) >= a + 1
  <2>1. CASE tr = Rows - 1
    BY <1>1, <1>3, <1>4, <1>5, <2>1
  <2>2. CASE tr # Rows - 1
    BY <1>1, <1>3, <1>4, <1>5, <2>2
  <2> QED
    BY <2>1, <2>2
<1> QED
  BY <1>1, <1>2, <1>6, MovesTo DEF u

LEMMA Repeats ==
  ASSUME NEW n \in Nat, NEW S, NEW op \in S
  PROVE  /\ Repeat(n, op) \in Seq(S) /\ Len(Repeat(n, op)) = n
         /\ \A k \in 1 .. n : Repeat(n, op)[k] = op
  BY DEF Repeat

LEMMA UpRuns ==
  ASSUME NEW h \in Seq(RowValues), NEW o, NEW e \in Int, NEW k \in Int, NEW a \in Nat,
         NEW n \in 0 .. a
  PROVE  Runs(Repeat(n, "up"), Good(h, o, e, k, a), Good(h, o, e, k, a - n), Clear(h, o, e, k))
<1> DEFINE ops == Repeat(n, "up")
           sets == [m \in 0 .. n |-> Good(h, o, e, k, a - m)]
<1>1. ops \in Seq(Ops) /\ Len(ops) = n /\ \A m \in 1 .. n : ops[m] = "up"
  <2>1. "up" \in Ops
    BY DEF Ops, Controls
  <2> QED
    BY <2>1, Repeats
<1>2. /\ sets \in [0 .. n -> SUBSET Terminals]
      /\ \A m \in 0 .. n : sets[m] = Good(h, o, e, k, a - m) /\ sets[m] \subseteq Clear(h, o, e, k)
  BY GoodSets
<1> HIDE DEF ops, sets
<1>3. ASSUME NEW m \in 1 .. n, NEW t \in sets[m - 1] PROVE Does(t, ops[m]) \in sets[m]
  <2>1. /\ m - 1 \in 0 .. n /\ m \in 0 .. n /\ a - (m - 1) \in Nat \ {0}
        /\ a - (m - 1) - 1 = a - m
    OBVIOUS
  <2>2. t \in Good(h, o, e, k, a - (m - 1))
    BY <1>2, <2>1
  <2>3. Does(t, "up") \in Good(h, o, e, k, a - (m - 1) - 1)
    BY <2>1, <2>2, UpOne
  <2> QED
    BY <1>1, <1>2, <2>1, <2>3
<1>4. Runs(ops, sets[0], sets[Len(ops)], Clear(h, o, e, k))
  BY <1>1, <1>2, <1>3, RunsChained
<1>5. sets[0] = Good(h, o, e, k, a - 0) /\ a - 0 = a /\ sets[n] = Good(h, o, e, k, a - n)
  BY <1>2
<1> QED
  BY <1>1, <1>4, <1>5 DEF ops

LEMMA DownRuns ==
  ASSUME NEW h \in Seq(RowValues), NEW o, NEW e \in Int, NEW k \in Int, NEW a \in Nat,
         NEW n \in Nat, n = 0 \/ a + n < e
  PROVE  Runs(Repeat(n, "down"), Good(h, o, e, k, a), Good(h, o, e, k, a + n), Clear(h, o, e, k))
<1> DEFINE ops == Repeat(n, "down")
           sets == [m \in 0 .. n |-> Good(h, o, e, k, a + m)]
<1>1. ops \in Seq(Ops) /\ Len(ops) = n /\ \A m \in 1 .. n : ops[m] = "down"
  <2>1. "down" \in Ops
    BY DEF Ops, Controls
  <2> QED
    BY <2>1, Repeats
<1>2. /\ sets \in [0 .. n -> SUBSET Terminals]
      /\ \A m \in 0 .. n : sets[m] = Good(h, o, e, k, a + m) /\ sets[m] \subseteq Clear(h, o, e, k)
  BY GoodSets
<1> HIDE DEF ops, sets
<1>3. ASSUME NEW m \in 1 .. n, NEW t \in sets[m - 1] PROVE Does(t, ops[m]) \in sets[m]
  <2>1. /\ m - 1 \in 0 .. n /\ m \in 0 .. n /\ a + (m - 1) \in Nat
        /\ a + (m - 1) + 1 = a + m /\ a + (m - 1) + 1 < e
    OBVIOUS
  <2>2. t \in Good(h, o, e, k, a + (m - 1))
    BY <1>2, <2>1
  <2>3. Does(t, "down") \in Good(h, o, e, k, a + (m - 1) + 1)
    BY <2>1, <2>2, DownOne
  <2> QED
    BY <1>1, <1>2, <2>1, <2>3
<1>4. Runs(ops, sets[0], sets[Len(ops)], Clear(h, o, e, k))
  BY <1>1, <1>2, <1>3, RunsChained
<1>5. sets[0] = Good(h, o, e, k, a + 0) /\ a + 0 = a /\ sets[n] = Good(h, o, e, k, a + n)
  BY <1>2
<1> QED
  BY <1>1, <1>4, <1>5 DEF ops

LEMMA OriginOps ==
  ASSUME NEW o
  PROVE  /\ ToOrigin(o) \in Seq(Ops)
         /\ o # "Saved" => ToOrigin(o) \in Seq(LevelOps)
<1>1. <<>> \in Seq(Ops) /\ <<>> \in Seq(LevelOps)
  OBVIOUS
<1>2. <<"cr">> \in Seq(Ops) /\ <<"cr">> \in Seq(LevelOps) /\ <<"restore">> \in Seq(Ops)
  BY DEF Ops, Controls, LevelOps
<1> QED
  BY <1>1, <1>2 DEF ToOrigin

\* The saved origin is reached from anywhere; another is where the cursor is.
LEMMA OriginRuns ==
  ASSUME NEW h \in Seq(RowValues), NEW o, NEW e \in Int, NEW k \in Int
  PROVE  Runs(ToOrigin(o), Clear(h, o, e, k), Good(h, o, e, k, 0), Clear(h, o, e, k))
<1> DEFINE C == Clear(h, o, e, k)
           G == Good(h, o, e, k, 0)
<1>1. CASE o = "Saved"
  <2>1. ASSUME NEW t \in C PROVE Does(t, "restore") \in G
    <3> DEFINE u == Does(t, "restore")
    <3>1. t \in Standing(h) /\ SavedRow(t, h) >= 0
      BY <1>1 DEF Clear
    <3>2. /\ u \in Standing(h) /\ u.above = t.above /\ u.at[1] = t.saved.at[1]
          /\ u.saved = t.saved
      BY <3>1, DoesSaves
    <3>3. RowOf(u, h) >= 0
      BY <3>1, <3>2 DEF RowOf, SavedRow
    <3> HIDE DEF u
    <3> QED
      BY <3>2, <3>3, MovesTo DEF u
  <2>2. ToOrigin(o) = <<"restore">> /\ "restore" \in Ops
    BY <1>1 DEF ToOrigin, Ops, Controls
  <2>3. C \in SUBSET Terminals /\ G \in SUBSET Terminals /\ G \subseteq C
    BY GoodSets
  <2> HIDE DEF C, G
  <2>4. Runs(<<"restore">>, C, G, C)
    BY <2>1, <2>2, <2>3, RunsOne
  <2> QED
    BY <2>2, <2>4 DEF C, G
<1>2. CASE o # "Saved"
  <2>1. C = G
    BY <1>2 DEF Clear, Good
  <2> HIDE DEF C, G
  <2>2. Runs(ToOrigin(o), G, G, C)
    BY <1>2, OriginOps, LevelRuns DEF C, G
  <2> QED
    BY <2>1, <2>2 DEF C, G
<1> QED
  BY <1>1, <1>2

-----------------------------------------------------------------------------
(* Rows of atoms.                                                            *)

LEMMA ExtentsAre ==
  ASSUME NEW S, NEW atoms \in Seq(S)
  PROVE  Extents(atoms) \in [0 .. Len(atoms) -> Nat]
<1> DEFINE n == Len(atoms)
           z == 0
           Op(v, k) == v + Width(atoms[k])
           step == [p \in (1 .. n) \X Nat |-> Op(p[2], p[1])]
           Eq(f) == f = [k \in 0 .. n |-> IF k = 0 THEN z ELSE Op(f[k - 1], k)]
           a == Extents(atoms)
<1>1. n \in Nat /\ z \in Nat
  OBVIOUS
<1>2. ASSUME NEW k \in 1 .. n, NEW v \in Nat PROVE Op(v, k) \in Nat
  <2>1. Width(atoms[k]) \in Nat
    BY DEF Width
  <2> QED
    BY <2>1
<1>3. a = CHOOSE f : Eq(f)
  BY Zenon DEF Extents, n
<1> HIDE DEF n, z, Op, a
<1>4. step \in [(1 .. n) \X Nat -> Nat]
  BY <1>2
<1>5. PICK g \in [0 .. n -> Nat] : Goes(g, n, z, step)
  <2> HIDE DEF step
  <2> QED
    BY <1>1, <1>4, GoesAlong
<1>6. Eq(g)
  <2>1. ASSUME NEW k \in 1 .. n PROVE k \in 0 .. n /\ k # 0 /\ g[k] = Op(g[k - 1], k)
    <3>1. g[k] = step[<<k, g[k - 1]>>]
      BY <1>5 DEF Goes
    <3>2. k - 1 \in 0 .. n
      BY <1>1
    <3>3. g[k - 1] \in Nat
      BY <1>5, <3>2
    <3> QED
      BY <1>1, <3>1, <3>3
  <2>2. g[0] = z
    BY <1>5 DEF Goes
  <2> DEFINE f == [k \in 0 .. n |-> IF k = 0 THEN z ELSE Op(g[k - 1], k)]
  <2>3. ASSUME NEW k \in 0 .. n PROVE g[k] = f[k]
    <3>1. CASE k = 0
      BY <2>2, <3>1
    <3>2. CASE k # 0
      <4>1. k \in 1 .. n
        BY <1>1, <3>2
      <4> QED
        BY <2>1, <4>1
    <3> QED
      BY <3>1, <3>2
  <2>4. g = [k \in 0 .. n |-> g[k]]
    BY <1>5
  <2>5. g = f
    BY <2>3, <2>4
  <2> QED
    BY <2>5
<1>7. Eq(a)
  <2> HIDE DEF Eq
  <2> QED
    BY <1>3, <1>6
<1>8. a[0] = z /\ \A k \in 1 .. n : a[k] = Op(a[k - 1], k)
  <2>1. 0 \in 0 .. n /\ \A k \in 1 .. n : k \in 0 .. n /\ k # 0
    BY <1>1
  <2> QED
    BY <1>7, <2>1
<1>9. a = [k \in 0 .. n |-> a[k]]
  BY <1>7
<1> HIDE DEF Eq
<1> DEFINE P == {k \in 0 .. n : a[k] \in Nat}
<1>10. P = 0 .. n
  <2>1. ASSUME NEW k \in 1 .. n, k - 1 \in P PROVE k \in P
    <3>1. a[k - 1] \in Nat /\ k \in 0 .. n
      BY <1>1, <2>1
    <3>2. Op(a[k - 1], k) \in Nat
      BY <1>2, <3>1
    <3> QED
      BY <1>8, <3>1, <3>2
  <2>2. P \in SUBSET (0 .. n) /\ 0 \in P
    BY <1>1, <1>8
  <2> HIDE DEF P
  <2> QED
    BY <1>1, <2>1, <2>2, Climbs
<1>11. a \in [0 .. n -> Nat]
  <2>1. \A k \in 0 .. n : a[k] \in Nat
    BY <1>10 DEF P
  <2> HIDE DEF P
  <2>2. [k \in 0 .. n |-> a[k]] \in [0 .. n -> Nat]
    BY <2>1
  <2> QED
    BY <1>9, <2>2
<1> QED
  BY <1>11 DEF a, n

LEMMA UsedIs ==
  ASSUME NEW row \in FrameRows
  PROVE  Used(row) \in Nat
<1>1. row.atoms \in Seq(Atoms)
  BY DEF FrameRows
<1>2. Extents(row.atoms) \in [0 .. Len(row.atoms) -> Nat] /\ Len(row.atoms) \in Nat
  BY <1>1, ExtentsAre
<1> QED
  BY <1>2 DEF Used

LEMMA PickedIs ==
  ASSUME NEW S, NEW first \in Seq(S), NEW atoms \in Seq(S), NEW places
  PROVE  Picked(first, atoms, places) \in Seq(S)
<1> DEFINE n == Len(atoms)
           z == first
           Op(v, k) == (IF k \in places THEN Append(v, atoms[k]) ELSE v)
           step == [p \in (1 .. n) \X Seq(S) |-> Op(p[2], p[1])]
           Eq(f) == f = [k \in 0 .. n |-> IF k = 0 THEN z ELSE Op(f[k - 1], k)]
           a == (LET picked[m \in 0 .. Len(atoms)] ==
                      IF m = 0 THEN first
                      ELSE IF m \in places THEN Append(picked[m - 1], atoms[m]) ELSE picked[m - 1]
                IN picked)
<1>1. n \in Nat /\ z \in Seq(S)
  OBVIOUS
<1>2. ASSUME NEW k \in 1 .. n, NEW v \in Seq(S) PROVE Op(v, k) \in Seq(S)
  <2>1. atoms[k] \in S
    OBVIOUS
  <2> QED
    BY <2>1
<1>3. a = CHOOSE f : Eq(f)
  BY Zenon DEF n
<1> HIDE DEF n, z, Op, a
<1>4. step \in [(1 .. n) \X Seq(S) -> Seq(S)]
  BY <1>2
<1>5. PICK g \in [0 .. n -> Seq(S)] : Goes(g, n, z, step)
  <2> HIDE DEF step
  <2> QED
    BY <1>1, <1>4, GoesAlong
<1>6. Eq(g)
  <2>1. ASSUME NEW k \in 1 .. n PROVE k \in 0 .. n /\ k # 0 /\ g[k] = Op(g[k - 1], k)
    <3>1. g[k] = step[<<k, g[k - 1]>>]
      BY <1>5 DEF Goes
    <3>2. k - 1 \in 0 .. n
      BY <1>1
    <3>3. g[k - 1] \in Seq(S)
      BY <1>5, <3>2
    <3> QED
      BY <1>1, <3>1, <3>3
  <2>2. g[0] = z
    BY <1>5 DEF Goes
  <2> DEFINE f == [k \in 0 .. n |-> IF k = 0 THEN z ELSE Op(g[k - 1], k)]
  <2>3. ASSUME NEW k \in 0 .. n PROVE g[k] = f[k]
    <3>1. CASE k = 0
      BY <2>2, <3>1
    <3>2. CASE k # 0
      <4>1. k \in 1 .. n
        BY <1>1, <3>2
      <4> QED
        BY <2>1, <4>1
    <3> QED
      BY <3>1, <3>2
  <2>4. g = [k \in 0 .. n |-> g[k]]
    BY <1>5
  <2>5. g = f
    BY <2>3, <2>4
  <2> QED
    BY <2>5
<1>7. Eq(a)
  <2> HIDE DEF Eq
  <2> QED
    BY <1>3, <1>6
<1>8. a[0] = z /\ \A k \in 1 .. n : a[k] = Op(a[k - 1], k)
  <2>1. 0 \in 0 .. n /\ \A k \in 1 .. n : k \in 0 .. n /\ k # 0
    BY <1>1
  <2> QED
    BY <1>7, <2>1
<1>9. a = [k \in 0 .. n |-> a[k]]
  BY <1>7
<1> HIDE DEF Eq
<1> DEFINE P == {k \in 0 .. n : a[k] \in Seq(S)}
<1>10. P = 0 .. n
  <2>1. ASSUME NEW k \in 1 .. n, k - 1 \in P PROVE k \in P
    <3>1. a[k - 1] \in Seq(S) /\ k \in 0 .. n
      BY <1>1, <2>1
    <3>2. Op(a[k - 1], k) \in Seq(S)
      BY <1>2, <3>1
    <3> QED
      BY <1>8, <3>1, <3>2
  <2>2. P \in SUBSET (0 .. n) /\ 0 \in P
    BY <1>1, <1>8
  <2> HIDE DEF P
  <2> QED
    BY <1>1, <2>1, <2>2, Climbs
<1>11. a \in [0 .. n -> Seq(S)]
  <2>1. \A k \in 0 .. n : a[k] \in Seq(S)
    BY <1>10 DEF P
  <2> HIDE DEF P
  <2>2. [k \in 0 .. n |-> a[k]] \in [0 .. n -> Seq(S)]
    BY <2>1
  <2> QED
    BY <1>9, <2>2
<1>12. Picked(first, atoms, places) = a[n]
  BY Zenon DEF Picked, a, n
<1> QED
  BY <1>1, <1>11, <1>12

LEMMA AtomRangeIs ==
  ASSUME NEW row \in FrameRows, NEW start, NEW end, NEW withEnd
  PROVE  AtomRange(row, start, end, withEnd) \in Seq(Atoms)
<1>1. row.atoms \in Seq(Atoms) /\ row.literals \in Seq(Atoms)
  BY DEF FrameRows
<1>2. \A places : Picked(row.literals, row.atoms, places) \in Seq(Atoms)
  BY <1>1, PickedIs
<1> QED
  BY <1>2 DEF AtomRange

Built == Seq(FrameRows) \ {<<>>}

LEMMA LastPut ==
  ASSUME NEW built \in Built, NEW row \in FrameRows
  PROVE  /\ Append(Front(built), row) \in Built
         /\ Len(Append(Front(built), row)) = Len(built)
         /\ Append(built, row) \in Built /\ Len(Append(built, row)) = Len(built) + 1
         /\ Last(built) \in FrameRows
<1>1. Len(built) \in Nat \ {0} /\ built \in Seq(FrameRows)
  BY DEF Built
<1>2. Front(built) \in Seq(FrameRows) /\ Len(Front(built)) = Len(built) - 1
  <2> DEFINE n == Len(built) - 1
  <2>1. n \in Nat /\ n <= Len(built) /\ Front(built) = SubSeq(built, 1, n)
    BY <1>1 DEF Front
  <2> HIDE DEF n
  <2>2. Front(built) \in Seq(FrameRows) /\ Len(Front(built)) = n
    BY <1>1, <2>1
  <2> QED
    BY <2>2 DEF n
<1>3. built[Len(built)] \in FrameRows
  BY <1>1
<1>4. /\ Append(Front(built), row) \in Seq(FrameRows)
      /\ Len(Append(Front(built), row)) = Len(built) - 1 + 1
      /\ Append(built, row) \in Seq(FrameRows) /\ Len(Append(built, row)) = Len(built) + 1
  BY <1>1, <1>2
<1>5. Append(Front(built), row) # <<>> /\ Append(built, row) # <<>>
  BY <1>1, <1>4
<1> QED
  BY <1>1, <1>3, <1>4, <1>5 DEF Built, Last

LEMMA Appends ==
  ASSUME NEW row \in FrameRows, NEW atoms \in Seq(Atoms)
  PROVE  [row EXCEPT !.atoms = @ \o atoms] \in FrameRows
<1>1. row.atoms \in Seq(Atoms)
  BY DEF FrameRows
<1>2. row.atoms \o atoms \in Seq(Atoms)
  BY <1>1
<1> DEFINE x == row.atoms \o atoms
<1>3. [row EXCEPT !.atoms = @ \o atoms] = [row EXCEPT !.atoms = x]
  OBVIOUS
<1> HIDE DEF x
<1>4. [row EXCEPT !.atoms = x] \in FrameRows
  BY <1>2 DEF FrameRows, x
<1> QED
  BY <1>3, <1>4

LEMMA Glyphed ==
  ASSUME NEW built \in Built, NEW glyph \in Atoms
  PROVE  /\ Append(Front(built), [Last(built) EXCEPT !.atoms = Append(@, glyph)]) \in Built
         /\ Len(Append(Front(built), [Last(built) EXCEPT !.atoms = Append(@, glyph)])) = Len(built)
<1>1. Last(built) \in FrameRows
  <2>1. NoRow \in FrameRows
    BY DEF FrameRows, NoRow
  <2> QED
    BY <2>1, LastPut
<1>2. [Last(built) EXCEPT !.atoms = Append(@, glyph)] \in FrameRows
  BY <1>1 DEF FrameRows
<1> QED
  BY <1>2, LastPut

LEMMA PutGlyphs ==
  ASSUME NEW built \in Built, NEW glyph \in Atoms
  PROVE  PutGlyph(built, glyph) \in Built /\ Len(PutGlyph(built, glyph)) >= Len(built)
<1> DEFINE left == Columns - Used(Last(built))
           wide == [Last(built) EXCEPT !.atoms = @ \o [k \in 1 .. left |-> Padding]]
           padded == Append(Front(built), wide)
           room == IF Width(glyph) > left THEN Append(padded, NoRow) ELSE built
           put == Append(Front(room), [Last(room) EXCEPT !.atoms = Append(@, glyph)])
           ended == IF Used(Last(put)) = Columns THEN Append(put, NoRow) ELSE put
<1>1. PutGlyph(built, glyph) = ended
  BY Zenon DEF PutGlyph
<1>2. NoRow \in FrameRows
  BY DEF NoRow, FrameRows
<1>3. Last(built) \in FrameRows
  BY <1>2, LastPut
<1>4. left \in Int
  BY <1>3, UsedIs, SizeAssumption
<1>5. [k \in 1 .. left |-> Padding] \in Seq(Atoms)
  <2>1. Padding \in Atoms
    BY DEF Atoms
  <2> HIDE DEF left
  <2>2. CASE left \in Nat
    BY <2>1, <2>2
  <2>3. CASE left \notin Nat
    <3> DEFINE none == [k \in 1 .. left |-> Padding]
    <3>1. none = <<>> /\ <<>> \in Seq(Atoms)
      BY <1>4, <2>3
    <3> HIDE DEF none
    <3>2. none \in Seq(Atoms)
      BY <3>1
    <3> QED
      BY <3>2 DEF none
  <2> QED
    BY <2>2, <2>3
<1>6. wide \in FrameRows
  <2> HIDE DEF left
  <2> QED
    BY <1>3, <1>5, Appends
<1> HIDE DEF wide, left
<1>7. padded \in Built /\ Len(padded) = Len(built)
  BY <1>6, LastPut
<1> HIDE DEF padded
<1>8. Append(padded, NoRow) \in Built /\ Len(Append(padded, NoRow)) = Len(built) + 1
  BY <1>2, <1>7, LastPut
<1>9. Len(built) \in Nat
  BY DEF Built
<1>10. room \in Built /\ Len(room) >= Len(built) /\ Len(room) \in Nat
  BY <1>8, <1>9
<1> HIDE DEF room
<1>11. put \in Built /\ Len(put) = Len(room)
  BY <1>10, Glyphed
<1> HIDE DEF put
<1>12. Append(put, NoRow) \in Built /\ Len(Append(put, NoRow)) = Len(put) + 1
  BY <1>2, <1>11, LastPut
<1>13. ended \in Built /\ Len(ended) >= Len(built)
  BY <1>9, <1>10, <1>11, <1>12
<1> HIDE DEF ended
<1> QED
  BY <1>1, <1>13

LEMMA PutPrompts ==
  ASSUME NEW built \in Built, NEW atom \in Atoms
  PROVE  PutPrompt(built, atom) \in Built
  BY Glyphed, PutGlyphs DEF PutPrompt

LEMMA LiteralsAre ==
  ASSUME NEW built \in Seq(FrameRows)
  PROVE  WithLiterals(built) \in Seq(FrameRows) /\ Len(WithLiterals(built)) = Len(built)
<1> DEFINE within(atoms) == {k \in DOMAIN atoms : atoms[k] \in Literals}
<1> DEFINE n == Len(built)
           z == <<>>
           Op(v, k) == Picked(v, built[k].atoms, within(built[k].atoms))
           step == [p \in (1 .. n) \X Seq(Atoms) |-> Op(p[2], p[1])]
           Eq(f) == f = [k \in 0 .. n |-> IF k = 0 THEN z ELSE Op(f[k - 1], k)]
           a == (LET upTo[m \in 0 .. Len(built)] ==
                      IF m = 0 THEN <<>>
                      ELSE Picked(upTo[m - 1], built[m].atoms, within(built[m].atoms))
                IN upTo)
<1>1. n \in Nat /\ z \in Seq(Atoms)
  OBVIOUS
<1>2. ASSUME NEW k \in 1 .. n, NEW v \in Seq(Atoms) PROVE Op(v, k) \in Seq(Atoms)
  <2>1. built[k] \in FrameRows
    OBVIOUS
  <2>2. built[k].atoms \in Seq(Atoms)
    BY <2>1 DEF FrameRows
  <2> HIDE DEF within
  <2> QED
    BY <2>2, PickedIs
<1>3. a = CHOOSE f : Eq(f)
  BY Zenon DEF n
<1> HIDE DEF n, z, Op, a, within
<1>4. step \in [(1 .. n) \X Seq(Atoms) -> Seq(Atoms)]
  BY <1>2
<1>5. PICK g \in [0 .. n -> Seq(Atoms)] : Goes(g, n, z, step)
  <2> HIDE DEF step
  <2> QED
    BY <1>1, <1>4, GoesAlong
<1>6. Eq(g)
  <2>1. ASSUME NEW k \in 1 .. n PROVE k \in 0 .. n /\ k # 0 /\ g[k] = Op(g[k - 1], k)
    <3>1. g[k] = step[<<k, g[k - 1]>>]
      BY <1>5 DEF Goes
    <3>2. k - 1 \in 0 .. n
      BY <1>1
    <3>3. g[k - 1] \in Seq(Atoms)
      BY <1>5, <3>2
    <3> QED
      BY <1>1, <3>1, <3>3
  <2>2. g[0] = z
    BY <1>5 DEF Goes
  <2> DEFINE f == [k \in 0 .. n |-> IF k = 0 THEN z ELSE Op(g[k - 1], k)]
  <2>3. ASSUME NEW k \in 0 .. n PROVE g[k] = f[k]
    <3>1. CASE k = 0
      BY <2>2, <3>1
    <3>2. CASE k # 0
      <4>1. k \in 1 .. n
        BY <1>1, <3>2
      <4> QED
        BY <2>1, <4>1
    <3> QED
      BY <3>1, <3>2
  <2>4. g = [k \in 0 .. n |-> g[k]]
    BY <1>5
  <2>5. g = f
    BY <2>3, <2>4
  <2> QED
    BY <2>5
<1>7. Eq(a)
  <2> HIDE DEF Eq
  <2> QED
    BY <1>3, <1>6
<1>8. a[0] = z /\ \A k \in 1 .. n : a[k] = Op(a[k - 1], k)
  <2>1. 0 \in 0 .. n /\ \A k \in 1 .. n : k \in 0 .. n /\ k # 0
    BY <1>1
  <2> QED
    BY <1>7, <2>1
<1>9. a = [k \in 0 .. n |-> a[k]]
  BY <1>7
<1> HIDE DEF Eq
<1> DEFINE P == {k \in 0 .. n : a[k] \in Seq(Atoms)}
<1>10. P = 0 .. n
  <2>1. ASSUME NEW k \in 1 .. n, k - 1 \in P PROVE k \in P
    <3>1. a[k - 1] \in Seq(Atoms) /\ k \in 0 .. n
      BY <1>1, <2>1
    <3>2. Op(a[k - 1], k) \in Seq(Atoms)
      BY <1>2, <3>1
    <3> QED
      BY <1>8, <3>1, <3>2
  <2>2. P \in SUBSET (0 .. n) /\ 0 \in P
    BY <1>1, <1>8
  <2> HIDE DEF P
  <2> QED
    BY <1>1, <2>1, <2>2, Climbs
<1>11. a \in [0 .. n -> Seq(Atoms)]
  <2>1. \A k \in 0 .. n : a[k] \in Seq(Atoms)
    BY <1>10 DEF P
  <2> HIDE DEF P
  <2>2. [k \in 0 .. n |-> a[k]] \in [0 .. n -> Seq(Atoms)]
    BY <2>1
  <2> QED
    BY <1>9, <2>2
<1>12. WithLiterals(built) = [k \in DOMAIN built |-> [built[k] EXCEPT !.literals = a[k - 1]]]
  BY Zenon DEF WithLiterals, a, n, within
<1>13. DOMAIN built = 1 .. n
  BY DEF n
<1>14. ASSUME NEW k \in 1 .. n PROVE [built[k] EXCEPT !.literals = a[k - 1]] \in FrameRows
  <2>1. k - 1 \in 0 .. n
    BY <1>1
  <2>2. a[k - 1] \in Seq(Atoms) /\ built[k] \in FrameRows
    BY <1>11, <2>1 DEF n
  <2> QED
    BY <2>2 DEF FrameRows
<1>15. WithLiterals(built) \in Seq(FrameRows) /\ Len(WithLiterals(built)) = n
  <2> DEFINE Row(k) == [built[k] EXCEPT !.literals = a[k - 1]]
  <2>1. \A k \in 1 .. n : Row(k) \in FrameRows
    BY <1>14
  <2>2. WithLiterals(built) = [k \in 1 .. n |-> Row(k)]
    BY <1>12, <1>13
  <2> HIDE DEF Row
  <2> QED
    BY <1>1, <2>1, <2>2
<1> QED
  BY <1>15 DEF n

-----------------------------------------------------------------------------
(* The frame.                                                                *)

LEMMA ViewportIs ==
  ASSUME NEW built \in Seq(FrameRows), NEW here \in Built, Len(here) <= Len(built)
  PROVE  /\ Viewport(built, here).rows \in Seq(FrameRows)
         /\ Len(Viewport(built, here).rows) \in 1 .. Rows
         /\ Viewport(built, here).at \in Nat \X Nat
         /\ Viewport(built, here).at[1] < Len(Viewport(built, here).rows)
<1> DEFINE start == IF Len(here) > Rows THEN Len(here) - Rows ELSE 0
           end == IF start + Rows < Len(built) THEN start + Rows ELSE Len(built)
           shows == SubSeq(built, start + 1, end)
           place == <<Len(here) - start - 1, Used(Last(here))>>
<1>1. Viewport(built, here) = [rows |-> shows, at |-> place]
  BY Zenon DEF Viewport
<1>2. Len(here) \in Nat \ {0} /\ Len(built) \in Nat /\ Rows \in Nat \ {0}
  BY SizeAssumption DEF Built
<1>3. Used(Last(here)) \in Nat
  <2>1. here[Len(here)] \in FrameRows
    BY <1>2 DEF Built
  <2> QED
    BY <2>1, UsedIs DEF Last
<1>4. /\ start \in Nat /\ end \in Nat /\ Len(here) <= end /\ end <= start + Rows
      /\ start < Len(here) /\ end <= Len(built)
  BY <1>2
<1> HIDE DEF start, end
<1>5. shows \in Seq(FrameRows) /\ Len(shows) = end - start
  <2>1. start + 1 \in 1 .. (Len(built) + 1) /\ end \in 0 .. Len(built) /\ start + 1 <= end
    BY <1>2, <1>4
  <2> DEFINE s == start + 1
  <2>2. s \in Nat \ {0} /\ end - s + 1 = end - start /\ end <= Len(built) /\ s <= end
    BY <1>4, <2>1
  <2> HIDE DEF s
  <2>3. SubSeq(built, s, end) \in Seq(FrameRows) /\ Len(SubSeq(built, s, end)) = end - s + 1
    BY <1>4, <2>2
  <2> QED
    BY <2>2, <2>3 DEF s
<1>6. Len(here) - start - 1 \in Nat /\ Len(here) - start - 1 < end - start
      /\ end - start \in 1 .. Rows
  BY <1>2, <1>4
<1> HIDE DEF shows
<1>7. place \in Nat \X Nat /\ place[1] < Len(shows) /\ Len(shows) \in 1 .. Rows
  BY <1>3, <1>5, <1>6
<1> HIDE DEF place
<1> QED
  BY <1>1, <1>5, <1>7

LEMMA PromptBuilt ==
  ASSUME NEW text \in Seq(Atoms)
  PROVE  (LET begun[m \in 0 .. Len(text)] ==
                IF m = 0 THEN <<NoRow>> ELSE PutPrompt(begun[m - 1], text[m])
          IN begun) \in [0 .. Len(text) -> Built]
<1> DEFINE n == Len(text)
           z == <<NoRow>>
           Op(v, k) == PutPrompt(v, text[k])
           step == [p \in (1 .. n) \X Built |-> Op(p[2], p[1])]
           Eq(f) == f = [k \in 0 .. n |-> IF k = 0 THEN z ELSE Op(f[k - 1], k)]
           a == (LET begun[m \in 0 .. Len(text)] ==
                      IF m = 0 THEN <<NoRow>> ELSE PutPrompt(begun[m - 1], text[m])
                IN begun)
<1>1. n \in Nat /\ z \in Built
  <2>1. NoRow \in FrameRows
    BY DEF NoRow, FrameRows
  <2>2. <<NoRow>> \in Seq(FrameRows) /\ <<NoRow>> # <<>>
    BY <2>1
  <2> QED
    BY <2>2 DEF Built
<1>2. ASSUME NEW k \in 1 .. n, NEW v \in Built PROVE Op(v, k) \in Built
  <2>1. text[k] \in Atoms
    OBVIOUS
  <2> QED
    BY <2>1, PutPrompts
<1>3. a = CHOOSE f : Eq(f)
  BY Zenon DEF n
<1> HIDE DEF n, z, Op, a
<1>4. step \in [(1 .. n) \X Built -> Built]
  BY <1>2
<1>5. PICK g \in [0 .. n -> Built] : Goes(g, n, z, step)
  <2> HIDE DEF step
  <2> QED
    BY <1>1, <1>4, GoesAlong
<1>6. Eq(g)
  <2>1. ASSUME NEW k \in 1 .. n PROVE k \in 0 .. n /\ k # 0 /\ g[k] = Op(g[k - 1], k)
    <3>1. g[k] = step[<<k, g[k - 1]>>]
      BY <1>5 DEF Goes
    <3>2. k - 1 \in 0 .. n
      BY <1>1
    <3>3. g[k - 1] \in Built
      BY <1>5, <3>2
    <3> QED
      BY <1>1, <3>1, <3>3
  <2>2. g[0] = z
    BY <1>5 DEF Goes
  <2> DEFINE f == [k \in 0 .. n |-> IF k = 0 THEN z ELSE Op(g[k - 1], k)]
  <2>3. ASSUME NEW k \in 0 .. n PROVE g[k] = f[k]
    <3>1. CASE k = 0
      BY <2>2, <3>1
    <3>2. CASE k # 0
      <4>1. k \in 1 .. n
        BY <1>1, <3>2
      <4> QED
        BY <2>1, <4>1
    <3> QED
      BY <3>1, <3>2
  <2>4. g = [k \in 0 .. n |-> g[k]]
    BY <1>5
  <2>5. g = f
    BY <2>3, <2>4
  <2> QED
    BY <2>5
<1>7. Eq(a)
  <2> HIDE DEF Eq
  <2> QED
    BY <1>3, <1>6
<1>8. a[0] = z /\ \A k \in 1 .. n : a[k] = Op(a[k - 1], k)
  <2>1. 0 \in 0 .. n /\ \A k \in 1 .. n : k \in 0 .. n /\ k # 0
    BY <1>1
  <2> QED
    BY <1>7, <2>1
<1>9. a = [k \in 0 .. n |-> a[k]]
  BY <1>7
<1> HIDE DEF Eq
<1> DEFINE P == {k \in 0 .. n : a[k] \in Built}
<1>10. P = 0 .. n
  <2>1. ASSUME NEW k \in 1 .. n, k - 1 \in P PROVE k \in P
    <3>1. a[k - 1] \in Built /\ k \in 0 .. n
      BY <1>1, <2>1
    <3>2. Op(a[k - 1], k) \in Built
      BY <1>2, <3>1
    <3> QED
      BY <1>8, <3>1, <3>2
  <2>2. P \in SUBSET (0 .. n) /\ 0 \in P
    BY <1>1, <1>8
  <2> HIDE DEF P
  <2> QED
    BY <1>1, <2>1, <2>2, Climbs
<1>11. a \in [0 .. n -> Built]
  <2>1. \A k \in 0 .. n : a[k] \in Built
    BY <1>10 DEF P
  <2> HIDE DEF P
  <2>2. [k \in 0 .. n |-> a[k]] \in [0 .. n -> Built]
    BY <2>1
  <2> QED
    BY <1>9, <2>2
<1> QED
  BY <1>11 DEF a, n

LEMMA LineBuilt ==
  ASSUME NEW first \in Built, NEW text \in Seq(Atoms), NEW here \in 0 .. Len(text), NEW f,
         f = LET upTo[m \in 0 .. Len(text)] ==
                   IF m = 0 THEN first ELSE PutGlyph(upTo[m - 1], text[m])
             IN upTo
  PROVE  f[here] \in Built /\ f[Len(text)] \in Built /\ Len(f[here]) <= Len(f[Len(text)])
<1> DEFINE n == Len(text)
           z == first
           Op(v, k) == PutGlyph(v, text[k])
           step == [p \in (1 .. n) \X Built |-> Op(p[2], p[1])]
           Eq(x) == x = [k \in 0 .. n |-> IF k = 0 THEN z ELSE Op(x[k - 1], k)]
           a == f
<1>1. n \in Nat /\ z \in Built
  OBVIOUS
<1>2. ASSUME NEW k \in 1 .. n, NEW v \in Built PROVE Op(v, k) \in Built
  <2>1. text[k] \in Atoms
    OBVIOUS
  <2> QED
    BY <2>1, PutGlyphs
<1>3. a = CHOOSE x : Eq(x)
  BY Zenon DEF n
<1> HIDE DEF n, z, Op, a
<1>4. step \in [(1 .. n) \X Built -> Built]
  BY <1>2
<1>5. PICK g \in [0 .. n -> Built] : Goes(g, n, z, step)
  <2> HIDE DEF step
  <2> QED
    BY <1>1, <1>4, GoesAlong
<1>6. Eq(g)
  <2>1. ASSUME NEW k \in 1 .. n PROVE k \in 0 .. n /\ k # 0 /\ g[k] = Op(g[k - 1], k)
    <3>1. g[k] = step[<<k, g[k - 1]>>]
      BY <1>5 DEF Goes
    <3>2. k - 1 \in 0 .. n
      BY <1>1
    <3>3. g[k - 1] \in Built
      BY <1>5, <3>2
    <3> QED
      BY <1>1, <3>1, <3>3
  <2>2. g[0] = z
    BY <1>5 DEF Goes
  <2> DEFINE x == [k \in 0 .. n |-> IF k = 0 THEN z ELSE Op(g[k - 1], k)]
  <2>3. ASSUME NEW k \in 0 .. n PROVE g[k] = x[k]
    <3>1. CASE k = 0
      BY <2>2, <3>1
    <3>2. CASE k # 0
      <4>1. k \in 1 .. n
        BY <1>1, <3>2
      <4> QED
        BY <2>1, <4>1
    <3> QED
      BY <3>1, <3>2
  <2>4. g = [k \in 0 .. n |-> g[k]]
    BY <1>5
  <2>5. g = x
    BY <2>3, <2>4
  <2> QED
    BY <2>5
<1>7. Eq(a)
  <2> HIDE DEF Eq
  <2> QED
    BY <1>3, <1>6
<1>8. a[0] = z /\ \A k \in 1 .. n : a[k] = Op(a[k - 1], k)
  <2>1. 0 \in 0 .. n /\ \A k \in 1 .. n : k \in 0 .. n /\ k # 0
    BY <1>1
  <2> QED
    BY <1>7, <2>1
<1>9. a = [k \in 0 .. n |-> a[k]]
  BY <1>7
<1> HIDE DEF Eq
<1> DEFINE P == {k \in 0 .. n : a[k] \in Built}
<1>10. P = 0 .. n
  <2>1. ASSUME NEW k \in 1 .. n, k - 1 \in P PROVE k \in P
    <3>1. a[k - 1] \in Built /\ k \in 0 .. n
      BY <1>1, <2>1
    <3>2. Op(a[k - 1], k) \in Built
      BY <1>2, <3>1
    <3> QED
      BY <1>8, <3>1, <3>2
  <2>2. P \in SUBSET (0 .. n) /\ 0 \in P
    BY <1>1, <1>8
  <2> HIDE DEF P
  <2> QED
    BY <1>1, <2>1, <2>2, Climbs
<1>11. a \in [0 .. n -> Built]
  <2>1. \A k \in 0 .. n : a[k] \in Built
    BY <1>10 DEF P
  <2> HIDE DEF P
  <2>2. [k \in 0 .. n |-> a[k]] \in [0 .. n -> Built]
    BY <2>1
  <2> QED
    BY <1>9, <2>2
<1>12. ASSUME NEW k \in 1 .. n PROVE Len(a[k]) >= Len(a[k - 1])
  <2>1. text[k] \in Atoms /\ k - 1 \in 0 .. n /\ k \in 1 .. Len(text)
    BY <1>1 DEF n
  <2>2. a[k - 1] \in Built
    BY <1>11, <2>1
  <2>3. a[k] = PutGlyph(a[k - 1], text[k])
    BY <1>8 DEF Op
  <2> QED
    BY <2>1, <2>2, <2>3, PutGlyphs
<1> DEFINE Q == {k \in 0 .. n : here <= k => Len(a[here]) <= Len(a[k])}
<1>13. here \in 0 .. n
  BY DEF n
<1>14. \A k \in 0 .. n : Len(a[k]) \in Nat
  BY <1>11 DEF Built
<1>15. Q = 0 .. n
  <2>1. Q \in SUBSET (0 .. n) /\ 0 \in Q
    BY <1>1, <1>13, <1>14
  <2>2. ASSUME NEW k \in 1 .. n, k - 1 \in Q PROVE k \in Q
    <3>1. k \in 0 .. n /\ k - 1 \in 0 .. n /\ Len(a[k]) >= Len(a[k - 1])
      BY <1>1, <1>12
    <3>2. Len(a[k]) \in Nat /\ Len(a[k - 1]) \in Nat /\ Len(a[here]) \in Nat
      BY <1>13, <1>14, <3>1
    <3>3. CASE here = k
      BY <3>1, <3>2, <3>3
    <3>4. CASE here # k
      BY <1>13, <2>2, <3>1, <3>2, <3>4
    <3> QED
      BY <3>3, <3>4
  <2> HIDE DEF Q
  <2> QED
    BY <1>1, <2>1, <2>2, Climbs
<1>16. n \in Q /\ here <= n
  BY <1>1, <1>13, <1>15
<1>17. a[here] \in Built /\ a[n] \in Built /\ Len(a[here]) <= Len(a[n])
  BY <1>1, <1>11, <1>13, <1>16
<1> QED
  BY <1>17 DEF a, n

LEMMA FrameIs ==
  ASSUME InputOk
  PROVE  /\ Frame.rows \in Seq(FrameRows) /\ Len(Frame.rows) \in 1 .. Rows
         /\ Frame.at \in Nat \X Nat /\ Frame.at[1] < Len(Frame.rows)
<1> DEFINE begun == LET begun[m \in 0 .. Len(prompt)] ==
                          IF m = 0 THEN <<NoRow>> ELSE PutPrompt(begun[m - 1], prompt[m])
                    IN begun
           first == begun[Len(prompt)]
           f == LET upTo[m \in 0 .. Len(line)] ==
                      IF m = 0 THEN first ELSE PutGlyph(upTo[m - 1], line[m])
                IN upTo
<1>1. Frame = Viewport(WithLiterals(f[Len(line)]), f[cursor])
  BY Zenon DEF Frame
<1>2. prompt \in Seq(Atoms) /\ line \in Seq(Atoms) /\ cursor \in 0 .. Len(line)
  BY TextsAssumption DEF InputOk, Texts, Atoms
<1>3. begun \in [0 .. Len(prompt) -> Built]
  BY <1>2, PromptBuilt
<1> HIDE DEF begun
<1>4. first \in Built
  <2>1. Len(prompt) \in 0 .. Len(prompt)
    BY <1>2
  <2> QED
    BY <1>3, <2>1
<1> HIDE DEF first
<1>5. f = LET upTo[m \in 0 .. Len(line)] ==
                IF m = 0 THEN first ELSE PutGlyph(upTo[m - 1], line[m])
          IN upTo
  OBVIOUS
<1> HIDE DEF f
<1>6. /\ f[cursor] \in Built /\ f[Len(line)] \in Built
      /\ Len(f[cursor]) <= Len(f[Len(line)])
  BY <1>2, <1>4, <1>5, LineBuilt
<1> DEFINE built == WithLiterals(f[Len(line)])
<1>7. built \in Seq(FrameRows) /\ Len(built) = Len(f[Len(line)])
  BY <1>6, LiteralsAre DEF Built
<1> HIDE DEF built
<1>8. Len(f[cursor]) <= Len(built)
  BY <1>6, <1>7
<1> QED
  BY <1>1, <1>6, <1>7, <1>8, ViewportIs DEF built

-----------------------------------------------------------------------------
(* Plans: how low the cursor is behind their operations.                     *)

Spots == {<<>>} \cup (Nat \X Nat)
Plans == [ops : Seq(Ops), at : Spots]
Low(spot) == IF spot = <<>> THEN 0 ELSE spot[1]

Way(plan, A, h, o, e, k) ==
  /\ plan \in Plans /\ Low(plan.at) < e
  /\ Runs(plan.ops, A, Good(h, o, e, k, Low(plan.at)), Clear(h, o, e, k))

MaybeRow == {<<>>} \cup {<<row>> : row \in FrameRows}

LEMMA LowIs ==
  /\ \A spot \in Spots : Low(spot) \in Nat
  /\ \A r \in Nat, c \in Nat : <<r, c>> \in Spots /\ Low(<<r, c>>) = r /\ <<r, c>> # <<>>
  /\ \A place \in Nat \X Nat : place \in Spots /\ Low(place) = place[1]
  /\ <<>> \in Spots /\ Low(<<>>) = 0
<1>1. \A r, c : <<r, c>> # <<>>
  OBVIOUS
<1>2. \A spot \in Nat \X Nat : spot # <<>> /\ spot[1] \in Nat
  OBVIOUS
<1> QED
  BY <1>1, <1>2 DEF Spots, Low

LEMMA GoodShrinks ==
  ASSUME NEW h \in Seq(RowValues), NEW o, NEW e, NEW k, NEW a \in Nat, NEW b \in Nat, b <= a
  PROVE  Good(h, o, e, k, a) \subseteq Good(h, o, e, k, b)
<1> SUFFICES ASSUME NEW t \in Good(h, o, e, k, a) PROVE t \in Good(h, o, e, k, b)
  OBVIOUS
<1>1. t \in Clear(h, o, e, k) /\ RowOf(t, h) >= a /\ t \in Standing(h)
  BY DEF Good, Clear
<1>2. RowOf(t, h) \in Int
  BY <1>1, PlaceTypes
<1>3. RowOf(t, h) >= b
  BY <1>1, <1>2
<1> QED
  BY <1>1, <1>3 DEF Good

LEMMA LevelOpsAre ==
  LevelOps \subseteq Ops /\ \A ops \in Seq(LevelOps) : ops \in Seq(Ops)
<1>1. LevelOps \subseteq Ops
  BY DEF LevelOps, Ops, Controls
<1> QED
  BY <1>1, SeqMonotonic

\* A plan goes on with operations that stay where they are.
LEMMA GoesOn ==
  ASSUME NEW h \in Seq(RowValues), NEW o, NEW e \in Int, NEW k \in Int,
         NEW A \in SUBSET Terminals, NEW plan, Way(plan, A, h, o, e, k),
         NEW ops \in Seq(LevelOps), NEW spot \in Spots, Low(spot) <= Low(plan.at)
  PROVE  Way([ops |-> plan.ops \o ops, at |-> spot], A, h, o, e, k)
<1> DEFINE a == Low(plan.at)
           b == Low(spot)
           C == Clear(h, o, e, k)
           next == [ops |-> plan.ops \o ops, at |-> spot]
<1>1. /\ plan.ops \in Seq(Ops) /\ plan.at \in Spots /\ a < e
      /\ Runs(plan.ops, A, Good(h, o, e, k, a), C)
  BY DEF Way, Plans
<1>2. a \in Nat /\ b \in Nat /\ b <= a
  BY <1>1, LowIs
<1>3. ops \in Seq(Ops)
  BY LevelOpsAre
<1> HIDE DEF a, b
<1>4. Runs(ops, Good(h, o, e, k, a), Good(h, o, e, k, a), C)
  BY <1>2, LevelRuns
<1>5. Good(h, o, e, k, a) \in SUBSET Terminals
  BY GoodSets
<1>6. Runs(plan.ops \o ops, A, Good(h, o, e, k, a), C)
  BY <1>1, <1>3, <1>4, <1>5, RunsOn
<1>7. Runs(plan.ops \o ops, A, Good(h, o, e, k, b), C)
  <2>1. Good(h, o, e, k, a) \subseteq Good(h, o, e, k, b)
    BY <1>2, GoodShrinks
  <2> QED
    BY <1>6, <2>1, RunsWithin
<1>8. plan.ops \o ops \in Seq(Ops) /\ b < e
  BY <1>1, <1>2, <1>3
<1>9. next \in Plans /\ next.ops = plan.ops \o ops /\ next.at = spot
  BY <1>8 DEF Plans
<1> HIDE DEF next
<1> QED
  BY <1>7, <1>8, <1>9 DEF Way, b, next

LEMMA BetweenRuns ==
  ASSUME NEW h \in Seq(RowValues), NEW o, NEW e \in Int, NEW k \in Int,
         NEW start \in Nat \X Nat, NEW row \in Nat, NEW column \in Nat,
         row < e, NEW displayed \in MaybeRow
  PROVE  /\ OpsBetween(start, row, column, displayed) \in Seq(Ops)
         /\ Runs(OpsBetween(start, row, column, displayed),
                 Good(h, o, e, k, start[1]), Good(h, o, e, k, row), Clear(h, o, e, k))
<1> DEFINE turn == IF start[2] # 0 THEN <<"cr">> ELSE <<>>
           moves == IF start[1] < row THEN Repeat(row - start[1], "down")
                    ELSE Repeat(start[1] - row, "up")
           vertical == IF start[1] = row THEN <<>> ELSE turn \o moves
           from == IF start[1] = row THEN start[2] ELSE 0
           horizontal == CASE column < from -> Repeat(from - column, "left")
                           [] column = from -> <<>>
                           [] column > from /\ Has("right") -> Repeat(column - from, "right")
                           [] OTHER -> IF displayed = <<>> THEN Repeat(column - from, Padding)
                                       ELSE AtomRange(displayed[1], from, column, FALSE)
           C == Clear(h, o, e, k)
           G(a) == Good(h, o, e, k, a)
<1>1. OpsBetween(start, row, column, displayed) = vertical \o horizontal
  BY Zenon DEF OpsBetween
<1>2. start[1] \in Nat /\ start[2] \in Nat /\ from \in Nat
  OBVIOUS
<1>3. G(start[1]) \in SUBSET Terminals /\ G(row) \in SUBSET Terminals /\ G(start[1]) \subseteq C
  BY GoodSets
<1>4. vertical \in Seq(Ops) /\ Runs(vertical, G(start[1]), G(row), C)
  <2>1. CASE start[1] = row
    <3>1. Runs(<<>>, G(start[1]), G(row), C)
      <4> HIDE DEF G, C
      <4> QED
        BY <1>3, <2>1, RunsNone
    <3> QED
      BY <2>1, <3>1
  <2>2. CASE start[1] # row
    <3>1. turn \in Seq(LevelOps) /\ turn \in Seq(Ops)
      <4>1. <<"cr">> \in Seq(LevelOps) /\ <<>> \in Seq(LevelOps)
        BY DEF LevelOps
      <4> QED
        BY <4>1, LevelOpsAre
    <3>2. Runs(turn, G(start[1]), G(start[1]), C)
      <4> HIDE DEF turn
      <4> QED
        BY <1>2, <3>1, LevelRuns
    <3>3. moves \in Seq(Ops) /\ Runs(moves, G(start[1]), G(row), C)
      <4>1. CASE start[1] < row
        <5> DEFINE n == row - start[1]
        <5>1. n \in Nat /\ start[1] + n = row /\ start[1] + n < e
          BY <1>2, <4>1
        <5>2. "down" \in Ops
          BY DEF Ops, Controls
        <5> HIDE DEF n
        <5>3. Repeat(n, "down") \in Seq(Ops)
          BY <5>1, <5>2, Repeats
        <5>4. Runs(Repeat(n, "down"), G(start[1]), G(start[1] + n), C)
          BY <1>2, <5>1, DownRuns
        <5> QED
          BY <4>1, <5>1, <5>3, <5>4 DEF n
      <4>2. CASE ~(start[1] < row)
        <5> DEFINE n == start[1] - row
        <5>1. n \in 0 .. start[1] /\ start[1] - n = row /\ n \in Nat
          BY <1>2, <4>2
        <5>2. "up" \in Ops
          BY DEF Ops, Controls
        <5> HIDE DEF n
        <5>3. Repeat(n, "up") \in Seq(Ops)
          BY <5>1, <5>2, Repeats
        <5>4. Runs(Repeat(n, "up"), G(start[1]), G(start[1] - n), C)
          BY <1>2, <5>1, UpRuns
        <5> QED
          BY <4>2, <5>1, <5>3, <5>4 DEF n
      <4> QED
        BY <4>1, <4>2
    <3> HIDE DEF turn, moves, G, C
    <3>4. Runs(turn \o moves, G(start[1]), G(row), C)
      BY <1>3, <3>1, <3>2, <3>3, RunsOn
    <3>5. turn \o moves \in Seq(Ops)
      BY <3>1, <3>3
    <3> QED
      BY <2>2, <3>4, <3>5
  <2> QED
    BY <2>1, <2>2
<1> HIDE DEF vertical, from
<1>5. horizontal \in Seq(LevelOps)
  <2>1. "left" \in LevelOps /\ "right" \in LevelOps /\ Padding \in LevelOps
    BY DEF LevelOps, Atoms
  <2>2. CASE column < from
    <3>1. from - column \in Nat /\ ~(column = from) /\ ~(column > from)
      BY <1>2, <2>2
    <3>2. horizontal = Repeat(from - column, "left")
      BY <2>2, <3>1, Zenon
    <3> HIDE DEF horizontal
    <3> QED
      BY <2>1, <3>1, <3>2, Repeats
  <2>3. CASE column = from
    <3>1. ~(column < from) /\ ~(column > from)
      BY <1>2, <2>3
    <3>2. horizontal = <<>>
      BY <2>3, <3>1, Zenon
    <3> HIDE DEF horizontal
    <3> QED
      BY <3>2
  <2>4. CASE column > from
    <3>1. column - from \in Nat
      BY <1>2, <2>4
    <3>2. \/ horizontal = Repeat(column - from, "right")
          \/ horizontal = IF displayed = <<>> THEN Repeat(column - from, Padding)
                          ELSE AtomRange(displayed[1], from, column, FALSE)
      <4>1. ~(column < from) /\ ~(column = from)
        BY <1>2, <2>4
      <4> QED
        BY <2>4, <4>1, Zenon
    <3>3. /\ Repeat(column - from, "right") \in Seq(LevelOps)
          /\ Repeat(column - from, Padding) \in Seq(LevelOps)
      BY <2>1, <3>1, Repeats
    <3>4. displayed # <<>> => AtomRange(displayed[1], from, column, FALSE) \in Seq(LevelOps)
      <4>1. displayed # <<>> => displayed[1] \in FrameRows
        BY DEF MaybeRow
      <4>2. \A atoms \in Seq(Atoms) : atoms \in Seq(LevelOps)
        BY SeqMonotonic DEF LevelOps
      <4> QED
        BY <4>1, <4>2, AtomRangeIs
    <3> HIDE DEF horizontal
    <3> QED
      BY <3>2, <3>3, <3>4
  <2> HIDE DEF horizontal
  <2>5. column < from \/ column = from \/ column > from
    BY <1>2
  <2> QED
    BY <2>2, <2>3, <2>4, <2>5
<1> HIDE DEF horizontal
<1>6. Runs(horizontal, G(row), G(row), C) /\ horizontal \in Seq(Ops)
  BY <1>5, LevelRuns, LevelOpsAre
<1> HIDE DEF G, C
<1>7. Runs(vertical \o horizontal, G(start[1]), G(row), C)
  BY <1>3, <1>4, <1>6, RunsOn
<1>8. vertical \o horizontal \in Seq(Ops)
  BY <1>4, <1>6
<1> QED
  BY <1>1, <1>7, <1>8 DEF G, C

\* move_addressed_cursor
LEMMA MoveGoes ==
  ASSUME NEW h \in Seq(RowValues), NEW o, NEW e \in Int, NEW k \in Int,
         NEW A \in SUBSET Terminals, NEW plan, Way(plan, A, h, o, e, k),
         NEW row \in Nat, NEW column \in Nat, row < e, NEW displayed \in MaybeRow
  PROVE  /\ Way(MoveTo(plan, row, column, displayed, o), A, h, o, e, k)
         /\ Low(MoveTo(plan, row, column, displayed, o).at) = row
<1> DEFINE lost == plan.at = <<>>
           start == IF lost THEN <<0, 0>> ELSE plan.at
           begin == IF lost THEN ToOrigin(o) ELSE <<>>
           between == OpsBetween(start, row, column, displayed)
           C == Clear(h, o, e, k)
           G(a) == Good(h, o, e, k, a)
           next == MoveTo(plan, row, column, displayed, o)
<1>1. /\ plan.ops \in Seq(Ops) /\ plan.at \in Spots /\ Low(plan.at) < e
      /\ Runs(plan.ops, A, G(Low(plan.at)), C)
  BY DEF Way, Plans
<1>2. next = [ops |-> (plan.ops \o begin) \o between, at |-> <<row, column>>]
  BY Zenon DEF MoveTo
<1>3. \A a : G(a) \in SUBSET Terminals /\ G(a) \subseteq C
  BY GoodSets
<1>4. start \in Nat \X Nat
  BY <1>1 DEF Spots
<1>5. begin \in Seq(Ops) /\ Runs(plan.ops \o begin, A, G(start[1]), C)
  <2>1. CASE lost
    <3>1. Low(plan.at) = 0
      BY <2>1, LowIs
    <3>2. Runs(plan.ops, A, G(0), C)
      BY <1>1, <3>1
    <3>3. Runs(ToOrigin(o), G(0), G(0), C)
      BY OriginRuns, RunsWithin, GoodSets
    <3>4. begin = ToOrigin(o) /\ begin \in Seq(Ops) /\ start[1] = 0
      BY <2>1, OriginOps
    <3> HIDE DEF begin, G, C
    <3>5. Runs(plan.ops \o begin, A, G(0), C)
      BY <1>1, <1>3, <3>2, <3>3, <3>4, RunsOn
    <3> QED
      BY <3>4, <3>5
  <2>2. CASE ~lost
    <3>1. plan.ops \o <<>> = plan.ops /\ <<>> \in Seq(Ops)
      BY <1>1
    <3>2. start[1] = Low(plan.at)
      BY <2>2 DEF Low
    <3> QED
      BY <1>1, <2>2, <3>1, <3>2
  <2> QED
    BY <2>1, <2>2
<1>6. between \in Seq(Ops) /\ Runs(between, G(start[1]), G(row), C)
  <2> HIDE DEF start
  <2> QED
    BY <1>4, BetweenRuns
<1> HIDE DEF begin, between, start, G, C
<1>7. plan.ops \o begin \in Seq(Ops)
  BY <1>1, <1>5
<1>8. Runs((plan.ops \o begin) \o between, A, G(row), C)
  BY <1>3, <1>5, <1>6, <1>7, RunsOn
<1>9. (plan.ops \o begin) \o between \in Seq(Ops)
  BY <1>6, <1>7
<1>10. /\ next \in Plans /\ next.ops = (plan.ops \o begin) \o between
       /\ next.at = <<row, column>> /\ Low(next.at) = row
  BY <1>2, <1>9, LowIs DEF Plans
<1> HIDE DEF next
<1> QED
  BY <1>8, <1>10 DEF Way, G, C, next

LEMMA RowAtIs ==
  ASSUME NEW s \in Seq(FrameRows), NEW r \in Nat
  PROVE  RowAt(s, r) \in MaybeRow /\ UsedAt(s, r) \in Nat
<1>1. CASE r < Len(s)
  <2>1. s[r + 1] \in FrameRows
    BY <1>1
  <2>2. Used(s[r + 1]) \in Nat
    BY <2>1, UsedIs
  <2> QED
    BY <1>1, <2>1, <2>2 DEF RowAt, UsedAt, MaybeRow
<1>2. CASE ~(r < Len(s))
  BY <1>2 DEF RowAt, UsedAt, MaybeRow
<1> QED
  BY <1>1, <1>2

LEMMA UsedAtRow ==
  ASSUME NEW s \in Seq(FrameRows), NEW r \in Nat
  PROVE  /\ RowAt(s, r) # <<>> => UsedAt(s, r) = Used(RowAt(s, r)[1])
         /\ RowAt(s, r) = <<>> => UsedAt(s, r) = 0
<1>1. CASE r < Len(s)
  <2>1. RowAt(s, r) = <<s[r + 1]>> /\ UsedAt(s, r) = Used(s[r + 1])
    BY <1>1 DEF RowAt, UsedAt
  <2> DEFINE x == s[r + 1]
  <2> HIDE DEF x
  <2>2. <<x>>[1] = x /\ <<x>> # <<>>
    OBVIOUS
  <2> QED
    BY <2>1, <2>2 DEF x
<1>2. CASE ~(r < Len(s))
  BY <1>2 DEF RowAt, UsedAt
<1> QED
  BY <1>1, <1>2

\* first_changed_column
LEMMA FirstChangedIs ==
  ASSUME NEW old \in MaybeRow, NEW new \in MaybeRow
  PROVE  FirstChanged(old, new) = <<>> \/ \E c \in Nat : FirstChanged(old, new) = <<c>>
<1> DEFINE differ == {c \in 1 .. Columns : old # <<>> /\ new # <<>> /\ CellsOf(old[1])[c] # CellsOf(new[1])[c]}
           ends == IF old = <<>> \/ new = <<>> THEN {0}
                   ELSE {w \in {Used(old[1]), Used(new[1])} : w < Used(old[1]) \/ w < Used(new[1])}
           all == {c - 1 : c \in differ} \cup ends
           first == IF all = {} THEN 0 ELSE CHOOSE c \in all : \A d \in all : c <= d
<1>1. FirstChanged(old, new) = IF old = new THEN <<>> ELSE <<first>>
  BY Zenon DEF FirstChanged
<1>2. ends \in SUBSET Nat
  <2>1. CASE old = <<>> \/ new = <<>>
    BY <2>1
  <2>2. CASE ~(old = <<>> \/ new = <<>>)
    <3>1. old[1] \in FrameRows /\ new[1] \in FrameRows
      BY <2>2 DEF MaybeRow
    <3>2. Used(old[1]) \in Nat /\ Used(new[1]) \in Nat
      BY <3>1, UsedIs
    <3> QED
      BY <2>2, <3>2
  <2> QED
    BY <2>1, <2>2
<1>3. {c - 1 : c \in differ} \in SUBSET Nat
  OBVIOUS
<1>4. all \in SUBSET Nat
  BY <1>2, <1>3
<1> HIDE DEF all
<1>5. first \in Nat
  <2>1. CASE all = {}
    BY <2>1
  <2>2. CASE all # {}
    <3>1. \E c \in all : \A d \in all : c <= d
      BY <1>4, <2>2, LeastOf
    <3>2. first = CHOOSE c \in all : \A d \in all : c <= d
      BY <2>2
    <3> HIDE DEF first
    <3> QED
      BY <1>4, <3>1, <3>2
  <2> QED
    BY <2>1, <2>2
<1> HIDE DEF first
<1> QED
  BY <1>1, <1>5

LEMMA AtomsAreLevel == \A ops \in Seq(Atoms) : ops \in Seq(LevelOps)
  BY SeqMonotonic DEF LevelOps

\* The drawing of a row
LEMMA WrittenGoes ==
  ASSUME NEW h \in Seq(RowValues), NEW o, NEW e \in Int, NEW k \in Int,
         NEW A \in SUBSET Terminals, NEW moved, Way(moved, A, h, o, e, k),
         NEW r \in Nat, NEW start \in Nat, Low(moved.at) = r,
         NEW new \in MaybeRow, NEW used \in Nat
  PROVE  /\ Way(Written(moved, r, new, start, used), A, h, o, e, k)
         /\ used < Columns => Low(Written(moved, r, new, start, used).at) = r
<1>1. Low(moved.at) = r /\ moved.at \in Spots
  BY DEF Way, Plans
<1>2. CASE new = <<>>
  BY <1>1, <1>2 DEF Written
<1>3. CASE new # <<>>
  <2> DEFINE ops == AtomRange(new[1], start, used, TRUE)
             spot == IF used <= start THEN moved.at ELSE IF used < Columns THEN <<r, used>> ELSE <<>>
             next == [ops |-> moved.ops \o ops, at |-> spot]
  <2>1. Written(moved, r, new, start, used) = next
    BY <1>3 DEF Written
  <2>2. ops \in Seq(LevelOps)
    <3>1. new[1] \in FrameRows
      BY <1>3 DEF MaybeRow
    <3> QED
      BY <3>1, AtomRangeIs, AtomsAreLevel
  <2>3. /\ <<r, used>> \in Spots /\ Low(<<r, used>>) = r /\ <<>> \in Spots /\ Low(<<>>) = 0
    BY LowIs
  <2>4. spot \in Spots /\ Low(spot) <= Low(moved.at) /\ (used < Columns => Low(spot) = r)
    <3>1. spot = moved.at \/ spot = <<r, used>> \/ (spot = <<>> /\ ~(used < Columns))
      OBVIOUS
    <3> HIDE DEF spot
    <3> QED
      BY <1>1, <2>3, <3>1
  <2>5. next.at = spot
    OBVIOUS
  <2> HIDE DEF ops, spot
  <2>6. Way(next, A, h, o, e, k)
    BY <2>2, <2>4, GoesOn
  <2> QED
    BY <2>1, <2>4, <2>5, <2>6
<1> QED
  BY <1>2, <1>3

LEMMA ErasedGoes ==
  ASSUME NEW h \in Seq(RowValues), NEW o, NEW e \in Int, NEW k \in Int,
         NEW A \in SUBSET Terminals, NEW plan, Way(plan, A, h, o, e, k),
         NEW r \in Nat, Low(plan.at) = r, NEW used \in Nat, NEW eraseTo \in Nat, used <= eraseTo
  PROVE  Way(Erased(plan, r, used, eraseTo), A, h, o, e, k)
<1>1. plan \in Plans /\ plan.at \in Spots
  BY DEF Way, Plans
<1>2. CASE Has("clear")
  <2> DEFINE next == [ops |-> plan.ops \o <<"clear">>, at |-> plan.at]
  <2>1. Erased(plan, r, used, eraseTo) = next
    BY <1>1, <1>2 DEF Erased, Emitted, Plans
  <2>2. <<"clear">> \in Seq(LevelOps)
    BY DEF LevelOps
  <2>3. plan.at \in Spots /\ Low(plan.at) <= Low(plan.at)
    BY <1>1, LowIs
  <2>4. Way(next, A, h, o, e, k)
    BY <2>2, <2>3, GoesOn
  <2> QED
    BY <2>1, <2>4
<1>3. CASE ~Has("clear") /\ eraseTo = used
  BY <1>3 DEF Erased
<1>4. CASE ~Has("clear") /\ eraseTo # used
  <2> DEFINE n == eraseTo - used
             spot == IF eraseTo < Columns THEN <<r, eraseTo>> ELSE <<>>
  <2>1. Erased(plan, r, used, eraseTo) = [ops |-> plan.ops \o Repeat(n, Padding), at |-> spot]
    BY <1>4 DEF Erased
  <2>2. spot \in Spots /\ Low(spot) <= Low(plan.at)
    BY LowIs
  <2>3. Repeat(n, Padding) \in Seq(LevelOps)
    <3>1. n \in Nat /\ Padding \in LevelOps
      BY DEF LevelOps, Atoms
    <3> QED
      BY <3>1, Repeats
  <2> HIDE DEF n, spot
  <2> QED
    BY <2>1, <2>2, <2>3, GoesOn
<1> QED
  BY <1>2, <1>3, <1>4

LEMMA DrawnGoes ==
  ASSUME NEW h \in Seq(RowValues), NEW o, NEW e \in Int, NEW k \in Int,
         NEW A \in SUBSET Terminals, NEW plan, Way(plan, A, h, o, e, k),
         NEW r \in Nat, r < e, NEW start \in Nat,
         NEW new \in MaybeRow, NEW shows \in MaybeRow, NEW used \in Nat
  PROVE  /\ Way(Written(MoveTo(plan, r, start, shows, o), r, new, start, used), A, h, o, e, k)
         /\ used < Columns =>
              Low(Written(MoveTo(plan, r, start, shows, o), r, new, start, used).at) = r
<1> DEFINE moved == MoveTo(plan, r, start, shows, o)
<1>1. Way(moved, A, h, o, e, k) /\ Low(moved.at) = r
  BY MoveGoes
<1> HIDE DEF moved
<1>2. /\ Way(Written(moved, r, new, start, used), A, h, o, e, k)
      /\ used < Columns => Low(Written(moved, r, new, start, used).at) = r
  BY <1>1, WrittenGoes
<1> QED
  BY <1>2 DEF moved

LEMMA RowGoes ==
  ASSUME NEW h \in Seq(RowValues), NEW o, NEW e \in Int, NEW k \in Int,
         NEW A \in SUBSET Terminals, NEW plan, Way(plan, A, h, o, e, k),
         NEW r \in Nat, r < e, NEW frame, frame.rows \in Seq(FrameRows),
         NEW old \in Seq(FrameRows), NEW rewrite \in BOOLEAN, NEW erase \in BOOLEAN,
         NEW start \in Nat
  PROVE  Way(RewriteRow(plan, r, frame, old, o, rewrite, erase, start), A, h, o, e, k)
<1> DEFINE new == RowAt(frame.rows, r)
           used == UsedAt(frame.rows, r)
           oldUsed == UsedAt(old, r)
           shows == IF new # <<>> THEN new ELSE RowAt(old, r)
           moved == MoveTo(plan, r, start, shows, o)
           written == Written(moved, r, new, start, used)
           eraseTo == IF erase THEN Columns ELSE Larger(used, oldUsed)
<1>1. RewriteRow(plan, r, frame, old, o, rewrite, erase, start)
        = IF used < Columns /\ (rewrite \/ oldUsed > used)
          THEN Erased(written, r, used, eraseTo) ELSE written
  BY Zenon DEF RewriteRow
<1>2. /\ new \in MaybeRow /\ used \in Nat /\ oldUsed \in Nat /\ shows \in MaybeRow
      /\ Columns \in Nat
  BY RowAtIs, SizeAssumption
<1> HIDE DEF new, used, oldUsed, shows
<1>3. Way(written, A, h, o, e, k) /\ (used < Columns => Low(written.at) = r)
  BY ONLY <1>2, h \in Seq(RowValues), e \in Int, k \in Int, A \in SUBSET Terminals,
     Way(plan, A, h, o, e, k), r \in Nat, r < e, start \in Nat, DrawnGoes
<1> HIDE DEF written
<1>4. Way(written, A, h, o, e, k) /\ (used < Columns => Low(written.at) = r)
  BY <1>3
<1>5. eraseTo \in Nat /\ (used < Columns => used <= eraseTo)
  BY <1>2 DEF Larger
<1> HIDE DEF eraseTo
<1>6. used < Columns => Way(Erased(written, r, used, eraseTo), A, h, o, e, k)
  BY <1>2, <1>4, <1>5, ErasedGoes
<1> QED
  BY <1>1, <1>4, <1>6

LEMMA EncodedRowGoes ==
  ASSUME NEW h \in Seq(RowValues), NEW o, NEW e \in Int, NEW k \in Int,
         NEW A \in SUBSET Terminals, NEW plan, Way(plan, A, h, o, e, k),
         NEW r \in Nat, r < e, NEW frame, frame.rows \in Seq(FrameRows),
         NEW old \in Seq(FrameRows), NEW rewrite \in BOOLEAN, NEW erase \in BOOLEAN
  PROVE  Way(EncodeRow(plan, r, frame, old, o, rewrite, erase), A, h, o, e, k)
<1> DEFINE changed == FirstChanged(RowAt(old, r), RowAt(frame.rows, r))
           start == IF rewrite \/ changed[1] >= Columns THEN 0 ELSE changed[1]
<1>1. EncodeRow(plan, r, frame, old, o, rewrite, erase)
        = IF ~rewrite /\ changed = <<>> THEN plan
          ELSE RewriteRow(plan, r, frame, old, o, rewrite, erase, start)
  BY Zenon DEF EncodeRow
<1>2. changed = <<>> \/ \E c \in Nat : changed = <<c>>
  BY RowAtIs, FirstChangedIs
<1> HIDE DEF changed
<1>3. rewrite \/ changed # <<>> => start \in Nat
  BY <1>2
<1> HIDE DEF start
<1>4. start \in Nat => Way(RewriteRow(plan, r, frame, old, o, rewrite, erase, start), A, h, o, e, k)
  BY RowGoes
<1> QED
  BY <1>1, <1>3, <1>4

\* What is planned behind each row.
Drawn(begin, count, frame, old, o, rewrite, erase) ==
  LET drawn[m \in 0 .. count] ==
        IF m = 0 THEN begin
        ELSE EncodeRow(drawn[m - 1], m - 1, frame, old, o, rewrite, erase)
  IN drawn

LEMMA RowsGo ==
  ASSUME NEW h \in Seq(RowValues), NEW o, NEW e \in Int, NEW top \in Int,
         NEW A \in SUBSET Terminals, NEW begin, Way(begin, A, h, o, e, top),
         NEW count \in Nat, count <= e, NEW frame, frame.rows \in Seq(FrameRows),
         NEW old \in Seq(FrameRows), NEW rewrite \in BOOLEAN, NEW erase \in BOOLEAN
  PROVE  Way(Drawn(begin, count, frame, old, o, rewrite, erase)[count], A, h, o, e, top)
<1> DEFINE Ways == {plan \in Plans : Way(plan, A, h, o, e, top)}
<1> DEFINE n == count
           z == begin
           Op(v, k) == EncodeRow(v, k - 1, frame, old, o, rewrite, erase)
           step == [p \in (1 .. n) \X Ways |-> Op(p[2], p[1])]
           Eq(x) == x = [k \in 0 .. n |-> IF k = 0 THEN z ELSE Op(x[k - 1], k)]
           a == Drawn(begin, count, frame, old, o, rewrite, erase)
<1>1. n \in Nat /\ z \in Ways
  BY DEF Way
<1>2. ASSUME NEW k \in 1 .. n, NEW v \in Ways PROVE Op(v, k) \in Ways
  <2>1. k - 1 \in Nat /\ k - 1 < e /\ Way(v, A, h, o, e, top)
    OBVIOUS
  <2>2. Way(EncodeRow(v, k - 1, frame, old, o, rewrite, erase), A, h, o, e, top)
    BY <2>1, EncodedRowGoes
  <2> QED
    BY <2>2 DEF Way
<1>3. a = CHOOSE x : Eq(x)
  BY Zenon DEF Drawn, n
<1> HIDE DEF n, z, Op, a
<1>4. step \in [(1 .. n) \X Ways -> Ways]
  BY <1>2
<1>5. PICK g \in [0 .. n -> Ways] : Goes(g, n, z, step)
  <2> HIDE DEF step
  <2> QED
    BY <1>1, <1>4, GoesAlong
<1>6. Eq(g)
  <2>1. ASSUME NEW k \in 1 .. n PROVE k \in 0 .. n /\ k # 0 /\ g[k] = Op(g[k - 1], k)
    <3>1. g[k] = step[<<k, g[k - 1]>>]
      BY <1>5 DEF Goes
    <3>2. k - 1 \in 0 .. n
      BY <1>1
    <3>3. g[k - 1] \in Ways
      BY <1>5, <3>2
    <3> QED
      BY <1>1, <3>1, <3>3
  <2>2. g[0] = z
    BY <1>5 DEF Goes
  <2> DEFINE x == [k \in 0 .. n |-> IF k = 0 THEN z ELSE Op(g[k - 1], k)]
  <2>3. ASSUME NEW k \in 0 .. n PROVE g[k] = x[k]
    <3>1. CASE k = 0
      BY <2>2, <3>1
    <3>2. CASE k # 0
      <4>1. k \in 1 .. n
        BY <1>1, <3>2
      <4> QED
        BY <2>1, <4>1
    <3> QED
      BY <3>1, <3>2
  <2>4. g = [k \in 0 .. n |-> g[k]]
    BY <1>5
  <2>5. g = x
    BY <2>3, <2>4
  <2> QED
    BY <2>5
<1>7. Eq(a)
  <2> HIDE DEF Eq
  <2> QED
    BY <1>3, <1>6
<1>8. a[0] = z /\ \A k \in 1 .. n : a[k] = Op(a[k - 1], k)
  <2>1. 0 \in 0 .. n /\ \A k \in 1 .. n : k \in 0 .. n /\ k # 0
    BY <1>1
  <2> QED
    BY <1>7, <2>1
<1>9. a = [k \in 0 .. n |-> a[k]]
  BY <1>7
<1> HIDE DEF Eq
<1> DEFINE P == {k \in 0 .. n : a[k] \in Ways}
<1>10. P = 0 .. n
  <2>1. ASSUME NEW k \in 1 .. n, k - 1 \in P PROVE k \in P
    <3>1. a[k - 1] \in Ways /\ k \in 0 .. n
      BY <1>1, <2>1
    <3>2. Op(a[k - 1], k) \in Ways
      BY <1>2, <3>1
    <3> QED
      BY <1>8, <3>1, <3>2
  <2>2. P \in SUBSET (0 .. n) /\ 0 \in P
    BY <1>1, <1>8
  <2> HIDE DEF P
  <2> QED
    BY <1>1, <2>1, <2>2, Climbs
<1>11. a \in [0 .. n -> Ways]
  <2>1. \A k \in 0 .. n : a[k] \in Ways
    BY <1>10 DEF P
  <2> HIDE DEF P
  <2>2. [k \in 0 .. n |-> a[k]] \in [0 .. n -> Ways]
    BY <2>1
  <2> QED
    BY <1>9, <2>2
<1>12. count \in 0 .. n
  BY <1>1 DEF n
<1> QED
  BY <1>11, <1>12 DEF a

-----------------------------------------------------------------------------
(* All of what a frame is displayed with.                                    *)

LEMMA WayRuns ==
  ASSUME NEW h, NEW o, NEW e, NEW k, NEW A, NEW plan, Way(plan, A, h, o, e, k)
  PROVE  /\ plan.ops \in Seq(Ops) /\ plan.at \in Spots
         /\ Runs(plan.ops, A, Good(h, o, e, k, Low(plan.at)), Clear(h, o, e, k))
  BY DEF Way, Plans

LEMMA WayBegins ==
  ASSUME NEW h \in Seq(RowValues), NEW o, NEW e \in Int, NEW k \in Int,
         NEW from \in Nat \X Nat, from[1] < e, e > 0
  PROVE  /\ Way([ops |-> ToOrigin(o), at |-> <<0, 0>>], Clear(h, o, e, k), h, o, e, k)
         /\ Way([ops |-> <<>>, at |-> from], Good(h, o, e, k, from[1]), h, o, e, k)
<1> DEFINE C == Clear(h, o, e, k)
           G(a) == Good(h, o, e, k, a)
           p == [ops |-> ToOrigin(o), at |-> <<0, 0>>]
           q == [ops |-> <<>>, at |-> from]
<1>1. p \in Plans /\ Low(p.at) = 0
  BY OriginOps, LowIs DEF Plans
<1>2. Runs(p.ops, C, G(0), C)
  BY OriginRuns
<1>3. q \in Plans /\ Low(q.at) = from[1]
  BY LowIs DEF Plans
<1>4. Runs(q.ops, G(from[1]), G(from[1]), C)
  <2>1. G(from[1]) \in SUBSET Terminals /\ G(from[1]) \subseteq C
    BY GoodSets
  <2> HIDE DEF G, C
  <2>2. Runs(<<>>, G(from[1]), G(from[1]), C)
    BY <2>1, RunsNone
  <2> QED
    BY <2>2
<1>5. Way(p, C, h, o, e, k)
  <2> HIDE DEF p
  <2> QED
    BY <1>1, <1>2 DEF Way
<1>6. Way(q, G(from[1]), h, o, e, k)
  <2> HIDE DEF q
  <2> QED
    BY <1>3, <1>4 DEF Way
<1> QED
  BY <1>5, <1>6

\* From a place of the region, or from wherever its origin can be reached, to the
\* frame's cursor.
LEMMA EncodedRuns ==
  ASSUME NEW h \in Seq(RowValues), NEW owned, owned.extent \in Nat \ {0}, NEW k \in Int,
         NEW frame, frame.rows \in Seq(FrameRows), frame.at \in Nat \X Nat,
         frame.at[1] < Len(frame.rows), Len(frame.rows) <= owned.extent,
         NEW old \in Seq(FrameRows), Len(old) <= owned.extent,
         NEW from \in Nat \X Nat, from[1] < owned.extent,
         NEW again \in BOOLEAN, NEW whole \in BOOLEAN
  PROVE  /\ EncodeAddressed(frame, old, from, owned, again, whole) \in Seq(Ops)
         /\ Runs(EncodeAddressed(frame, old, from, owned, again, whole),
                 IF whole THEN Clear(h, owned.origin, owned.extent, k)
                 ELSE Good(h, owned.origin, owned.extent, k, from[1]),
                 Good(h, owned.origin, owned.extent, k, frame.at[1]),
                 Clear(h, owned.origin, owned.extent, k))
<1> DEFINE o == owned.origin
           e == owned.extent
           C == Clear(h, o, e, k)
           G(a) == Good(h, o, e, k, a)
           A == IF whole THEN C ELSE G(from[1])
           begin == IF whole THEN [ops |-> ToOrigin(o), at |-> <<0, 0>>]
                    ELSE [ops |-> <<>>, at |-> from]
           other == IF whole THEN e ELSE Len(old)
           count == IF other > Len(frame.rows) THEN other ELSE Len(frame.rows)
           rewrite == again \/ whole
           f == Drawn(begin, count, frame, old, o, rewrite, whole)
           plan == f[count]
           row == frame.at[1]
           column == frame.at[2]
           displayed == RowAt(frame.rows, row)
           moved == MoveTo(plan, row, column, displayed, o)
           ops == IF plan.at = frame.at THEN plan.ops ELSE moved.ops
<1>1. EncodeAddressed(frame, old, from, owned, again, whole) = ops
  BY Zenon DEF EncodeAddressed, Drawn
<1>2. /\ e \in Int /\ e > 0 /\ count \in Nat /\ count <= e /\ row \in Nat /\ frame.at[2] \in Nat
      /\ row < e
  OBVIOUS
<1>3. rewrite \in BOOLEAN
  OBVIOUS
<1>4. A \in SUBSET Terminals
  BY GoodSets
<1>5. Way(begin, A, h, o, e, k)
  <2>1. /\ Way([ops |-> ToOrigin(o), at |-> <<0, 0>>], C, h, o, e, k)
        /\ Way([ops |-> <<>>, at |-> from], G(from[1]), h, o, e, k)
    <3> HIDE DEF o, e
    <3>1. from[1] < e
      BY DEF e
    <3> QED
      BY <1>2, <3>1, WayBegins
  <2> QED
    BY <2>1
<1> HIDE DEF begin, A, count, rewrite, C, G
<1>6. old \in Seq(FrameRows) /\ whole \in BOOLEAN /\ frame.rows \in Seq(FrameRows)
  OBVIOUS
<1>7. Way(plan, A, h, o, e, k)
  <2> HIDE DEF o, e
  <2> QED
    BY <1>2, <1>3, <1>4, <1>5, <1>6, RowsGo
<1> HIDE DEF plan, f
<1> USE DEF C, G
<1>8. plan.ops \in Seq(Ops) /\ plan.at \in Spots /\ Runs(plan.ops, A, G(Low(plan.at)), C)
  BY <1>7, WayRuns
<1>9. RowAt(frame.rows, row) \in MaybeRow
  BY <1>2, RowAtIs
<1>10. Way(moved, A, h, o, e, k) /\ Low(moved.at) = row
  <2>1. /\ h \in Seq(RowValues) /\ e \in Int /\ k \in Int /\ row \in Nat /\ column \in Nat
        /\ row < e /\ displayed \in MaybeRow
    BY <1>2, <1>9
  <2> HIDE DEF o, e, row, column, displayed, C, G
  <2> QED
    BY ONLY <1>4, <1>7, <2>1, MoveGoes DEF moved
<1> HIDE DEF moved
<1> USE DEF ops
<1>11. moved.ops \in Seq(Ops) /\ Runs(moved.ops, A, G(row), C)
  BY <1>10, WayRuns
<1>12. plan.at = frame.at => Low(plan.at) = row
  BY LowIs
<1>13. ops \in Seq(Ops) /\ Runs(ops, A, G(row), C)
  <2> HIDE DEF G, C, row
  <2> QED
    BY <1>8, <1>11, <1>12
<1> HIDE DEF ops
<1> QED
  BY <1>1, <1>13 DEF A

\* A profile that cannot address stays on its row.
LEMMA PlainIsLevel ==
  ASSUME NEW frame, frame.rows \in Seq(FrameRows), frame.at \in Nat \X Nat,
         Len(frame.rows) >= 1, NEW old \in Seq(FrameRows), NEW from \in Nat \X Nat,
         NEW again \in BOOLEAN, NEW whole \in BOOLEAN
  PROVE  EncodePlain(frame, old, from, again, whole) \in Seq(LevelOps)
<1> DEFINE row == frame.rows[1]
           column == frame.at[2]
           before == old[1]
<1>1. row \in FrameRows /\ column \in Nat /\ from[2] \in Nat /\ Columns \in Nat
  BY SizeAssumption
<1>2. old # <<>> => before \in FrameRows
  OBVIOUS
<1> HIDE DEF row, column, before
<1>3. /\ {"cr", "left", "clear"} \subseteq LevelOps /\ Atoms \subseteq LevelOps
      /\ Padding \in LevelOps
  BY DEF LevelOps, Atoms
<1>4. ASSUME NEW a, NEW b, NEW n, NEW w \in FrameRows PROVE AtomRange(w, a, b, n) \in Seq(LevelOps)
  BY AtomRangeIs, AtomsAreLevel
<1>5. /\ <<"cr">> \in Seq(LevelOps) /\ <<"clear">> \in Seq(LevelOps) /\ <<>> \in Seq(LevelOps)
      /\ \A s, t \in Seq(LevelOps) : s \o t \in Seq(LevelOps)
  BY <1>3
<1>6. ASSUME NEW n \in Nat, NEW m \in Nat PROVE PlainTo(row, n, m) \in Seq(LevelOps)
  <2> DEFINE left == Repeat(n - m, "left")
             restart == <<"cr">> \o AtomRange(row, 0, m, TRUE)
  <2>1. PlainTo(row, n, m) = IF n <= m THEN <<>>
          ELSE IF n - m = 1 \/ Len(left) <= Len(restart) THEN left ELSE restart
    BY DEF PlainTo
  <2>2. restart \in Seq(LevelOps)
    BY <1>1, <1>4, <1>5
  <2>3. ~(n <= m) => left \in Seq(LevelOps)
    <3> SUFFICES ASSUME ~(n <= m) PROVE left \in Seq(LevelOps)
      OBVIOUS
    <3>1. n - m \in Nat
      OBVIOUS
    <3>2. "left" \in LevelOps
      BY <1>3
    <3> QED
      BY <3>1, <3>2, Repeats
  <2> HIDE DEF left, restart
  <2> QED
    BY <1>5, <2>1, <2>2, <2>3
<1>7. row.literals \in Seq(LevelOps) /\ row.atoms \in Seq(LevelOps) /\ Used(row) \in Nat
  BY <1>1, AtomsAreLevel, UsedIs DEF FrameRows
<1>8. ASSUME NEW oldUsed \in Nat, NEW all \in BOOLEAN
      PROVE  PlainRedraw(row, oldUsed, column, all) \in Seq(LevelOps)
  <2> DEFINE used == Used(row)
             eraseTo == IF all THEN Columns ELSE IF oldUsed > used THEN oldUsed ELSE used
             erased == IF Has("clear") THEN <<"clear">> ELSE Repeat(eraseTo - used, Padding)
             end == IF Has("clear") THEN used ELSE eraseTo
  <2>1. PlainRedraw(row, oldUsed, column, all)
          = <<"cr">> \o row.literals \o row.atoms \o erased \o PlainTo(row, end, column)
    BY Zenon DEF PlainRedraw
  <2>2. eraseTo \in Nat /\ used \in Nat /\ end \in Nat
    BY <1>1, <1>7
  <2>3. erased \in Seq(LevelOps)
    <3> HIDE DEF used, eraseTo
    <3>1. Repeat(eraseTo - used, Padding) \in Seq(LevelOps)
      <4> DEFINE n == eraseTo - used
      <4>1. CASE n >= 0
        <5>1. n \in Nat
          BY <2>2, <4>1
        <5> HIDE DEF n
        <5>2. Repeat(n, Padding) \in Seq(LevelOps)
          BY <1>3, <5>1, Repeats
        <5> QED
          BY <5>2 DEF n
      <4>2. CASE ~(n >= 0)
        <5>1. n \in Int /\ 1 .. n = {}
          BY <2>2, <4>2
        <5>2. Repeat(n, Padding) = <<>>
          BY <5>1 DEF Repeat
        <5> QED
          BY <1>5, <5>2
      <4> QED
        BY <4>1, <4>2
    <3> QED
      BY <1>5, <3>1
  <2> HIDE DEF erased, end
  <2>4. PlainTo(row, end, column) \in Seq(LevelOps)
    BY <1>1, <1>6, <2>2
  <2>5. <<"cr">> \o row.literals \in Seq(LevelOps)
    BY <1>5, <1>7
  <2>6. <<"cr">> \o row.literals \o row.atoms \in Seq(LevelOps)
    BY <1>5, <1>7, <2>5
  <2>7. <<"cr">> \o row.literals \o row.atoms \o erased \in Seq(LevelOps)
    BY <1>5, <2>3, <2>6
  <2> QED
    BY <1>5, <2>1, <2>4, <2>7
<1> DEFINE E == EncodePlain(frame, old, from, again, whole)
<1>9. \/ E = PlainRedraw(row, 0, column, TRUE)
      \/ E = row.literals \o row.atoms \o PlainTo(row, Used(row), column)
      \/ old # <<>> /\ E = PlainRedraw(row, Used(before), column, FALSE)
      \/ E = PlainTo(row, from[2], column)
      \/ E = AtomRange(row, from[2], column, TRUE)
      \/ E = <<"cr">> \o AtomRange(row, 0, column, TRUE)
  <2> DEFINE appended == /\ from[2] = Used(before) /\ column = Used(row) /\ Used(row) >= Used(before)
                         /\ \A c \in 1..Used(before) : CellsOf(before)[c] = CellsOf(row)[c]
             otherwise == IF row = before
                          THEN IF column < from[2] THEN PlainTo(row, from[2], column)
                               ELSE IF column > from[2] THEN AtomRange(row, from[2], column, TRUE)
                               ELSE <<"cr">> \o AtomRange(row, 0, column, TRUE)
                          ELSE IF appended THEN AtomRange(row, from[2], column, TRUE)
                          ELSE PlainRedraw(row, Used(before), column, FALSE)
  <2>1. E = CASE whole -> PlainRedraw(row, 0, column, TRUE)
              [] ~whole /\ old = <<>> -> row.literals \o row.atoms \o PlainTo(row, Used(row), column)
              [] ~whole /\ old # <<>> /\ again -> PlainRedraw(row, Used(before), column, FALSE)
              [] OTHER -> otherwise
    BY Zenon DEF EncodePlain, row, column, before
  <2> HIDE DEF E, appended
  <2>2. \/ otherwise = PlainRedraw(row, Used(before), column, FALSE)
        \/ otherwise = PlainTo(row, from[2], column)
        \/ otherwise = AtomRange(row, from[2], column, TRUE)
        \/ otherwise = <<"cr">> \o AtomRange(row, 0, column, TRUE)
    BY Zenon
  <2> HIDE DEF otherwise
  <2>3. CASE whole
    BY Zenon, <2>1, <2>3
  <2>4. CASE ~whole /\ old = <<>>
    BY Zenon, <2>1, <2>4
  <2>5. CASE ~whole /\ old # <<>> /\ again
    BY Zenon, <2>1, <2>5
  <2>6. CASE ~whole /\ old # <<>> /\ ~again
    <3>1. E = otherwise
      BY Zenon, <2>1, <2>6
    <3> QED
      BY <2>2, <2>6, <3>1
  <2> QED
    BY <2>3, <2>4, <2>5, <2>6
<1> HIDE DEF E
<1>10. row.literals \o row.atoms \o PlainTo(row, Used(row), column) \in Seq(LevelOps)
  <2>1. PlainTo(row, Used(row), column) \in Seq(LevelOps)
    BY <1>1, <1>6, <1>7
  <2>2. row.literals \o row.atoms \in Seq(LevelOps)
    BY <1>5, <1>7
  <2> QED
    BY <1>5, <2>1, <2>2
<1>11. PlainRedraw(row, 0, column, TRUE) \in Seq(LevelOps)
  <2>1. 0 \in Nat /\ TRUE \in BOOLEAN
    OBVIOUS
  <2> QED
    BY <1>8, <2>1
<1>12. old # <<>> => PlainRedraw(row, Used(before), column, FALSE) \in Seq(LevelOps)
  <2>1. old # <<>> => Used(before) \in Nat
    BY <1>2, UsedIs
  <2>2. FALSE \in BOOLEAN
    OBVIOUS
  <2> QED
    BY <1>8, <2>1, <2>2
<1>13. /\ PlainTo(row, from[2], column) \in Seq(LevelOps)
       /\ AtomRange(row, from[2], column, TRUE) \in Seq(LevelOps)
  BY <1>1, <1>4, <1>6
<1>14. <<"cr">> \o AtomRange(row, 0, column, TRUE) \in Seq(LevelOps)
  BY <1>1, <1>4, <1>5
<1>15. E \in Seq(LevelOps)
  BY <1>9, <1>10, <1>11, <1>12, <1>13, <1>14
<1> QED
  BY <1>15 DEF E

-----------------------------------------------------------------------------
(* Making room for a region, and anchoring its origin.                       *)

\* The cursor is at row m or below.
Reach(h, m) == {t \in Standing(h) : RowOf(t, h) >= m}

\* The cursor went up u rows, from row r or below.
Raised(h, r, u) ==
  {t \in Standing(h) : /\ RowOf(t, h) >= r - u /\ Bottom(t, h) >= r
                       /\ t.at[1] = 0 \/ t.at[1] + u <= Rows - 1}

LEMMA ReachSets ==
  ASSUME NEW h, NEW m, NEW u
  PROVE  /\ Reach(h, m) \in SUBSET Terminals /\ Reach(h, m) \subseteq Standing(h)
         /\ Raised(h, m, u) \in SUBSET Terminals /\ Raised(h, m, u) \subseteq Standing(h)
         /\ Standing(h) \in SUBSET Terminals
  BY GoodSets DEF Reach, Raised

LEMMA FeedRuns ==
  ASSUME NEW h \in Seq(RowValues), NEW m \in Nat, NEW n \in Nat
  PROVE  Runs(Repeat(n, "nl"), Reach(h, m), Reach(h, m + n), Standing(h))
<1> DEFINE ops == Repeat(n, "nl")
           sets == [i \in 0 .. n |-> Reach(h, m + i)]
<1>1. ops \in Seq(Ops) /\ Len(ops) = n /\ \A i \in 1 .. n : ops[i] = "nl"
  <2>1. "nl" \in Ops
    BY DEF Ops, Controls
  <2> QED
    BY <2>1, Repeats
<1>2. /\ sets \in [0 .. n -> SUBSET Terminals]
      /\ \A i \in 0 .. n : sets[i] = Reach(h, m + i) /\ sets[i] \subseteq Standing(h)
  BY ReachSets
<1> HIDE DEF ops, sets
<1>3. ASSUME NEW i \in 1 .. n, NEW t \in sets[i - 1] PROVE Does(t, ops[i]) \in sets[i]
  <2>1. i - 1 \in 0 .. n /\ i \in 0 .. n
    OBVIOUS
  <2>2. t \in Standing(h) /\ RowOf(t, h) >= m + (i - 1)
    BY <1>2, <2>1 DEF Reach
  <2> DEFINE u == NewLine(t)
  <2>3. Does(t, "nl") = u
    <3>1. "nl" # "cr" /\ "nl" # "up" /\ "nl" # "down" /\ "nl" # "left" /\ "nl" # "right"
      OBVIOUS
    <3>2. "nl" # "save" /\ "nl" # "restore" /\ "nl" # "clear" /\ "nl" \notin Literals
      BY DEF Literals
    <3> QED
      BY Zenon, <3>1, <3>2 DEF Does
  <2>4. u \in Standing(h) /\ Len(u.above) + u.at[1] = Len(t.above) + t.at[1] + 1
    BY <2>2, NewLines DEF Fed
  <2> HIDE DEF u
  <2> DEFINE ta == Len(t.above)
             tr == t.at[1]
             ua == Len(u.above)
             ur == u.at[1]
             hn == Len(h)
  <2>5. /\ ta \in Nat /\ hn \in Nat /\ tr \in Int /\ ua \in Nat /\ ur \in Int
    BY <2>2, <2>4, PlaceTypes
  <2>6. RowOf(t, h) = ta + tr - hn /\ RowOf(u, h) = ua + ur - hn
    BY DEF RowOf
  <2>7. ua + ur = ta + tr + 1
    BY <2>4
  <2> HIDE DEF ta, tr, ua, ur, hn
  <2>8. RowOf(u, h) >= m + i
    BY <2>2, <2>5, <2>6, <2>7
  <2> QED
    BY <1>1, <1>2, <2>1, <2>3, <2>4, <2>8 DEF Reach
<1>4. Runs(ops, sets[0], sets[Len(ops)], Standing(h))
  BY <1>1, <1>2, <1>3, RunsChained
<1>5. sets[0] = Reach(h, m + 0) /\ m + 0 = m /\ sets[n] = Reach(h, m + n)
  BY <1>2
<1> QED
  BY <1>1, <1>4, <1>5 DEF ops

LEMMA RaiseOne ==
  ASSUME NEW h \in Seq(RowValues), NEW r \in Nat, NEW u \in Nat, NEW t \in Raised(h, r, u)
  PROVE  Does(t, "up") \in Raised(h, r, u + 1)
<1> DEFINE v == Does(t, "up")
<1>1. /\ t \in Standing(h) /\ RowOf(t, h) >= r - u /\ Bottom(t, h) >= r
      /\ t.at[1] = 0 \/ t.at[1] + u <= Rows - 1
  BY DEF Raised
<1>2. /\ v \in Standing(h) /\ v.above = t.above
      /\ v.at[1] = IF t.at[1] = 0 THEN 0 ELSE t.at[1] - 1
  BY <1>1, DoesMoves
<1> HIDE DEF v
<1> DEFINE ta == Len(t.above)
           tr == t.at[1]
           vr == v.at[1]
           hn == Len(h)
<1>3. /\ ta \in Nat /\ hn \in Nat /\ tr \in 0 .. (Rows - 1) /\ Rows \in Nat
  BY <1>1, PlaceTypes
<1>4. RowOf(t, h) = ta + tr - hn /\ RowOf(v, h) = ta + vr - hn /\ Bottom(v, h) = Bottom(t, h)
  BY <1>2 DEF RowOf, Bottom
<1> HIDE DEF ta, hn
<1>5. RowOf(v, h) >= r - (u + 1) /\ (vr = 0 \/ vr + (u + 1) <= Rows - 1)
  <2>1. CASE tr = 0
    BY <1>1, <1>2, <1>3, <1>4, <2>1
  <2>2. CASE tr # 0
    <3>1. vr = tr - 1 /\ tr + u <= Rows - 1 /\ tr \in Int
      BY <1>1, <1>2, <1>3, <2>2
    <3>2. RowOf(t, h) >= r - u
      BY <1>1
    <3> HIDE DEF vr, tr
    <3>3. RowOf(v, h) = RowOf(t, h) - 1 /\ RowOf(t, h) \in Int
      BY <1>3, <1>4, <3>1
    <3> QED
      BY <1>3, <3>1, <3>2, <3>3
  <2> QED
    BY <2>1, <2>2
<1> QED
  BY <1>1, <1>2, <1>4, <1>5 DEF Raised, v

LEMMA RaiseRuns ==
  ASSUME NEW h \in Seq(RowValues), NEW r \in Nat
  PROVE  Runs(Repeat(r, "up"), Reach(h, r), Raised(h, r, r), Standing(h))
<1> DEFINE ops == Repeat(r, "up")
           sets == [i \in 0 .. r |-> Raised(h, r, i)]
<1>1. ops \in Seq(Ops) /\ Len(ops) = r /\ \A i \in 1 .. r : ops[i] = "up"
  <2>1. "up" \in Ops
    BY DEF Ops, Controls
  <2> QED
    BY <2>1, Repeats
<1>2. /\ sets \in [0 .. r -> SUBSET Terminals]
      /\ \A i \in 0 .. r : sets[i] = Raised(h, r, i) /\ sets[i] \subseteq Standing(h)
  BY ReachSets
<1> HIDE DEF ops, sets
<1>3. ASSUME NEW i \in 1 .. r, NEW t \in sets[i - 1] PROVE Does(t, ops[i]) \in sets[i]
  <2>1. i - 1 \in 0 .. r /\ i \in 0 .. r /\ i - 1 \in Nat /\ (i - 1) + 1 = i
    OBVIOUS
  <2>2. Does(t, "up") \in Raised(h, r, (i - 1) + 1)
    BY <1>2, <2>1, RaiseOne
  <2> QED
    BY <1>1, <1>2, <2>1, <2>2
<1>4. Runs(ops, sets[0], sets[Len(ops)], Standing(h))
  BY <1>1, <1>2, <1>3, RunsChained
<1>5. Reach(h, r) \in SUBSET sets[0]
  <2> SUFFICES ASSUME NEW t \in Reach(h, r) PROVE t \in Raised(h, r, 0)
    BY <1>2
  <2>1. t \in Standing(h) /\ RowOf(t, h) >= r
    BY DEF Reach
  <2>2. /\ RowOf(t, h) \in Int /\ Bottom(t, h) \in Int /\ RowOf(t, h) <= Bottom(t, h)
        /\ t.at[1] \in 0 .. (Rows - 1) /\ Rows \in Nat
    BY <2>1, PlaceTypes
  <2>3. RowOf(t, h) >= r - 0 /\ Bottom(t, h) >= r /\ t.at[1] + 0 <= Rows - 1
    BY <2>1, <2>2
  <2> QED
    BY <2>1, <2>3 DEF Raised
<1>6. sets[Len(ops)] = Raised(h, r, r)
  BY <1>1, <1>2
<1>7. Runs(ops, Reach(h, r), Raised(h, r, r), Standing(h))
  BY <1>4, <1>5, <1>6, RunsWithin
<1> QED
  BY <1>7 DEF ops

LEMMA SaveRuns ==
  ASSUME NEW h \in Seq(RowValues), NEW r \in Nat, NEW k \in Nat, k >= Rows - 1 - r
  PROVE  Runs(<<"save">>, Raised(h, r, r), Good(h, "Saved", r + 1, k, 0), Standing(h))
<1> DEFINE G == Good(h, "Saved", r + 1, k, 0)
           A == Raised(h, r, r)
           S == Standing(h)
<1>1. ASSUME NEW t \in A PROVE Does(t, "save") \in G
  <2> DEFINE v == Does(t, "save")
  <2>1. /\ t \in Standing(h) /\ RowOf(t, h) >= r - r /\ Bottom(t, h) >= r
        /\ t.at[1] = 0 \/ t.at[1] + r <= Rows - 1
    BY DEF Raised
  <2>2. v \in Standing(h) /\ v.at = t.at /\ v.above = t.above /\ v.saved.at = t.at
    BY <2>1, DoesSaves
  <2> HIDE DEF v
  <2>3. RowOf(v, h) = RowOf(t, h) /\ SavedRow(v, h) = RowOf(t, h) /\ Bottom(v, h) = Bottom(t, h)
    BY <2>2 DEF RowOf, SavedRow, Bottom
  <2>4. /\ RowOf(t, h) \in Int /\ Bottom(t, h) \in Int
        /\ t.at[1] \in 0 .. (Rows - 1) /\ Rows \in Nat
    BY <2>1, PlaceTypes
  <2>5. RowOf(v, h) >= 0 /\ SavedRow(v, h) >= 0 /\ Bottom(v, h) >= (r + 1) - 1 /\ t.at[1] <= k
    BY <2>1, <2>3, <2>4
  <2> QED
    BY <2>2, <2>5 DEF Good, Clear, v
<1>2. A \in SUBSET Terminals /\ G \in SUBSET Terminals /\ A \subseteq S /\ G \subseteq S
  BY ReachSets, GoodSets
<1>3. "save" \in Ops
  BY DEF Ops, Controls
<1> HIDE DEF G, A, S
<1>4. Runs(<<"save">>, A, G, S)
  BY <1>1, <1>2, <1>3, RunsOne
<1> QED
  BY <1>4 DEF G, A, S

\* The last row of what is owned.
ToBottom == IF region.origin = "Saved" THEN <<"restore">> \o Repeat(region.extent - 1, "down")
            ELSE <<"cr">>

AnchorOps(required) ==
  ToBottom \o Repeat(required - Larger(region.extent, 1), "nl") \o Repeat(required - 1, "up") \o <<"save">>

LEMMA ExtentIs ==
  ASSUME RegionOk
  PROVE  /\ Extent \in Nat \ {0} /\ region.extent \in Nat
         /\ region.origin = "Saved" => region.extent = Extent
         /\ region.origin = "Inline" => Extent = 1
         /\ region.origin = "Unanchored" => Extent = 1
<1>1. region.extent \in Nat
  BY DEF RegionOk
<1> QED
  BY <1>1 DEF RegionOk, Extent, Larger

LEMMA BottomRuns ==
  ASSUME RegionOk, region.origin # "Lost", NEW h \in Seq(RowValues), NEW k \in Int
  PROVE  /\ ToBottom \in Seq(Ops)
         /\ Runs(ToBottom, Clear(h, region.origin, Extent, k),
                 Good(h, region.origin, Extent, k, Extent - 1), Clear(h, region.origin, Extent, k))
<1> DEFINE o == region.origin
           e == Extent
           C == Clear(h, o, e, k)
           G(a) == Good(h, o, e, k, a)
<1>1. e \in Int /\ e - 1 \in Nat
  BY ExtentIs
<1>2. C \in SUBSET Terminals /\ \A a : G(a) \in SUBSET Terminals /\ G(a) \subseteq C
  BY GoodSets
<1>3. Runs(ToOrigin(o), C, G(0), C) /\ ToOrigin(o) \in Seq(Ops)
  BY <1>1, OriginRuns, OriginOps
<1>4. CASE o = "Saved"
  <2> DEFINE n == e - 1
             downs == Repeat(n, "down")
  <2>1. ToBottom = ToOrigin(o) \o downs
    BY <1>4, ExtentIs DEF ToBottom, ToOrigin
  <2>2. "down" \in Ops /\ n \in Nat /\ 0 + n = n /\ 0 + n < e /\ 0 \in Nat
    BY <1>1 DEF Ops, Controls
  <2> HIDE DEF n, o, e
  <2>3. downs \in Seq(Ops)
    BY <2>2, Repeats
  <2>4. Runs(downs, G(0), G(0 + n), C)
    BY <1>1, <2>2, DownRuns
  <2>5. Runs(downs, G(0), G(n), C)
    BY <2>2, <2>4
  <2> HIDE DEF downs, G, C
  <2>6. ToOrigin(o) \o downs \in Seq(Ops) /\ Runs(ToOrigin(o) \o downs, C, G(n), C)
    BY <1>2, <1>3, <2>3, <2>5, RunsOn
  <2> QED
    BY <2>1, <2>6 DEF G, C, n, o, e
<1>5. CASE o # "Saved"
  <2>1. C = G(0)
    BY <1>5 DEF Clear, Good
  <2>2. e - 1 = 0
    BY <1>5, ExtentIs DEF RegionOk, Origins
  <2>3. ToBottom = <<"cr">> /\ <<"cr">> \in Seq(LevelOps) /\ 0 \in Nat
    BY <1>5 DEF ToBottom, LevelOps
  <2>4. ToBottom \in Seq(Ops)
    BY <2>3, LevelOpsAre
  <2> HIDE DEF o, e
  <2>5. Runs(<<"cr">>, G(0), G(0), C)
    BY <1>1, <2>3, LevelRuns
  <2> QED
    BY <2>1, <2>2, <2>3, <2>4, <2>5 DEF o, e
<1> QED
  BY <1>4, <1>5

LEMMA AnchorRuns ==
  ASSUME RegionOk, region.origin # "Lost", NEW h \in Seq(RowValues), NEW j \in Int,
         NEW required \in Nat, required >= 2, required > Extent,
         NEW k \in Nat, k >= Rows - required
  PROVE  /\ AnchorOps(required) \in Seq(Ops)
         /\ Runs(AnchorOps(required), Clear(h, region.origin, Extent, j),
                 Good(h, "Saved", required, k, 0), Standing(h))
<1> DEFINE o == region.origin
           e == Extent
           r == required - 1
           n == required - e
           A == Clear(h, o, e, j)
           B == Reach(h, e - 1)
           S == Standing(h)
           G == Good(h, "Saved", required, k, 0)
           feeds == Repeat(n, "nl")
           ups == Repeat(r, "up")
<1>1. /\ e - 1 \in Nat /\ n \in Nat /\ r \in Nat /\ (e - 1) + n = r /\ r + 1 = required
      /\ k >= Rows - 1 - r /\ e \in Int
  BY ExtentIs, SizeAssumption
<1>2. /\ A \in SUBSET Terminals /\ B \in SUBSET Terminals /\ S \in SUBSET Terminals
      /\ Reach(h, r) \in SUBSET Terminals /\ Raised(h, r, r) \in SUBSET Terminals
      /\ A \subseteq S
  BY ReachSets, GoodSets
<1>3. ToBottom \in Seq(Ops) /\ Runs(ToBottom, A, B, S)
  <2> DEFINE D == Good(h, o, e, j, e - 1)
  <2>1. ToBottom \in Seq(Ops) /\ Runs(ToBottom, A, D, A)
    BY BottomRuns
  <2>2. D \subseteq B
    BY DEF Good, Clear, Reach
  <2> HIDE DEF A, B, S, D
  <2>3. A \in SUBSET A
    OBVIOUS
  <2>4. Runs(ToBottom, A, B, S)
    BY <1>2, <2>1, <2>2, <2>3, RunsWithin
  <2> QED
    BY <2>1, <2>4
<1>4. feeds \in Seq(Ops) /\ Runs(feeds, B, Reach(h, r), S)
  <2>1. "nl" \in Ops
    BY DEF Ops, Controls
  <2>2. feeds \in Seq(Ops)
    BY <1>1, <2>1, Repeats
  <2> DEFINE m == e - 1
  <2>3. m \in Nat /\ n \in Nat /\ m + n = r
    BY <1>1
  <2> HIDE DEF m, n, r
  <2>4. Runs(feeds, Reach(h, m), Reach(h, m + n), S)
    BY <2>3, FeedRuns
  <2> QED
    BY <2>2, <2>3, <2>4 DEF m, n
<1>5. ups \in Seq(Ops) /\ Runs(ups, Reach(h, r), Raised(h, r, r), S)
  <2>1. "up" \in Ops
    BY DEF Ops, Controls
  <2> HIDE DEF r
  <2> QED
    BY <1>1, <2>1, Repeats, RaiseRuns
<1>6. <<"save">> \in Seq(Ops) /\ Runs(<<"save">>, Raised(h, r, r), G, S)
  <2>1. "save" \in Ops
    BY DEF Ops, Controls
  <2>2. Runs(<<"save">>, Raised(h, r, r), Good(h, "Saved", r + 1, k, 0), S)
    <3> HIDE DEF r
    <3> QED
      BY <1>1, SaveRuns
  <2> QED
    BY <1>1, <2>1, <2>2
<1>7. AnchorOps(required) = ToBottom \o feeds \o ups \o <<"save">>
  BY DEF AnchorOps, Extent
<1> HIDE DEF A, B, S, G, feeds, ups, r, n, e
<1> DEFINE R == Reach(h, r)
           U == Raised(h, r, r)
<1> HIDE DEF R, U
<1> DEFINE o1 == ToBottom \o feeds
           o2 == o1 \o ups
           last == <<"save">>
           o3 == o2 \o last
<1>8. o1 \in Seq(Ops) /\ Runs(o1, A, R, S)
  BY <1>2, <1>3, <1>4, RunsOn DEF R
<1> HIDE DEF o1
<1>9. o2 \in Seq(Ops) /\ Runs(o2, A, U, S)
  BY <1>2, <1>5, <1>8, RunsOn DEF R, U
<1> HIDE DEF o2, last
<1>10. o3 \in Seq(Ops) /\ Runs(o3, A, G, S)
  <2>1. last \in Seq(Ops) /\ Runs(last, U, G, S)
    BY <1>6 DEF last, U
  <2> QED
    BY <1>2, <1>9, <2>1, RunsOn DEF U
<1>11. AnchorOps(required) = o3
  BY <1>7 DEF o1, o2, last
<1> HIDE DEF o3
<1> QED
  BY <1>10, <1>11 DEF A, G, S, e

LEMMA Replaced ==
  \A ops, r, anew, x : [[ops |-> ops, region |-> r, anew |-> anew] EXCEPT !.region = x]
                         = [ops |-> ops, region |-> x, anew |-> anew]
  OBVIOUS

LEMMA PlanIs ==
  ASSUME RegionOk, region.origin # "Lost", Addressed, NEW required \in Nat \ {0}
  PROVE  \/ /\ PlanRegion(required) = Unchanged
            /\ region.origin \in {"Inline", "Saved"} /\ region.extent >= required
         \/ /\ PlanRegion(required) = [ops |-> <<>>, region |-> [origin |-> "Inline", extent |-> 1],
                                       anew |-> FALSE]
            /\ required = 1 /\ region.origin = "Unanchored"
         \/ /\ PlanRegion(required) = [ops |-> AnchorOps(required),
                                       region |-> [origin |-> "Saved", extent |-> required],
                                       anew |-> TRUE]
            /\ required >= 2 /\ required > Extent
<1> DEFINE established == region.origin \in {"Inline", "Saved"}
           toBottom == IF region.origin = "Saved"
                       THEN <<"restore">> \o Repeat(region.extent - 1, "down") ELSE <<"cr">>
           anchored == [ops |-> toBottom \o Repeat(required - Larger(region.extent, 1), "nl")
                                \o Repeat(required - 1, "up") \o <<"save">>,
                        region |-> [origin |-> "Saved", extent |-> Larger(required, region.extent)],
                        anew |-> TRUE]
           inline == [Unchanged EXCEPT !.region = [origin |-> "Inline", extent |-> 1]]
           P == PlanRegion(required)
<1>1. P = CASE ~Addressed \/ (established /\ region.extent >= required) -> Unchanged
            [] Addressed /\ ~(established /\ region.extent >= required) /\ required <= 1 -> inline
            [] OTHER -> anchored
  BY Zenon DEF PlanRegion
<1>2. /\ region.extent \in Nat /\ region.origin \in Origins
      /\ region.origin = "Unanchored" => region.extent = 0
      /\ region.origin = "Inline" => region.extent = 1
  BY DEF RegionOk
<1> HIDE DEF P, inline, anchored
<1>3. CASE established /\ region.extent >= required
  <2>1. P = Unchanged
    BY Zenon, <1>1, <1>3
  <2> QED
    BY <1>3, <2>1 DEF P
<1>4. CASE ~(established /\ region.extent >= required) /\ required <= 1
  <2>1. P = inline
    BY Zenon, <1>1, <1>4
  <2>2. required = 1 /\ region.origin = "Unanchored"
    BY <1>2, <1>4 DEF Origins, RegionOk
  <2>3. inline = [ops |-> <<>>, region |-> [origin |-> "Inline", extent |-> 1], anew |-> FALSE]
    BY Replaced DEF inline, Unchanged
  <2> QED
    BY <2>1, <2>2, <2>3 DEF P
<1>5. CASE ~(established /\ region.extent >= required) /\ ~(required <= 1)
  <2>1. P = anchored
    BY Zenon, <1>1, <1>5
  <2>2. required >= 2
    BY <1>5
  <2>3. region.extent < required
    BY <1>2, <1>5 DEF Origins, RegionOk
  <2>4. required > Extent /\ Larger(required, region.extent) = required
    BY <1>2, <2>2, <2>3 DEF Extent, Larger
  <2>5. anchored = [ops |-> AnchorOps(required),
                    region |-> [origin |-> "Saved", extent |-> required], anew |-> TRUE]
    BY <2>4 DEF anchored, AnchorOps, ToBottom
  <2> QED
    BY <2>1, <2>2, <2>4, <2>5 DEF P
<1> QED
  BY <1>3, <1>4, <1>5

-----------------------------------------------------------------------------
(* What finishes the line.                                                   *)

LEMMA EchoExtentIs ==
  ASSUME RegionOk, CommittedOk, NEW echo \in Seq(Atoms)
  PROVE  Larger(EchoExtent(echo), 1) \in Nat \ {0}
<1> DEFINE width == Extents(echo)[Len(echo)]
           occupied == Larger(region.extent, Len(rows))
           x == at[2] + width - 1
           q == x \div Columns
<1>1. /\ region.extent \in Nat /\ Len(rows) \in Nat /\ at[1] \in Nat /\ at[2] \in Nat
      /\ Columns \in Nat \ {0}
  BY ExtentIs, SizeAssumption DEF CommittedOk
<1>2. width \in Nat
  <2>1. Len(echo) \in 0 .. Len(echo)
    OBVIOUS
  <2> QED
    BY <2>1, ExtentsAre
<1>3. occupied \in Nat
  BY <1>1 DEF Larger
<1>4. EchoExtent(echo) = IF width = 0 THEN occupied ELSE Larger(at[1] + q + 1, occupied)
  BY Zenon DEF EchoExtent
<1> HIDE DEF width, occupied
<1>5. width # 0 => q \in Int
  BY <1>1, <1>2
<1> HIDE DEF q
<1>6. EchoExtent(echo) \in Int
  BY <1>1, <1>3, <1>4, <1>5 DEF Larger
<1> QED
  BY <1>6 DEF Larger

\* A line feed leaves the region where it is.
LEMMA FeedStays ==
  ASSUME NEW h \in Seq(RowValues), NEW o, NEW e \in Int, NEW k \in Int
  PROVE  /\ <<"nl">> \in Seq(Ops)
         /\ Runs(<<"nl">>, Good(h, o, e, k, 0), Good(h, o, e, k, 0), Clear(h, o, e, k))
<1> DEFINE G == Good(h, o, e, k, 0)
           C == Clear(h, o, e, k)
<1>1. ASSUME NEW t \in G PROVE Does(t, "nl") \in G
  <2> DEFINE u == NewLine(t)
  <2>1. Does(t, "nl") = u
    <3>1. "nl" # "cr" /\ "nl" # "up" /\ "nl" # "down" /\ "nl" # "left" /\ "nl" # "right"
      OBVIOUS
    <3>2. "nl" # "save" /\ "nl" # "restore" /\ "nl" # "clear" /\ "nl" \notin Literals
      BY DEF Literals
    <3> QED
      BY Zenon, <3>1, <3>2 DEF Does
  <2>2. t \in Standing(h)
    BY GoodSets
  <2>3. u \in Standing(h) /\ Fed(t, u)
    BY <2>2, NewLines
  <2>4. Level(t, u)
    <3> HIDE DEF u
    <3>1. Len(t.above) \in Nat /\ Len(u.above) \in Nat /\ t.at[1] \in Int /\ u.at[1] \in Int
      BY <2>2, <2>3, PlaceTypes
    <3> QED
      BY <2>3, <3>1 DEF Fed, Level
  <2> HIDE DEF u
  <2>5. 0 \in Nat
    OBVIOUS
  <2>6. u \in G
    BY <2>3, <2>4, <2>5, LevelStays
  <2> QED
    BY <2>1, <2>6
<1>2. "nl" \in Ops /\ <<"nl">> \in Seq(Ops)
  BY DEF Ops, Controls
<1>3. G \in SUBSET Terminals /\ G \subseteq C
  BY GoodSets
<1> HIDE DEF G, C
<1>4. Runs(<<"nl">>, G, G, C)
  BY <1>1, <1>2, <1>3, RunsOne
<1> QED
  BY <1>2, <1>4 DEF G, C

Placed(owned) ==
  MoveTo([ops |-> ToOrigin(owned.origin), at |-> <<0, 0>>], at[1], at[2], RowAt(rows, at[1]),
         owned.origin).ops
Below(owned) == IF owned.origin = "Saved"
                THEN <<"restore">> \o Repeat(owned.extent - 1, "down") ELSE <<>>
TailOps(echo, owned, again) ==
  (IF echo = <<>> THEN <<>> ELSE (IF again THEN Placed(owned) ELSE <<>>) \o echo)
  \o Below(owned) \o <<"nl">>

LEMMA BelowRuns ==
  ASSUME NEW h \in Seq(RowValues), NEW owned, NEW e \in Nat \ {0}, NEW k \in Int,
         owned.origin = "Saved" => owned.extent = e
  PROVE  /\ Below(owned) \in Seq(Ops)
         /\ Runs(Below(owned), Clear(h, owned.origin, e, k), Good(h, owned.origin, e, k, 0),
                 Clear(h, owned.origin, e, k))
<1> DEFINE o == owned.origin
           C == Clear(h, o, e, k)
           G(a) == Good(h, o, e, k, a)
<1>1. /\ C \in SUBSET Terminals
      /\ \A a : G(a) \in SUBSET Terminals /\ G(a) \subseteq C
  BY GoodSets
<1>2. CASE o = "Saved"
  <2> DEFINE n == e - 1
             downs == Repeat(n, "down")
  <2>1. Below(owned) = ToOrigin(o) \o downs
    BY <1>2 DEF Below, ToOrigin
  <2>2. "down" \in Ops /\ n \in Nat /\ 0 + n = n /\ 0 + n < e /\ 0 \in Nat /\ e \in Int
    BY DEF Ops, Controls
  <2>3. ToOrigin(o) \in Seq(Ops) /\ Runs(ToOrigin(o), C, G(0), C)
    BY <2>2, OriginRuns, OriginOps
  <2> HIDE DEF n, o
  <2>4. downs \in Seq(Ops)
    BY <2>2, Repeats
  <2>5. Runs(downs, G(0), G(0 + n), C)
    BY <2>2, DownRuns
  <2>6. G(n) \subseteq G(0)
    BY <2>2, GoodShrinks
  <2>7. Runs(downs, G(0), G(0), C)
    <3>1. Runs(downs, G(0), G(n), C)
      BY <2>2, <2>5
    <3> HIDE DEF downs, G, C
    <3> QED
      BY <2>6, <3>1, RunsWithin
  <2> HIDE DEF downs, G, C
  <2>8. ToOrigin(o) \o downs \in Seq(Ops) /\ Runs(ToOrigin(o) \o downs, C, G(0), C)
    BY <1>1, <2>3, <2>4, <2>7, RunsOn
  <2> QED
    BY <2>1, <2>8 DEF G, C, o
<1>3. CASE o # "Saved"
  <2>1. Below(owned) = <<>> /\ <<>> \in Seq(Ops)
    BY <1>3 DEF Below
  <2>2. C \subseteq G(0) /\ C \subseteq C
    BY <1>3 DEF Clear, Good
  <2> HIDE DEF C, G
  <2>3. Runs(<<>>, C, G(0), C)
    BY <1>1, <2>2, RunsNone
  <2> QED
    BY <2>1, <2>3 DEF C, G
<1> QED
  BY <1>2, <1>3

\* From where the committed cursor is, or can be moved to.
LEMMA EchoRuns ==
  ASSUME CommittedOk, NEW h \in Seq(RowValues), NEW owned, NEW e \in Nat \ {0}, NEW k \in Int,
         at[1] < e, NEW echo \in Seq(Atoms), NEW again \in BOOLEAN
  PROVE  /\ (IF again THEN Placed(owned) ELSE <<>>) \o echo \in Seq(Ops)
         /\ Runs((IF again THEN Placed(owned) ELSE <<>>) \o echo,
                 IF again THEN Clear(h, owned.origin, e, k) ELSE Good(h, owned.origin, e, k, at[1]),
                 Clear(h, owned.origin, e, k), Clear(h, owned.origin, e, k))
<1> DEFINE o == owned.origin
           C == Clear(h, o, e, k)
           G(a) == Good(h, o, e, k, a)
           r == at[1]
           column == at[2]
           begin == [ops |-> ToOrigin(o), at |-> <<0, 0>>]
           displayed == RowAt(rows, r)
           moved == MoveTo(begin, r, column, displayed, o)
           A == IF again THEN C ELSE G(r)
           ops == IF again THEN Placed(owned) ELSE <<>>
<1>1. r \in Nat /\ column \in Nat /\ r < e /\ e \in Int /\ e > 0 /\ at \in Nat \X Nat
  BY DEF CommittedOk
<1>2. displayed \in MaybeRow
  BY <1>1, RowAtIs DEF CommittedOk
<1>3. C \in SUBSET Terminals /\ \A a : G(a) \in SUBSET Terminals /\ G(a) \subseteq C
  BY GoodSets
<1>4. Way(begin, C, h, o, e, k)
  BY <1>1, WayBegins
<1>5. Way(moved, C, h, o, e, k) /\ Low(moved.at) = r
  <2> HIDE DEF begin, displayed, r, column, o, C
  <2> QED
    BY <1>1, <1>2, <1>3, <1>4, MoveGoes
<1>6. Placed(owned) = moved.ops
  BY Zenon DEF Placed
<1> HIDE DEF moved
<1>7. moved.ops \in Seq(Ops) /\ Runs(moved.ops, C, G(r), C)
  BY <1>5, WayRuns
<1>8. <<>> \in Seq(Ops) /\ Runs(<<>>, G(r), G(r), C)
  <2> HIDE DEF G, C
  <2> QED
    BY <1>3, RunsNone
<1>9. A \in SUBSET Terminals /\ ops \in Seq(Ops) /\ Runs(ops, A, G(r), C)
  <2> HIDE DEF G, C, r
  <2> QED
    BY <1>3, <1>6, <1>7, <1>8
<1>10. echo \in Seq(LevelOps) /\ echo \in Seq(Ops)
  BY AtomsAreLevel, LevelOpsAre
<1>11. Runs(echo, G(r), G(r), C)
  <2> HIDE DEF r, o
  <2> QED
    BY <1>1, <1>10, LevelRuns
<1>12. Runs(echo, G(r), C, C)
  <2> HIDE DEF G, C, r
  <2>1. G(r) \in SUBSET G(r) /\ G(r) \subseteq C /\ C \subseteq C
    BY <1>3
  <2> QED
    BY <1>11, <2>1, RunsWithin
<1> HIDE DEF G, C, r, A, ops
<1>13. Runs(ops \o echo, A, C, C) /\ ops \o echo \in Seq(Ops)
  BY <1>3, <1>9, <1>10, <1>12, RunsOn
<1> QED
  BY <1>13 DEF ops, A, C, G, r

LEMMA TailRuns ==
  ASSUME CommittedOk, NEW h \in Seq(RowValues), NEW owned, NEW e \in Nat \ {0}, NEW k \in Int,
         owned.origin = "Saved" => owned.extent = e,
         at[1] < e, NEW echo \in Seq(Atoms), NEW again \in BOOLEAN
  PROVE  /\ TailOps(echo, owned, again) \in Seq(Ops)
         /\ Runs(TailOps(echo, owned, again),
                 IF again THEN Clear(h, owned.origin, e, k) ELSE Good(h, owned.origin, e, k, at[1]),
                 Good(h, owned.origin, e, k, 0), Clear(h, owned.origin, e, k))
<1> DEFINE o == owned.origin
           C == Clear(h, o, e, k)
           G(a) == Good(h, o, e, k, a)
           A == IF again THEN C ELSE G(at[1])
           echoed == (IF again THEN Placed(owned) ELSE <<>>) \o echo
           first == IF echo = <<>> THEN <<>> ELSE echoed
           below == Below(owned)
           last == <<"nl">>
<1>1. C \in SUBSET Terminals /\ \A a : G(a) \in SUBSET Terminals /\ G(a) \subseteq C
  BY GoodSets
<1>2. A \in SUBSET Terminals /\ A \subseteq C /\ C \subseteq C
  BY <1>1
<1>3. echoed \in Seq(Ops) /\ Runs(echoed, A, C, C)
  BY EchoRuns
<1>4. below \in Seq(Ops) /\ Runs(below, C, G(0), C)
  BY BelowRuns
<1>5. last \in Seq(Ops) /\ Runs(last, G(0), G(0), C)
  BY FeedStays
<1>6. TailOps(echo, owned, again) = first \o below \o last
  BY Zenon DEF TailOps
<1> HIDE DEF A, C, G, echoed, below, last
<1>7. first \in Seq(Ops) /\ Runs(first, A, C, C)
  <2>1. <<>> \in Seq(Ops) /\ Runs(<<>>, A, C, C)
    BY <1>2, RunsNone
  <2> QED
    BY <1>3, <2>1
<1> HIDE DEF first
<1> DEFINE two == first \o below
<1>8. two \in Seq(Ops) /\ Runs(two, A, G(0), C)
  BY <1>1, <1>2, <1>4, <1>7, RunsOn
<1> HIDE DEF two
<1>9. two \o last \in Seq(Ops) /\ Runs(two \o last, A, G(0), C)
  BY <1>1, <1>2, <1>5, <1>8, RunsOn
<1> QED
  BY <1>6, <1>9 DEF two, A, C, G

-----------------------------------------------------------------------------
(* What is shown of a frame or of the end of a line, from where the          *)
(* invariant has the terminal.                                               *)

Way0 == Clear(host, region.origin, Extent, Rows - Extent)

LEMMA Begins ==
  ASSUME RenderInv, region.origin # "Lost"
  PROVE  /\ term \in Way0 /\ host \in Seq(RowValues) /\ Way0 \in SUBSET Terminals
         /\ Way0 \subseteq Standing(host) /\ Rows - Extent \in Int /\ Extent \in Nat \ {0}
         /\ ~damaged => term \in Good(host, region.origin, Extent, Rows - Extent, at[1])
         /\ RegionOk /\ CommittedOk /\ InputOk
<1>1. /\ term \in Way0 /\ host \in Seq(RowValues) /\ RegionOk /\ CommittedOk /\ InputOk
      /\ ~damaged => RowOf(term, host) >= at[1]
  BY DEF RenderInv, PlaceOk, Way0
<1>2. Extent \in Nat \ {0} /\ Rows - Extent \in Int
  BY <1>1, ExtentIs, SizeAssumption
<1>3. Way0 \in SUBSET Terminals /\ Way0 \subseteq Standing(host)
  BY GoodSets DEF Way0
<1>4. ~damaged => term \in Good(host, region.origin, Extent, Rows - Extent, at[1])
  BY <1>1 DEF Good, Way0
<1> QED
  BY <1>1, <1>2, <1>3, <1>4

LEMMA FromHere ==
  ASSUME NEW ops, NEW A, NEW t \in A, NEW B, NEW C, Runs(ops, A, B, C)
  PROVE  Runs(ops, {t}, B, C)
  BY DEF Runs

FinishStays(plan) == IF plan.anew THEN Standing(host) ELSE Way0

LEMMA FinishPlanIs ==
  ASSUME RenderInv, ~FinishRefused, NEW echo \in Seq(Atoms)
  PROVE  \/ PlanFinish(echo) = Unchanged
         \/ \E required \in Nat :
              /\ Addressed /\ required >= 2 /\ required > Extent
              /\ PlanFinish(echo) = [ops |-> AnchorOps(required),
                                     region |-> [origin |-> "Saved", extent |-> required],
                                     anew |-> TRUE]
<1> DEFINE required == Larger(EchoExtent(echo), 1)
<1>1. RegionOk /\ CommittedOk /\ region.origin # "Lost"
  BY DEF RenderInv, FinishRefused
<1>2. required \in Nat \ {0}
  BY <1>1, EchoExtentIs
<1>3. PlanFinish(echo) = IF ~Addressed \/ region.origin # "Saved" THEN Unchanged
                         ELSE PlanRegion(required)
  BY Zenon DEF PlanFinish
<1> HIDE DEF required
<1>4. CASE ~Addressed \/ region.origin # "Saved"
  BY Zenon, <1>3, <1>4
<1>5. CASE Addressed /\ region.origin = "Saved"
  <2>1. PlanFinish(echo) = PlanRegion(required)
    BY Zenon, <1>3, <1>5
  <2>2. region.origin # "Unanchored"
    BY <1>5
  <2> QED
    BY <1>1, <1>2, <1>5, <2>1, <2>2, PlanIs
<1> QED
  BY <1>4, <1>5

Regrouped(a, b, c, d) == ((a \o b) \o c) \o d = a \o ((b \o c) \o d)

LEMMA OpsRegroup == \A a, b, c, d \in Seq(Ops) : Regrouped(a, b, c, d)
<1> SUFFICES ASSUME NEW a \in Seq(Ops), NEW b \in Seq(Ops), NEW c \in Seq(Ops), NEW d \in Seq(Ops)
             PROVE  Regrouped(a, b, c, d)
  OBVIOUS
<1>1. (a \o b) \o c = a \o (b \o c)
  OBVIOUS
<1> DEFINE e == b \o c
<1>2. e \in Seq(Ops)
  OBVIOUS
<1> HIDE DEF e
<1>3. (a \o e) \o d = a \o (e \o d)
  BY <1>2
<1> QED
  BY <1>1, <1>3 DEF e, Regrouped

LEMMA FinishIs ==
  ASSUME NEW echo \in Seq(Ops), NEW plan, plan.ops \in Seq(Ops),
         NEW again \in BOOLEAN, again <=> (plan.anew \/ damaged),
         TailOps(echo, plan.region, again) \in Seq(Ops),
         (IF again THEN Placed(plan.region) ELSE <<>>) \o echo \in Seq(Ops),
         Below(plan.region) \in Seq(Ops)
  PROVE  FinishOps(echo, plan) = plan.ops \o TailOps(echo, plan.region, again)
<1> DEFINE echoed == (IF again THEN Placed(plan.region) ELSE <<>>) \o echo
           first == IF echo = <<>> THEN <<>> ELSE echoed
           below == Below(plan.region)
           last == <<"nl">>
           ops == plan.ops
<1>1. FinishOps(echo, plan) = ((ops \o first) \o below) \o last
  BY Zenon DEF FinishOps, Placed, Below
<1>2. TailOps(echo, plan.region, again) = (first \o below) \o last
  BY Zenon DEF TailOps
<1>3. last \in Seq(Ops)
  BY DEF Ops, Controls
<1>4. first \in Seq(Ops)
  BY EmptySeq
<1> HIDE DEF first, below, last, ops
<1>5. ops \in Seq(Ops) /\ below \in Seq(Ops)
  BY DEF ops, below
<1>6. Regrouped(ops, first, below, last)
  BY <1>3, <1>4, <1>5, OpsRegroup
<1> QED
  BY <1>1, <1>2, <1>6 DEF Regrouped, ops

\* What finishes the line writes on no row of the host, and keeps an origin that is
\* not made anew.
LEMMA FinishRuns ==
  ASSUME RenderInv, ~FinishRefused, NEW echo \in Seq(Atoms)
  PROVE  /\ FinishOps(echo, PlanFinish(echo)) \in Seq(Ops)
         /\ Runs(FinishOps(echo, PlanFinish(echo)), {term},
                 FinishStays(PlanFinish(echo)), FinishStays(PlanFinish(echo)))
<1> DEFINE plan == PlanFinish(echo)
           o == region.origin
           e == Extent
           k == Rows - Extent
           h == host
           r == at[1]
<1>1. /\ term \in Way0 /\ h \in Seq(RowValues) /\ Way0 \in SUBSET Terminals
      /\ Way0 \subseteq Standing(h) /\ k \in Int /\ e \in Nat \ {0}
      /\ ~damaged => term \in Good(h, o, e, k, r)
      /\ RegionOk /\ CommittedOk
  BY Begins DEF FinishRefused
<1>2. r \in Nat /\ r < e /\ damaged \in BOOLEAN
  BY <1>1 DEF CommittedOk
<1>3. echo \in Seq(Ops)
  BY AtomsAreLevel, LevelOpsAre
<1>4. o = "Saved" => region.extent = e
  BY <1>1, ExtentIs
<1>5. CASE plan = Unchanged
  <2> DEFINE T == TailOps(echo, region, damaged)
             C == Clear(h, o, e, k)
             A == IF damaged THEN C ELSE Good(h, o, e, k, r)
  <2>1. /\ (IF damaged THEN Placed(region) ELSE <<>>) \o echo \in Seq(Ops)
        /\ Below(region) \in Seq(Ops) /\ T \in Seq(Ops)
        /\ Runs(T, A, Good(h, o, e, k, 0), C)
    BY <1>1, <1>2, <1>4, EchoRuns, BelowRuns, TailRuns
  <2>2. C = Way0 /\ Good(h, o, e, k, 0) \subseteq C /\ A \subseteq C
    BY GoodSets DEF Way0
  <2>3. term \in A
    BY <1>1, <2>2
  <2> HIDE DEF A, C, T
  <2>4. Runs(T, {term}, Good(h, o, e, k, 0), C)
    BY <2>1, <2>3, FromHere
  <2>5. Runs(T, {term}, Way0, Way0)
    BY <2>2, <2>4, RunsWithin
  <2>6. plan.ops = <<>> /\ plan.region = region /\ plan.anew = FALSE
    BY <1>5 DEF Unchanged
  <2>7. FinishOps(echo, plan) = plan.ops \o T
    <3>1. plan.ops \in Seq(Ops) /\ (damaged <=> (plan.anew \/ damaged))
      BY <2>6
    <3> HIDE DEF plan
    <3> QED
      BY <1>2, <1>3, <2>1, <2>6, <3>1, FinishIs DEF T
  <2>8. FinishOps(echo, plan) = T
    BY <2>1, <2>6, <2>7
  <2>9. FinishStays(plan) = Way0
    BY <2>6 DEF FinishStays
  <2> QED
    BY <2>1, <2>5, <2>8, <2>9
<1>6. ASSUME NEW required \in Nat, required >= 2, required > Extent,
             plan = [ops |-> AnchorOps(required),
                     region |-> [origin |-> "Saved", extent |-> required], anew |-> TRUE]
      PROVE  /\ FinishOps(echo, plan) \in Seq(Ops)
             /\ Runs(FinishOps(echo, plan), {term}, FinishStays(plan), FinishStays(plan))
  <2> DEFINE owned == [origin |-> "Saved", extent |-> required]
             T == TailOps(echo, owned, TRUE)
             C == Clear(h, "Saved", required, Rows)
             G == Good(h, "Saved", required, Rows, 0)
             S == Standing(h)
             a == AnchorOps(required)
  <2>1. owned.origin = "Saved" /\ owned.extent = required
    OBVIOUS
  <2>2. plan.ops = a /\ plan.region = owned /\ plan.anew = TRUE
    BY <1>6
  <2> HIDE DEF owned, plan
  <2>3. Rows \in Nat /\ Rows >= Rows - required /\ required \in Nat \ {0} /\ r < required
        /\ Rows \in Int /\ TRUE \in BOOLEAN
    BY <1>1, <1>2, <1>6, SizeAssumption
  <2>4. a \in Seq(Ops) /\ Runs(a, Clear(h, o, e, k), G, S)
    BY <1>1, <1>6, <2>3, AnchorRuns DEF FinishRefused
  <2>5. Runs(a, {term}, G, S)
    <3>1. term \in Clear(h, o, e, k)
      BY <1>1 DEF Way0
    <3> HIDE DEF G, S, a
    <3> QED
      BY <2>4, <3>1, FromHere
  <2>6. /\ (IF TRUE THEN Placed(owned) ELSE <<>>) \o echo \in Seq(Ops)
        /\ Below(owned) \in Seq(Ops) /\ T \in Seq(Ops)
        /\ Runs(T, C, G, C)
    <3>1. Runs(T, IF TRUE THEN C ELSE Good(h, "Saved", required, Rows, r), G, C) /\ T \in Seq(Ops)
      BY <1>1, <2>1, <2>3, TailRuns
    <3>2. (IF TRUE THEN Placed(owned) ELSE <<>>) \o echo \in Seq(Ops)
      BY <1>1, <2>3, EchoRuns
    <3>3. Below(owned) \in Seq(Ops)
      BY <1>1, <2>1, <2>3, BelowRuns
    <3> HIDE DEF C, G, T
    <3> QED
      BY <3>1, <3>2, <3>3
  <2>7. G \in SUBSET C /\ C \subseteq S /\ G \subseteq S /\ G \in SUBSET Terminals /\ {term} \in SUBSET Terminals
    BY <1>1, GoodSets
  <2> HIDE DEF C, G, S, a, T
  <2>8. Runs(T, G, S, S)
    BY <2>6, <2>7, RunsWithin
  <2>9. a \o T \in Seq(Ops) /\ Runs(a \o T, {term}, S, S)
    BY <2>4, <2>5, <2>6, <2>7, <2>8, RunsOn
  <2>10. FinishOps(echo, plan) = plan.ops \o T
    <3>1. plan.ops \in Seq(Ops) /\ (TRUE <=> (plan.anew \/ damaged))
      BY <2>2, <2>4
    <3> QED
      BY <1>3, <2>2, <2>3, <2>6, <3>1, FinishIs DEF T
  <2>11. FinishStays(plan) = S
    BY <2>2 DEF FinishStays, S
  <2> QED
    BY <2>2, <2>9, <2>10, <2>11
<1>7. plan = Unchanged \/ \E required \in Nat :
        /\ required >= 2 /\ required > Extent
        /\ plan = [ops |-> AnchorOps(required),
                   region |-> [origin |-> "Saved", extent |-> required], anew |-> TRUE]
  BY FinishPlanIs
<1> HIDE DEF plan
<1> QED
  BY <1>5, <1>6, <1>7 DEF plan

FrameOk(frame) ==
  /\ frame.rows \in Seq(FrameRows) /\ Len(frame.rows) \in 1 .. Rows
  /\ frame.at \in Nat \X Nat /\ frame.at[1] < Len(frame.rows)

OwnedOk(owned) ==
  /\ owned \in [origin : {"Unanchored", "Inline", "Saved"}, extent : Nat]
  /\ owned.origin = "Unanchored" => owned.extent = 0
  /\ owned.origin = "Inline" => owned.extent = 1
  /\ owned.origin = "Saved" => owned.extent >= 2

ShowsIn(owned, a) ==
  Good(host, owned.origin, Larger(owned.extent, 1), Rows - Larger(owned.extent, 1), a)

\* What displays a frame: where it leads to, and by which way.
Displays(frame, plan) ==
  /\ PresentOps(frame, plan) \in Seq(Ops)
  /\ Runs(PresentOps(frame, plan), {term}, ShowsIn(plan.region, frame.at[1]), FinishStays(plan))
  /\ OwnedOk(plan.region) /\ Len(frame.rows) <= Larger(plan.region.extent, 1)
  /\ plan.anew => Addressed

LEMMA RegionOwned ==
  ASSUME RegionOk, region.origin # "Lost"
  PROVE  OwnedOk(region)
  BY DEF RegionOk, OwnedOk, Origins

\* In the region there is.
LEMMA DisplayedHere ==
  ASSUME RenderInv, NEW frame, FrameOk(frame), Addressed, region.origin # "Lost",
         NEW plan, plan.ops = <<>>, plan.anew = FALSE, OwnedOk(plan.region),
         Larger(plan.region.extent, 1) = Extent, plan.region.extent = Extent,
         plan.region.origin = "Saved" <=> region.origin = "Saved",
         Len(frame.rows) <= Extent
  PROVE  Displays(frame, plan)
<1> DEFINE owned == plan.region
           o == owned.origin
           e == owned.extent
           k == Rows - e
           h == host
           C == Clear(h, o, e, k)
           A == IF damaged THEN C ELSE Good(h, o, e, k, at[1])
           G == Good(h, o, e, k, frame.at[1])
           ops == EncodeAddressed(frame, rows, at, owned, redraw, damaged)
<1>1. /\ term \in Way0 /\ h \in Seq(RowValues) /\ Way0 \in SUBSET Terminals
      /\ Extent \in Nat \ {0} /\ Rows - Extent \in Int
      /\ ~damaged => term \in Good(host, region.origin, Extent, Rows - Extent, at[1])
      /\ CommittedOk
  BY Begins
<1>2. e = Extent /\ e \in Nat \ {0} /\ k \in Int
  BY <1>1
<1>3. C = Way0
  BY <1>2 DEF Clear, Way0
<1>4. ~damaged => Good(host, region.origin, Extent, Rows - Extent, at[1]) = Good(h, o, e, k, at[1])
  BY <1>2 DEF Clear, Good
<1>5. term \in A
  BY <1>1, <1>3, <1>4
<1>6. /\ frame.rows \in Seq(FrameRows) /\ frame.at \in Nat \X Nat
      /\ frame.at[1] < Len(frame.rows) /\ Len(frame.rows) <= e
  BY <1>2 DEF FrameOk
<1>7. /\ rows \in Seq(FrameRows) /\ Len(rows) <= e /\ at \in Nat \X Nat /\ at[1] < e
      /\ redraw \in BOOLEAN /\ damaged \in BOOLEAN
  BY <1>1, <1>2 DEF CommittedOk
<1>8. ops \in Seq(Ops) /\ Runs(ops, A, G, C)
  BY <1>1, <1>2, <1>6, <1>7, EncodedRuns
<1>9. PresentOps(frame, plan) = ops
  <2>1. PresentOps(frame, plan) = plan.ops \o ops
    <3>1. (redraw /\ ~plan.anew) = redraw /\ (damaged \/ plan.anew) = damaged
      BY <1>7
    <3>2. (IF plan.anew THEN <<0, 0>> ELSE at) = at
      OBVIOUS
    <3>3. PresentOps(frame, plan)
            = plan.ops \o EncodeAddressed(frame, rows, IF plan.anew THEN <<0, 0>> ELSE at, owned,
                                          redraw /\ ~plan.anew, damaged \/ plan.anew)
      BY Zenon DEF PresentOps
    <3> QED
      BY <3>1, <3>2, <3>3
  <2> HIDE DEF ops
  <2>2. <<>> \o ops = ops
    BY <1>8
  <2> QED
    BY <2>1, <2>2
<1>10. FinishStays(plan) = Way0
  BY DEF FinishStays
<1>11. G = ShowsIn(plan.region, frame.at[1])
  BY <1>2 DEF ShowsIn
<1> HIDE DEF ops, A, G, C
<1>12. Runs(ops, {term}, G, C)
  BY <1>5, <1>8, FromHere
<1>13. Len(frame.rows) <= Larger(owned.extent, 1)
  OBVIOUS
<1> QED
  BY <1>3, <1>8, <1>9, <1>10, <1>11, <1>12, <1>13 DEF Displays

\* In a region that is anchored first.
LEMMA DisplayedAnew ==
  ASSUME RenderInv, NEW frame, FrameOk(frame), Addressed, region.origin # "Lost",
         NEW required \in Nat, required = Len(frame.rows), required >= 2, required > Extent,
         NEW plan, plan = [ops |-> AnchorOps(required),
                           region |-> [origin |-> "Saved", extent |-> required], anew |-> TRUE]
  PROVE  Displays(frame, plan)
<1> DEFINE owned == [origin |-> "Saved", extent |-> required]
           k == Rows - required
           h == host
           C == Clear(h, "Saved", required, k)
           B == Good(h, "Saved", required, k, 0)
           G == Good(h, "Saved", required, k, frame.at[1])
           S == Standing(h)
           anchor == AnchorOps(required)
           ops == EncodeAddressed(frame, rows, <<0, 0>>, owned, FALSE, TRUE)
<1>1. /\ term \in Way0 /\ h \in Seq(RowValues) /\ Way0 \in SUBSET Terminals
      /\ Extent \in Nat \ {0} /\ Rows - Extent \in Int /\ CommittedOk /\ RegionOk
  BY Begins
<1>2. required \in 1 .. Rows /\ k \in Nat /\ k >= Rows - required /\ required \in Nat \ {0}
  BY SizeAssumption DEF FrameOk
<1>3. anchor \in Seq(Ops) /\ Runs(anchor, Way0, B, S)
  BY <1>1, <1>2, AnchorRuns DEF Way0
<1>4. Runs(anchor, {term}, B, S)
  <2> HIDE DEF B, S, anchor
  <2> QED
    BY <1>1, <1>3, FromHere
<1>5. ops \in Seq(Ops) /\ Runs(ops, C, G, C)
  <2>1. owned.extent = required /\ owned.origin = "Saved"
    OBVIOUS
  <2> HIDE DEF owned
  <2>2. /\ frame.rows \in Seq(FrameRows) /\ frame.at \in Nat \X Nat
        /\ frame.at[1] < Len(frame.rows) /\ Len(frame.rows) <= owned.extent
        /\ owned.extent \in Nat \ {0}
    BY <1>2, <2>1 DEF FrameOk
  <2>3. rows \in Seq(FrameRows) /\ Len(rows) <= owned.extent
    BY <1>1, <2>1 DEF CommittedOk
  <2> DEFINE from == <<0, 0>>
  <2>4. from \in Nat \X Nat /\ from[1] < owned.extent /\ TRUE \in BOOLEAN /\ FALSE \in BOOLEAN /\ k \in Int
    BY <2>1, <1>2
  <2> HIDE DEF from, k
  <2> DEFINE x == EncodeAddressed(frame, rows, from, owned, FALSE, TRUE)
             A == IF TRUE THEN Clear(h, owned.origin, owned.extent, k)
                  ELSE Good(h, owned.origin, owned.extent, k, from[1])
  <2>5. /\ x \in Seq(Ops)
        /\ Runs(x, A, Good(h, owned.origin, owned.extent, k, frame.at[1]),
                Clear(h, owned.origin, owned.extent, k))
    BY <1>1, <2>2, <2>3, <2>4, EncodedRuns
  <2>6. A = C
    BY <2>1
  <2>7. x = ops
    BY DEF from
  <2> HIDE DEF x, A, ops
  <2> QED
    BY <2>1, <2>5, <2>6, <2>7
<1>6. B \in SUBSET C /\ C \subseteq S /\ G \subseteq G /\ B \in SUBSET Terminals /\ {term} \in SUBSET Terminals
  BY <1>1, GoodSets
<1>7. PresentOps(frame, plan) = anchor \o ops
  <2>1. plan.ops = anchor /\ plan.anew = TRUE /\ plan.region = owned
    OBVIOUS
  <2> HIDE DEF anchor, owned
  <2>2. PresentOps(frame, plan)
          = plan.ops \o EncodeAddressed(frame, rows, IF plan.anew THEN <<0, 0>> ELSE at, plan.region,
                                        redraw /\ ~plan.anew, damaged \/ plan.anew)
    BY Zenon DEF PresentOps
  <2>3. /\ (redraw /\ ~plan.anew) = FALSE /\ (damaged \/ plan.anew) = TRUE
        /\ (IF plan.anew THEN <<0, 0>> ELSE at) = <<0, 0>>
    BY <2>1
  <2> QED
    BY <2>1, <2>2, <2>3
<1>8. FinishStays(plan) = S
  BY DEF FinishStays
<1>9. G = ShowsIn(plan.region, frame.at[1])
  BY <1>2 DEF ShowsIn, Larger
<1>10. OwnedOk(plan.region) /\ Len(frame.rows) <= Larger(plan.region.extent, 1)
  BY <1>2 DEF OwnedOk, Larger
<1> HIDE DEF B, C, G, S, anchor, ops
<1>11. Runs(ops, B, G, S)
  BY <1>5, <1>6, RunsWithin
<1>12. anchor \o ops \in Seq(Ops) /\ Runs(anchor \o ops, {term}, G, S)
  BY <1>3, <1>4, <1>5, <1>6, <1>11, RunsOn
<1> QED
  BY <1>7, <1>8, <1>9, <1>10, <1>12 DEF Displays

\* On the one row of a terminal that cannot be addressed.
LEMMA DisplayedPlainly ==
  ASSUME RenderInv, NEW frame, FrameOk(frame), ~Addressed, ~Refused(frame),
         NEW plan, plan = Unchanged
  PROVE  Displays(frame, plan)
<1> DEFINE h == host
           o == region.origin
           C == Clear(h, o, 1, Rows - 1)
           G == Good(h, o, 1, Rows - 1, 0)
           ops == EncodePlain(frame, rows, at, redraw, damaged)
<1>1. RegionOk /\ CommittedOk /\ h \in Seq(RowValues) /\ Rows - 1 \in Int
  BY SizeAssumption DEF RenderInv
<1>2. o # "Lost" /\ o # "Saved" /\ Len(frame.rows) <= 1 /\ frame.at[1] <= 0
  BY <1>1 DEF Refused, RegionOk, FrameOk
<1>3. term \in Way0
  BY <1>2, Begins
<1>4. Extent = 1 /\ Larger(region.extent, 1) = 1
  BY <1>1, <1>2, ExtentIs DEF RegionOk, Origins, Extent
<1>5. Way0 = C /\ C = G
  BY <1>2, <1>4 DEF Way0, Clear, Good
<1>6. ops \in Seq(LevelOps) /\ ops \in Seq(Ops)
  <2>1. /\ frame.rows \in Seq(FrameRows) /\ frame.at \in Nat \X Nat /\ Len(frame.rows) >= 1
        /\ rows \in Seq(FrameRows) /\ at \in Nat \X Nat
        /\ redraw \in BOOLEAN /\ damaged \in BOOLEAN
    BY <1>1 DEF FrameOk, CommittedOk
  <2>2. ops \in Seq(LevelOps)
    BY <2>1, PlainIsLevel
  <2> QED
    BY <2>2, LevelOpsAre
<1>7. Runs(ops, G, G, C)
  <2>1. 0 \in Nat /\ 1 \in Int
    OBVIOUS
  <2> HIDE DEF ops
  <2> QED
    BY <1>1, <1>6, <2>1, LevelRuns
<1>8. PresentOps(frame, plan) = ops
  <2>1. plan.ops = <<>>
    BY DEF Unchanged
  <2>2. PresentOps(frame, plan) = plan.ops \o ops
    BY Zenon DEF PresentOps
  <2> HIDE DEF ops
  <2>3. <<>> \o ops = ops
    BY <1>6
  <2> QED
    BY <2>1, <2>2, <2>3
<1>9. plan.region = region /\ plan.anew = FALSE
  BY DEF Unchanged
<1>10. FinishStays(plan) = Way0
  BY <1>9 DEF FinishStays
<1>11. ShowsIn(plan.region, frame.at[1]) = G
  <2>1. frame.at[1] = 0
    BY <1>2 DEF FrameOk
  <2> QED
    BY <1>4, <1>9, <2>1 DEF ShowsIn
<1>12. OwnedOk(plan.region) /\ Len(frame.rows) <= Larger(plan.region.extent, 1)
  BY <1>1, <1>2, <1>4, <1>9, RegionOwned
<1> HIDE DEF C, G, ops
<1>13. Runs(ops, {term}, G, C)
  BY <1>3, <1>5, <1>7, FromHere
<1> QED
  BY <1>5, <1>6, <1>8, <1>9, <1>10, <1>11, <1>12, <1>13 DEF Displays

LEMMA PresentRuns ==
  ASSUME RenderInv, NEW frame, FrameOk(frame), ~Refused(frame)
  PROVE  Displays(frame, Planned(frame))
<1> DEFINE required == Len(frame.rows)
           plan == Planned(frame)
<1>1. required \in Nat \ {0} /\ RegionOk /\ CommittedOk
  BY DEF FrameOk, RenderInv
<1>2. plan = PlanRegion(required)
  BY DEF Planned
<1>3. CASE ~Addressed
  <2>1. plan = Unchanged
    BY Zenon, <1>2, <1>3 DEF PlanRegion
  <2> HIDE DEF plan
  <2> QED
    BY <1>3, <2>1, DisplayedPlainly DEF plan
<1>4. CASE Addressed
  <2>1. region.origin # "Lost"
    BY <1>4 DEF Refused
  <2>2. CASE plan = Unchanged /\ region.origin \in {"Inline", "Saved"} /\ region.extent >= required
    <3>1. plan.ops = <<>> /\ plan.anew = FALSE /\ plan.region = region
      BY <2>2 DEF Unchanged
    <3>2. OwnedOk(region) /\ region.extent = Extent /\ Larger(region.extent, 1) = Extent
      BY <1>1, <2>1, <2>2, ExtentIs, RegionOwned DEF Extent, RegionOk
    <3>3. required <= Extent
      BY <1>1, <2>2, <3>2
    <3> HIDE DEF plan
    <3> QED
      BY <1>4, <2>1, <3>1, <3>2, <3>3, DisplayedHere DEF plan
  <2>3. CASE /\ plan = [ops |-> <<>>, region |-> [origin |-> "Inline", extent |-> 1], anew |-> FALSE]
             /\ required = 1 /\ region.origin = "Unanchored"
    <3>1. /\ plan.ops = <<>> /\ plan.anew = FALSE
          /\ plan.region = [origin |-> "Inline", extent |-> 1]
      BY <2>3
    <3>2. Extent = 1
      BY <1>1, <2>3, ExtentIs
    <3>3. /\ OwnedOk(plan.region) /\ plan.region.extent = Extent
          /\ Larger(plan.region.extent, 1) = Extent /\ required <= Extent
      BY <2>3, <3>1, <3>2 DEF OwnedOk, Larger
    <3>4. plan.region.origin = "Saved" <=> region.origin = "Saved"
      BY <2>3, <3>1
    <3> HIDE DEF plan
    <3> QED
      BY <1>4, <2>1, <3>1, <3>3, <3>4, DisplayedHere DEF plan
  <2>4. CASE /\ plan = [ops |-> AnchorOps(required),
                        region |-> [origin |-> "Saved", extent |-> required], anew |-> TRUE]
             /\ required >= 2 /\ required > Extent
    <3> HIDE DEF plan
    <3> QED
      BY <1>1, <1>4, <2>1, <2>4, DisplayedAnew DEF plan
  <2> QED
    BY <1>1, <1>2, <1>4, <2>1, <2>2, <2>3, <2>4, PlanIs
<1> QED
  BY <1>3, <1>4

-----------------------------------------------------------------------------
(* RenderInv is inductive.                                                   *)

LEMMA Cuts ==
  ASSUME NEW t \in Terminals, NEW n \in Nat, n <= Len(t.above) + Rows
  PROVE  /\ SubSeq(AllRows(t), 1, n) \in Seq(RowValues) /\ Len(SubSeq(AllRows(t), 1, n)) = n
         /\ t \in Standing(SubSeq(AllRows(t), 1, n))
<1> DEFINE all == AllRows(t)
           cut == SubSeq(all, 1, n)
<1>1. all \in Seq(RowValues) /\ n <= Len(all)
  BY AllRowsAt
<1> HIDE DEF all
<1>2. cut \in Seq(RowValues) /\ Len(cut) = n /\ \A i \in 1 .. n : cut[i] = all[i]
  BY <1>1
<1> HIDE DEF cut
<1>3. IsPrefix(cut, all)
  BY <1>1, <1>2, PrefixAt
<1>4. t \in Standing(cut)
  BY <1>3 DEF Standing, all
<1> QED
  BY <1>2, <1>4 DEF cut, all

\* A region begins where the rows above end.
LEMMA StartsOver ==
  ASSUME NEW t \in Terminals, NEW k \in Int
  PROVE  /\ RowsBefore(t) \in Seq(RowValues) /\ t \in Standing(RowsBefore(t))
         /\ t \in Clear(RowsBefore(t), "Unanchored", 1, k) /\ RowOf(t, RowsBefore(t)) = 0
         /\ t \in Clear(RowsBefore(t), "Inline", 1, k)
<1> DEFINE ta == Len(t.above)
           tr == t.at[1]
           h == RowsBefore(t)
<1>1. ta \in Nat /\ tr \in 0 .. (Rows - 1) /\ Rows \in Nat
  BY SizeAssumption DEF Terminals, Places
<1>2. ta + tr \in Nat /\ ta + tr <= ta + Rows
  BY <1>1
<1>3. h = SubSeq(AllRows(t), 1, ta + tr)
  BY DEF RowsBefore
<1> HIDE DEF h
<1>4. h \in Seq(RowValues) /\ Len(h) = ta + tr /\ t \in Standing(h)
  BY <1>2, <1>3, Cuts
<1>5. RowOf(t, h) = ta + tr - Len(h) /\ Bottom(t, h) = ta + Rows - 1 - Len(h)
  BY DEF RowOf, Bottom
<1> HIDE DEF ta, tr
<1>6. RowOf(t, h) = 0 /\ Bottom(t, h) >= 1 - 1
  BY <1>1, <1>4, <1>5
<1> QED
  BY <1>4, <1>6 DEF Clear, h

LEMMA StartsAtOrigin ==
  ASSUME NEW h \in Seq(RowValues), NEW e \in Nat \ {0}, NEW t \in Clear(h, "Saved", e, Rows - e)
  PROVE  LET cut == SubSeq(AllRows(t), 1, Len(t.above) + t.saved.at[1])
         IN /\ cut \in Seq(RowValues) /\ t \in Standing(cut)
            /\ t \in Clear(cut, "Saved", e, Rows - e)
<1> DEFINE ta == Len(t.above)
           ts == t.saved.at[1]
           cut == SubSeq(AllRows(t), 1, ta + ts)
<1>1. t \in Standing(h) /\ ts <= Rows - e
  BY DEF Clear
<1>2. ta \in Nat /\ ts \in 0 .. (Rows - 1) /\ Rows \in Nat
  BY <1>1, PlaceTypes
<1>3. ta + ts \in Nat /\ ta + ts <= ta + Rows /\ t \in Terminals
  <2>1. t \in Terminals
    BY <1>1, GoodSets
  <2> HIDE DEF ta, ts, cut
  <2> QED
    BY <1>2, <2>1
<1>4. cut \in Seq(RowValues) /\ Len(cut) = ta + ts /\ t \in Standing(cut)
  BY <1>3, Cuts
<1> HIDE DEF cut
<1>5. SavedRow(t, cut) = ta + ts - Len(cut) /\ Bottom(t, cut) = ta + Rows - 1 - Len(cut)
  BY DEF SavedRow, Bottom
<1>6. SavedRow(t, cut) >= 0 /\ Bottom(t, cut) >= e - 1
  <2> HIDE DEF ta, ts
  <2> QED
    BY <1>1, <1>2, <1>4, <1>5
<1>7. t \in Clear(cut, "Saved", e, Rows - e)
  BY <1>1, <1>4, <1>6 DEF Clear
<1> QED
  BY <1>4, <1>7 DEF cut

LEMMA HostRowIsRow == HostRow("h") \in RowValues
<1>1. "h" \in Marks /\ "off" \in Literals /\ Blank \in Marks \X Literals
  BY BlankRowIsRow DEF Marks, Literals
<1>2. <<"h", "off">> \in Marks \X Literals
  BY <1>1
<1> QED
  BY <1>1, <1>2, BlankRowIsRow DEF HostRow, RowValues

LEMMA FreshIsTerminal ==
  ASSUME NEW row \in 0 .. (Rows - 1)
  PROVE  FreshTerminal(row, "h") \in Terminals
<1>1. HostRow("h") \in RowValues /\ BlankRow \in RowValues
  BY HostRowIsRow, BlankRowIsRow
<1> DEFINE screen == [r \in 0..(Rows - 1) |-> IF r < row THEN HostRow("h") ELSE BlankRow]
<1>2. screen \in [0 .. (Rows - 1) -> RowValues]
  BY <1>1
<1>3. <<row, 0>> \in Places /\ <<0, 0>> \in Places
  BY SizeAssumption DEF Places
<1>4. "off" \in Literals
  BY DEF Literals
<1>5. FreshTerminal(row, "h")
        = [screen |-> screen, above |-> <<>>, at |-> <<row, 0>>, held |-> FALSE,
           attribute |-> "off", saved |-> [at |-> <<0, 0>>, attribute |-> "off"]]
  BY Zenon DEF FreshTerminal
<1> DEFINE p == <<row, 0>>
           q == <<0, 0>>
           off == "off"
           none == <<>>
           no == FALSE
           saved == [at |-> q, attribute |-> off]
<1>6. p \in Places /\ q \in Places /\ off \in Literals /\ none \in Seq(RowValues) /\ no \in BOOLEAN
  BY <1>3, <1>4
<1>7. FreshTerminal(row, "h")
        = [screen |-> screen, above |-> none, at |-> p, held |-> no,
           attribute |-> off, saved |-> saved]
  BY <1>5
<1> HIDE DEF screen, p, q, off, none, no
<1>8. saved \in [at : Places, attribute : Literals]
  BY <1>6
<1> HIDE DEF saved
<1> QED
  BY <1>2, <1>6, <1>7, <1>8 DEF Terminals

LEMMA WithHostIsTerminal ==
  ASSUME NEW t \in Terminals
  PROVE  WithHostRows(t, "h") \in Terminals
<1>1. HostRow("h") \in RowValues
  BY HostRowIsRow
<1> DEFINE screen == [r \in 0..(Rows - 1) |-> IF r < t.at[1] THEN HostRow("h") ELSE t.screen[r]]
<1>2. screen \in [0 .. (Rows - 1) -> RowValues]
  BY <1>1 DEF Terminals
<1>3. WithHostRows(t, "h") = [[t EXCEPT !.above = <<>>] EXCEPT !.screen = screen]
  BY Zenon DEF WithHostRows
<1> DEFINE none == <<>>
<1>4. none \in Seq(RowValues)
  OBVIOUS
<1> HIDE DEF screen, none
<1>5. [[t EXCEPT !.above = none] EXCEPT !.screen = screen] \in Terminals
  BY <1>2, <1>4 DEF Terminals
<1> QED
  BY <1>3, <1>5 DEF none

\* A region that begins where the rows above end is well placed.
LEMMA FreshRegion ==
  ASSUME region' = Unanchored, at' = <<0, 0>>, term' \in Terminals, host' = RowsBefore(term')
  PROVE  /\ host' \in Seq(RowValues) /\ term' \in Standing(host') /\ RegionOk' /\ PlaceOk'
         /\ Extent' = 1
<1>1. region'.origin = "Unanchored" /\ region'.extent = 0 /\ region' \in [origin : Origins, extent : Nat]
  BY DEF Unanchored, Origins
<1>2. Extent' = 1
  BY <1>1 DEF Extent, Larger
<1>3. Rows - 1 \in Int
  BY SizeAssumption
<1>4. /\ host' \in Seq(RowValues) /\ term' \in Standing(host')
      /\ term' \in Clear(host', "Unanchored", 1, Rows - 1) /\ RowOf(term', host') = 0
  BY <1>3, StartsOver
<1>5. RegionOk'
  BY <1>1 DEF RegionOk
<1>6. at'[1] = 0
  OBVIOUS
<1> QED
  BY <1>1, <1>2, <1>4, <1>5, <1>6 DEF PlaceOk

LEMMA InitRenders == ASSUME DisplayInit PROVE RenderInv
<1>1. PICK row \in 0 .. (Rows - 1) :
        term = FreshTerminal(row, "h") /\ host = RowsBefore(FreshTerminal(row, "h"))
  BY DEF DisplayInit
<1>2. term \in Terminals /\ host = RowsBefore(term)
  BY <1>1, FreshIsTerminal
<1>3. /\ region = Unanchored /\ prompt \in Prompts /\ line = <<>> /\ cursor = 0
      /\ rows = <<>> /\ at = <<0, 0>> /\ redraw = FALSE /\ damaged = FALSE /\ shown = FALSE
  BY DEF DisplayInit
<1>4. region.origin = "Unanchored" /\ region.extent = 0 /\ region \in [origin : Origins, extent : Nat]
  BY <1>3 DEF Unanchored, Origins
<1>5. Extent = 1
  BY <1>4 DEF Extent, Larger
<1>6. Rows - 1 \in Int
  BY SizeAssumption
<1>7. /\ host \in Seq(RowValues) /\ term \in Standing(host)
      /\ term \in Clear(host, "Unanchored", 1, Rows - 1) /\ RowOf(term, host) = 0
  BY <1>2, <1>6, StartsOver
<1>8. at[1] = 0
  BY <1>3
<1>9. RegionOk
  BY <1>4 DEF RegionOk
<1>10. CommittedOk
  <2>1. rows \in Seq(FrameRows) /\ Len(rows) = 0 /\ at \in Nat \X Nat
    BY <1>3
  <2>2. shown \in BOOLEAN /\ damaged \in BOOLEAN /\ redraw \in BOOLEAN
    BY <1>3
  <2> QED
    BY <1>5, <1>8, <2>1, <2>2 DEF CommittedOk
<1>11. InputOk
  BY <1>3 DEF InputOk
<1>12. PlaceOk
  BY <1>4, <1>5, <1>7, <1>8 DEF PlaceOk
<1> QED
  BY <1>7, <1>9, <1>10, <1>11, <1>12 DEF RenderInv

\* Where only what is to be shown, or whether it is, changes.
LEMMA InputSteps ==
  ASSUME RenderInv, InputOk', UNCHANGED <<term, profile, rows, at, region, damaged, host>>,
         shown' => shown, shown' \in BOOLEAN, redraw' \in BOOLEAN
  PROVE  RenderInv'
<1>1. Extent' = Extent
  BY DEF Extent
<1>2. RegionOk' /\ CommittedOk' /\ PlaceOk'
  <2>1. RegionOk /\ CommittedOk /\ PlaceOk
    BY DEF RenderInv
  <2>2. RegionOk'
    BY <2>1 DEF RegionOk, Addressed
  <2>3. CommittedOk'
    BY <1>1, <2>1 DEF CommittedOk
  <2>4. PlaceOk'
    BY <1>1, <2>1 DEF PlaceOk
  <2> QED
    BY <2>2, <2>3, <2>4
<1> QED
  BY <1>2 DEF RenderInv

LEMMA Joined ==
  \A s, t \in Seq(Glyphs) :
    /\ s \o t \in Seq(Glyphs) /\ Len(s \o t) = Len(s) + Len(t)
    /\ \A g \in Glyphs : s \o <<g>> \o t \in Seq(Glyphs) /\ Len(s \o <<g>> \o t) = Len(s) + 1 + Len(t)
  OBVIOUS

LEMMA InsertOk ==
  ASSUME InputOk, NEW g \in Glyphs, Insert(g)
  PROVE  InputOk'
<1>1. /\ line \in Seq(Glyphs) /\ cursor \in 0 .. Len(line) /\ prompt \in Prompts
      /\ prompt' = prompt /\ cursor' = cursor + 1
      /\ line' = SubSeq(line, 1, (cursor + 1) - 1) \o <<g>> \o SubSeq(line, cursor + 1, Len(line))
  BY DEF InputOk, Insert, Edited, InsertAt
<1> DEFINE before == SubSeq(line, 1, (cursor + 1) - 1)
           behind == SubSeq(line, cursor + 1, Len(line))
<1>2. before \in Seq(Glyphs) /\ Len(before) = cursor
  BY <1>1
<1>3. behind \in Seq(Glyphs) /\ Len(behind) \in Nat
  BY <1>1
<1>4. line' = before \o <<g>> \o behind
  BY <1>1
<1> HIDE DEF before, behind
<1>5. line' \in Seq(Glyphs) /\ Len(line') = Len(before) + 1 + Len(behind)
  BY <1>2, <1>3, <1>4, Joined
<1>6. cursor' \in 0 .. Len(line')
  <2>1. cursor \in Nat /\ cursor' = cursor + 1
    BY <1>1
  <2>2. Len(line') = cursor + 1 + Len(behind)
    BY <1>2, <1>5
  <2> QED
    BY <1>3, <2>1, <2>2
<1> QED
  BY <1>1, <1>5, <1>6 DEF InputOk

LEMMA DeleteOk ==
  ASSUME InputOk, Delete
  PROVE  InputOk'
<1>1. /\ line \in Seq(Glyphs) /\ cursor \in 0 .. Len(line) /\ prompt \in Prompts /\ cursor > 0
      /\ prompt' = prompt /\ cursor' = cursor - 1
      /\ line' = SubSeq(line, 1, cursor - 1) \o SubSeq(line, cursor + 1, Len(line))
  BY DEF InputOk, Delete, Edited, RemoveAt
<1> DEFINE before == SubSeq(line, 1, cursor - 1)
           behind == SubSeq(line, cursor + 1, Len(line))
<1>2. before \in Seq(Glyphs) /\ Len(before) = cursor - 1
  BY <1>1
<1>3. behind \in Seq(Glyphs) /\ Len(behind) \in Nat
  BY <1>1
<1>4. line' = before \o behind
  BY <1>1
<1> HIDE DEF before, behind
<1>5. line' \in Seq(Glyphs) /\ Len(line') = Len(before) + Len(behind)
  BY <1>2, <1>3, <1>4, Joined
<1>6. cursor' \in 0 .. Len(line')
  <2>1. cursor \in Nat \ {0} /\ cursor' = cursor - 1
    BY <1>1
  <2>2. Len(line') = cursor - 1 + Len(behind)
    BY <1>2, <1>5
  <2> QED
    BY <1>3, <2>1, <2>2
<1> QED
  BY <1>1, <1>5, <1>6 DEF InputOk

\* The edits, and an order to draw everything.
LEMMA EditsRender ==
  ASSUME RenderInv,
         (\E g \in Glyphs : Insert(g)) \/ Delete \/ (\E c \in 0 .. Len(line) : Move(c)) \/ Redraw
  PROVE  RenderInv'
<1>1. InputOk /\ redraw \in BOOLEAN /\ shown \in BOOLEAN
  BY DEF RenderInv, CommittedOk
<1>2. CASE \E g \in Glyphs : Insert(g)
  <2>1. PICK g \in Glyphs : Insert(g)
    BY <1>2
  <2>2. InputOk'
    BY <1>1, <2>1, InsertOk
  <2>3. /\ UNCHANGED <<term, profile, rows, at, region, damaged, host>>
        /\ (shown' => shown) /\ shown' \in BOOLEAN /\ redraw' \in BOOLEAN
    BY <1>1, <2>1 DEF Insert, Edited, confVars
  <2> QED
    BY <2>2, <2>3, InputSteps
<1>3. CASE Delete
  <2>1. InputOk'
    BY <1>1, <1>3, DeleteOk
  <2>2. /\ UNCHANGED <<term, profile, rows, at, region, damaged, host>>
        /\ (shown' => shown) /\ shown' \in BOOLEAN /\ redraw' \in BOOLEAN
    BY <1>1, <1>3 DEF Delete, Edited, confVars
  <2> QED
    BY <2>1, <2>2, InputSteps
<1>4. CASE \E c \in 0 .. Len(line) : Move(c)
  <2>1. PICK c \in 0 .. Len(line) : Move(c)
    BY <1>4
  <2>2. InputOk'
    BY <1>1, <2>1 DEF InputOk, Move, Edited
  <2>3. /\ UNCHANGED <<term, profile, rows, at, region, damaged, host>>
        /\ (shown' => shown) /\ shown' \in BOOLEAN /\ redraw' \in BOOLEAN
    BY <1>1, <2>1 DEF Move, Edited, confVars
  <2> QED
    BY <2>2, <2>3, InputSteps
<1>5. CASE Redraw
  <2>1. InputOk'
    BY <1>1, <1>5 DEF InputOk, Redraw, inputVars
  <2>2. /\ UNCHANGED <<term, profile, rows, at, region, damaged, host>>
        /\ (shown' => shown) /\ shown' \in BOOLEAN /\ redraw' \in BOOLEAN
    BY <1>1, <1>5 DEF Redraw
  <2> QED
    BY <2>1, <2>2, InputSteps
<1> QED
  BY <1>2, <1>3, <1>4, <1>5

LEMMA FrameFits == ASSUME InputOk PROVE FrameOk(Frame)
  BY FrameIs DEF FrameOk

LEMMA PresentRenders == ASSUME RenderInv, Present PROVE RenderInv'
<1> DEFINE frame == Frame
           plan == Planned(frame)
           ops == PresentOps(frame, plan)
           owned == plan.region
           e == Larger(owned.extent, 1)
<1>1. /\ ~Refused(frame) /\ term' = Shows(term, ops) /\ rows' = frame.rows /\ at' = frame.at
      /\ region' = owned /\ redraw' = FALSE /\ damaged' = FALSE /\ shown' = TRUE
      /\ UNCHANGED <<profile, inputVars, host, mishaps>>
  BY DEF Present, PresentFrame
<1>2. FrameOk(frame) /\ InputOk /\ host \in Seq(RowValues)
  BY FrameFits DEF RenderInv
<1> HIDE DEF frame
<1>3. Displays(frame, plan)
  BY <1>1, <1>2, PresentRuns
<1> HIDE DEF plan
<1>4. /\ Runs(ops, {term}, ShowsIn(owned, frame.at[1]), FinishStays(plan)) /\ OwnedOk(owned)
      /\ Len(frame.rows) <= e
  BY <1>3 DEF Displays
<1>5. term' \in ShowsIn(owned, frame.at[1])
  BY <1>1, <1>4 DEF Runs
<1>6. Extent' = e
  BY <1>1 DEF Extent
<1> HIDE DEF owned
<1>7. /\ owned.origin # "Lost" /\ RegionOk'
  BY <1>1, <1>4 DEF OwnedOk, RegionOk, Origins
<1> HIDE DEF e
<1>8. CommittedOk'
  <2>1. frame.rows \in Seq(FrameRows) /\ frame.at \in Nat \X Nat /\ frame.at[1] < Len(frame.rows)
    BY <1>2 DEF FrameOk
  <2>2. e \in Nat
    BY <1>4 DEF e, OwnedOk, Larger
  <2>3. frame.at[1] < e
    BY <1>4, <2>1, <2>2
  <2> QED
    BY <1>1, <1>4, <1>6, <2>1, <2>3 DEF CommittedOk
<1>9. /\ term' \in Clear(host', owned.origin, e, Rows - e) /\ term' \in Standing(host')
      /\ RowOf(term', host') >= frame.at[1]
  BY <1>1, <1>5, GoodSets DEF ShowsIn, Good, e
<1>10. RowOf(term', host') >= 0
  <2>1. RowOf(term', host') \in Int
    BY <1>1, <1>2, <1>9, PlaceTypes
  <2>2. frame.at[1] \in Nat
    BY <1>2 DEF FrameOk
  <2> QED
    BY <1>9, <2>1, <2>2
<1>11. PlaceOk'
  BY <1>1, <1>6, <1>9, <1>10 DEF PlaceOk
<1>12. InputOk'
  BY <1>1, <1>2 DEF InputOk, inputVars
<1> QED
  BY <1>1, <1>2, <1>7, <1>8, <1>9, <1>11, <1>12 DEF RenderInv

\* A write that failed leaves the terminal where the region can still be reached.
LEMMA FailedRenders ==
  ASSUME RenderInv, NEW plan, plan.anew \in BOOLEAN, plan.anew => Addressed, region.origin # "Lost",
         WriteFailed(plan), term' \in FinishStays(plan), UNCHANGED host
  PROVE  RenderInv'
<1>1. /\ region' = (IF plan.anew THEN [region EXCEPT !.origin = "Lost"] ELSE region)
      /\ redraw' = FALSE /\ damaged' = TRUE /\ shown' = FALSE
      /\ UNCHANGED <<profile, prompt, line, cursor, rows, at>>
  BY DEF WriteFailed, inputVars
<1>2. RegionOk /\ CommittedOk /\ InputOk /\ PlaceOk /\ host \in Seq(RowValues)
  BY DEF RenderInv
<1>3. region'.extent = region.extent /\ Extent' = Extent
  BY <1>1, <1>2 DEF Extent, RegionOk
<1>4. term' \in Standing(host')
  BY Begins DEF FinishStays
<1>5. InputOk' /\ CommittedOk'
  BY <1>1, <1>2, <1>3 DEF InputOk, CommittedOk
<1>6. RegionOk' /\ PlaceOk'
  <2>1. CASE plan.anew
    <3>1. region'.origin = "Lost" /\ Addressed /\ region' \in [origin : Origins, extent : Nat]
      BY <1>1, <1>2, <2>1 DEF RegionOk, Origins
    <3> QED
      BY <1>1, <3>1 DEF RegionOk, PlaceOk, Addressed
  <2>2. CASE ~plan.anew
    <3>1. region' = region /\ term' \in Way0
      BY <1>1, <2>2 DEF FinishStays
    <3> QED
      BY <1>1, <1>2, <1>3, <3>1 DEF RegionOk, PlaceOk, Addressed, Way0
  <2> QED
    BY <2>1, <2>2
<1> QED
  BY <1>2, <1>4, <1>5, <1>6 DEF RenderInv

LEMMA PlannedIs ==
  ASSUME RenderInv, NEW frame, FrameOk(frame), ~Refused(frame)
  PROVE  region.origin # "Lost" /\ Planned(frame).anew \in BOOLEAN
<1>1. RegionOk
  BY DEF RenderInv
<1>2. region.origin # "Lost"
  BY <1>1 DEF Refused, RegionOk
<1>3. CASE Addressed
  <2>1. Len(frame.rows) \in Nat \ {0}
    BY DEF FrameOk
  <2> DEFINE P == PlanRegion(Len(frame.rows))
  <2>2. Planned(frame) = P
    BY DEF Planned
  <2>3. \/ P = Unchanged
        \/ P = [ops |-> <<>>, region |-> [origin |-> "Inline", extent |-> 1], anew |-> FALSE]
        \/ P = [ops |-> AnchorOps(Len(frame.rows)),
                region |-> [origin |-> "Saved", extent |-> Len(frame.rows)], anew |-> TRUE]
    BY <1>1, <1>2, <1>3, <2>1, PlanIs
  <2> HIDE DEF P
  <2>4. P.anew = FALSE \/ P.anew = TRUE
    <3>1. Unchanged.anew = FALSE
      BY DEF Unchanged
    <3> QED
      BY <2>3, <3>1
  <2> QED
    BY <1>2, <2>2, <2>4
<1>4. CASE ~Addressed
  <2>1. Planned(frame) = Unchanged
    BY Zenon, <1>4 DEF Planned, PlanRegion
  <2> QED
    BY <1>2, <2>1 DEF Unchanged
<1> QED
  BY <1>3, <1>4

LEMMA PresentFailsRenders == ASSUME RenderInv, PresentFails PROVE RenderInv'
<1> DEFINE frame == Frame
           plan == Planned(frame)
           ops == PresentOps(frame, plan)
<1>1. /\ ~Refused(frame) /\ WriteFailed(plan) /\ Interrupted(ops) /\ UNCHANGED host
  BY DEF PresentFails
<1>2. FrameOk(frame)
  BY FrameFits DEF RenderInv
<1> HIDE DEF frame
<1>3. Displays(frame, plan) /\ region.origin # "Lost" /\ plan.anew \in BOOLEAN
  BY <1>1, <1>2, PresentRuns, PlannedIs
<1> HIDE DEF plan
<1>4. Runs(ops, {term}, ShowsIn(plan.region, frame.at[1]), FinishStays(plan)) /\ (plan.anew => Addressed)
  BY <1>3 DEF Displays
<1>5. term' \in FinishStays(plan)
  BY <1>1, <1>4 DEF Runs, Interrupted
<1> QED
  BY <1>1, <1>3, <1>4, <1>5, FailedRenders

LEMMA NextLineRenders ==
  ASSUME RenderInv, NEW t \in Terminals, NextLine(t)
  PROVE  RenderInv'
<1>1. /\ term' = WithHostRows(t, "h") /\ host' = RowsBefore(term')
      /\ rows' = <<>> /\ at' = <<0, 0>> /\ region' = Unanchored
      /\ redraw' = FALSE /\ damaged' = FALSE /\ line' = <<>> /\ cursor' = 0 /\ shown' = FALSE
      /\ prompt' = prompt
  BY DEF NextLine
<1>2. term' \in Terminals
  BY <1>1, WithHostIsTerminal
<1>3. /\ host' \in Seq(RowValues) /\ term' \in Standing(host') /\ RegionOk' /\ PlaceOk'
      /\ Extent' = 1
  BY <1>1, <1>2, FreshRegion
<1>4. InputOk'
  <2>1. prompt \in Prompts
    BY DEF RenderInv, InputOk
  <2> QED
    BY <1>1, <2>1 DEF InputOk
<1>5. CommittedOk'
  <2>1. rows' \in Seq(FrameRows) /\ Len(rows') = 0 /\ at' \in Nat \X Nat /\ at'[1] = 0
    BY <1>1
  <2>2. shown' \in BOOLEAN /\ damaged' \in BOOLEAN /\ redraw' \in BOOLEAN
    BY <1>1
  <2> QED
    BY <1>3, <2>1, <2>2 DEF CommittedOk
<1> QED
  BY <1>3, <1>4, <1>5 DEF RenderInv

LEMMA StaysAreTerminals ==
  ASSUME NEW plan
  PROVE  FinishStays(plan) \in SUBSET Terminals
  BY GoodSets DEF FinishStays, Way0

LEMMA EchoesAre == \A echo \in Echoes : echo \in Seq(Atoms)
  BY TextsAssumption DEF Texts

LEMMA FinishRenders ==
  ASSUME RenderInv, NEW echo \in Echoes, FinishLine(echo)
  PROVE  RenderInv'
<1> DEFINE ops == FinishOps(echo, PlanFinish(echo))
           stays == FinishStays(PlanFinish(echo))
<1>1. ~FinishRefused /\ NextLine(Shows(term, ops))
  BY DEF FinishLine
<1>2. Runs(ops, {term}, stays, stays)
  BY <1>1, EchoesAre, FinishRuns
<1>3. stays \in SUBSET Terminals
  BY StaysAreTerminals
<1> HIDE DEF ops, stays
<1>4. Shows(term, ops) \in Terminals
  BY <1>2, <1>3 DEF Runs
<1> QED
  BY <1>1, <1>4, NextLineRenders

LEMMA FinishFailsRenders ==
  ASSUME RenderInv, NEW echo \in Echoes, FinishFails(echo)
  PROVE  RenderInv'
<1> DEFINE plan == PlanFinish(echo)
           ops == FinishOps(echo, plan)
<1>1. /\ ~FinishRefused /\ WriteFailed(plan) /\ Interrupted(ops)
      /\ host' = IF plan.anew THEN host ELSE RowsBeforeOrigin(term')
  BY DEF FinishFails
<1>2. Runs(ops, {term}, FinishStays(plan), FinishStays(plan))
  BY <1>1, EchoesAre, FinishRuns
<1>3. region.origin # "Lost"
  BY <1>1 DEF FinishRefused
<1>4. (plan.anew = FALSE \/ plan.anew = TRUE) /\ (plan.anew => Addressed)
  <2>1. \/ plan = Unchanged
        \/ \E required \in Nat :
             /\ Addressed
             /\ plan = [ops |-> AnchorOps(required),
                        region |-> [origin |-> "Saved", extent |-> required], anew |-> TRUE]
    BY <1>1, EchoesAre, FinishPlanIs
  <2>2. Unchanged.anew = FALSE
    BY DEF Unchanged
  <2> HIDE DEF plan
  <2> QED
    BY <2>1, <2>2
<1> HIDE DEF plan
<1>5. term' \in FinishStays(plan)
  BY <1>1, <1>2 DEF Runs, Interrupted
<1>6. CASE plan.anew = TRUE
  <2>1. UNCHANGED host
    BY <1>1, <1>6
  <2>2. plan.anew \in BOOLEAN /\ (plan.anew => Addressed)
    BY <1>4
  <2>3. WriteFailed(plan)
    BY <1>1
  <2> QED
    BY <1>3, <1>5, <2>1, <2>2, <2>3, FailedRenders
<1>7. CASE plan.anew = FALSE
  <2>1. /\ region' = region /\ redraw' = FALSE /\ damaged' = TRUE /\ shown' = FALSE
        /\ UNCHANGED <<profile, prompt, line, cursor, rows, at>>
    BY <1>1, <1>7 DEF WriteFailed, inputVars
  <2>2. host' = RowsBeforeOrigin(term') /\ term' \in Way0
    BY <1>1, <1>5, <1>7 DEF FinishStays
  <2>3. RegionOk /\ CommittedOk /\ InputOk /\ host \in Seq(RowValues) /\ Extent \in Nat \ {0}
    BY <1>3, Begins
  <2>4. Extent' = Extent
    BY <2>1 DEF Extent
  <2>5. InputOk' /\ CommittedOk' /\ RegionOk'
    <3>1. InputOk'
      BY <2>1, <2>3 DEF InputOk
    <3>2. CommittedOk'
      BY <2>1, <2>3, <2>4 DEF CommittedOk
    <3>3. RegionOk'
      BY <1>3, <2>1, <2>3 DEF RegionOk
    <3> QED
      BY <3>1, <3>2, <3>3
  <2>6. /\ host' \in Seq(RowValues) /\ term' \in Standing(host')
        /\ term' \in Clear(host', region.origin, Extent, Rows - Extent)
    <3>1. CASE region.origin = "Saved"
      <4> DEFINE cut == SubSeq(AllRows(term'), 1, Len(term'.above) + term'.saved.at[1])
      <4>1. host' = cut
        BY <2>2, <3>1 DEF RowsBeforeOrigin
      <4>2. term' \in Clear(host, "Saved", Extent, Rows - Extent)
        BY <2>2, <3>1 DEF Way0
      <4>3. /\ cut \in Seq(RowValues) /\ term' \in Standing(cut)
            /\ term' \in Clear(cut, "Saved", Extent, Rows - Extent)
        BY <2>3, <4>2, StartsAtOrigin
      <4> QED
        BY <3>1, <4>1, <4>3
    <3>2. CASE region.origin # "Saved"
      <4>1. host' = RowsBefore(term')
        BY <2>2, <3>2 DEF RowsBeforeOrigin
      <4>2. term' \in Terminals
        BY <1>5, StaysAreTerminals
      <4>3. region.origin \in {"Unanchored", "Inline"} /\ Extent = 1 /\ Rows - Extent \in Int
        BY <1>3, <2>3, <3>2, ExtentIs, Begins DEF RegionOk, Origins
      <4>4. /\ RowsBefore(term') \in Seq(RowValues) /\ term' \in Standing(RowsBefore(term'))
            /\ term' \in Clear(RowsBefore(term'), "Unanchored", 1, Rows - Extent)
            /\ term' \in Clear(RowsBefore(term'), "Inline", 1, Rows - Extent)
        BY <4>2, <4>3, StartsOver
      <4> QED
        BY <4>1, <4>3, <4>4
    <3> QED
      BY <3>1, <3>2
  <2>7. PlaceOk'
    BY <2>1, <2>4, <2>6 DEF PlaceOk
  <2> QED
    BY <2>5, <2>6, <2>7 DEF RenderInv
<1> QED
  BY <1>4, <1>6, <1>7

LEMMA DamageRenders == ASSUME RenderInv, Damage PROVE RenderInv'
<1>1. /\ shown /\ term' = Put(term, "x") /\ redraw' = FALSE /\ damaged' = TRUE /\ shown' = FALSE
      /\ UNCHANGED <<profile, prompt, line, cursor, rows, at, region, host>>
  BY DEF Damage, inputVars
<1>2. /\ RegionOk /\ CommittedOk /\ InputOk /\ PlaceOk /\ host \in Seq(RowValues)
      /\ term \in Standing(host)
  BY DEF RenderInv
<1>3. region.origin # "Lost"
  BY <1>1, <1>2 DEF RegionOk
<1> DEFINE o == region.origin
           e == Extent
           k == Rows - Extent
<1>4. term \in Clear(host, o, e, k) /\ RowOf(term, host) >= 0
  BY <1>1, <1>2, <1>3 DEF PlaceOk
<1>5. term \in Good(host, o, e, k, 0)
  BY <1>4 DEF Good
<1>6. term' \in Standing(host) /\ Level(term, term')
  BY <1>1, <1>2, <1>4, Puts
<1>7. e \in Int /\ k \in Int /\ 0 \in Nat
  BY <1>3, Begins
<1>8. Extent' = Extent
  BY <1>1 DEF Extent
<1> HIDE DEF o, e, k
<1>9. term' \in Good(host, o, e, k, 0)
  BY <1>2, <1>5, <1>6, <1>7, LevelStays
<1>10. term' \in Clear(host', region'.origin, Extent', Rows - Extent')
  BY <1>1, <1>8, <1>9, GoodSets DEF o, e, k
<1>11. PlaceOk'
  BY <1>1, <1>10 DEF PlaceOk
<1>12. InputOk' /\ CommittedOk'
  BY <1>1, <1>2, <1>8 DEF InputOk, CommittedOk
<1>13. RegionOk'
  BY <1>1, <1>2, <1>3 DEF RegionOk
<1> QED
  BY <1>1, <1>2, <1>6, <1>11, <1>12, <1>13 DEF RenderInv

LEMMA ConfigureRenders ==
  ASSUME RenderInv, NEW p, Configure(p)
  PROVE  RenderInv'
<1>1. CASE region.origin = "Lost"
  <2> DEFINE ops == Repeat(Rows, "nl")
  <2>1. NextLine(Shows(term, ops))
    BY <1>1 DEF Configure
  <2>2. term \in Terminals
    BY GoodSets DEF RenderInv
  <2>3. ops \in Seq(Ops)
    <3>1. "nl" \in Ops /\ Rows \in Nat
      BY SizeAssumption DEF Ops, Controls
    <3> QED
      BY <3>1, Repeats
  <2> HIDE DEF ops
  <2>4. Shows(term, ops) \in Terminals
    <3>1. Len(ops) \in 0 .. Len(ops)
      BY <2>3
    <3> QED
      BY <2>2, <2>3, <3>1, AfterRuns DEF Shows
  <2> QED
    BY <2>1, <2>4, NextLineRenders
<1>2. CASE region.origin # "Lost"
  <2>1. /\ redraw' = FALSE /\ damaged' = TRUE
        /\ UNCHANGED <<term, prompt, line, cursor, rows, at, region, shown, host>>
    BY <1>2 DEF Configure, inputVars
  <2>2. /\ RegionOk /\ CommittedOk /\ InputOk /\ PlaceOk /\ host \in Seq(RowValues)
        /\ term \in Standing(host)
    BY DEF RenderInv
  <2>3. Extent' = Extent
    BY <2>1 DEF Extent
  <2>4. InputOk' /\ CommittedOk'
    BY <2>1, <2>2, <2>3 DEF InputOk, CommittedOk
  <2>5. RegionOk'
    BY <1>2, <2>1, <2>2 DEF RegionOk
  <2>6. PlaceOk'
    <3>1. shown => RowOf(term, host) >= 0
      BY <1>2, <2>2 DEF PlaceOk
    <3>2. term \in Clear(host, region.origin, Extent, Rows - Extent)
      BY <1>2, <2>2 DEF PlaceOk
    <3>3. (shown' => RowOf(term', host') >= 0) /\ term' \in Clear(host', region'.origin, Extent', Rows - Extent')
      BY <2>1, <2>3, <3>1, <3>2
    <3> QED
      BY <2>1, <3>3 DEF PlaceOk
  <2> QED
    BY <2>1, <2>2, <2>4, <2>5, <2>6 DEF RenderInv
<1> QED
  BY <1>1, <1>2

LEMMA StepRenders == ASSUME RenderInv, [DisplayNext]_displayVars PROVE RenderInv'
<1>1. CASE (\E g \in Glyphs : Insert(g)) \/ Delete \/ (\E c \in 0 .. Len(line) : Move(c)) \/ Redraw
  BY <1>1, EditsRender
<1>2. CASE Present
  BY <1>2, PresentRenders
<1>3. CASE PresentFails
  BY <1>3, PresentFailsRenders
<1>4. CASE \E echo \in Echoes : FinishLine(echo) \/ FinishFails(echo)
  BY <1>4, FinishRenders, FinishFailsRenders
<1>5. CASE Damage
  BY <1>5, DamageRenders
<1>6. CASE \E p \in Profiles : Configure(p)
  BY <1>6, ConfigureRenders
<1>7. CASE UNCHANGED displayVars
  <2>1. /\ UNCHANGED <<term, profile, prompt, line, cursor, rows, at, region, redraw, damaged, shown, host>>
    BY <1>7 DEF displayVars, inputVars, confVars
  <2>2. RegionOk /\ CommittedOk /\ InputOk /\ PlaceOk /\ host \in Seq(RowValues) /\ term \in Standing(host)
    BY DEF RenderInv
  <2>3. InputOk'
    BY <2>1, <2>2 DEF InputOk
  <2>4. (shown' => shown) /\ shown' \in BOOLEAN /\ redraw' \in BOOLEAN
    BY <2>1, <2>2 DEF CommittedOk
  <2> QED
    BY <2>1, <2>3, <2>4, InputSteps
<1> QED
  BY <1>1, <1>2, <1>3, <1>4, <1>5, <1>6, <1>7 DEF DisplayNext

\* Whatever is written to display or to finish a line, and wherever a write breaks off,
\* the rows above the line stay what they were; nothing that finishes the line from
\* here could write there either.
LEMMA RendersKeepsRows == RenderInv => HostRowsKept
<1> SUFFICES ASSUME RenderInv PROVE HostRowsKept
  OBVIOUS
<1>1. IsPrefix(host, AllRows(term))
  BY DEF RenderInv, Standing
<1>2. ASSUME ~FinishRefused, NEW echo \in Echoes, NEW ops \in {FinishOps(echo, PlanFinish(echo))},
             NEW n \in 1 .. Len(ops)
      PROVE  IsPrefix(host, AllRows(After(term, ops)[n]))
  <2> DEFINE stays == FinishStays(PlanFinish(echo))
  <2>1. Runs(ops, {term}, stays, stays) /\ ops \in Seq(Ops)
    BY <1>2, EchoesAre, FinishRuns
  <2>2. stays \subseteq Standing(host)
    BY GoodSets DEF FinishStays, Way0
  <2>3. n \in 0 .. Len(ops)
    BY <2>1
  <2> HIDE DEF stays
  <2>4. After(term, ops)[n] \in Standing(host)
    BY <2>1, <2>2, <2>3 DEF Runs
  <2> QED
    BY <2>4 DEF Standing
<1> QED
  BY <1>1, <1>2 DEF HostRowsKept

(* HostRowsKept: plan_region, a display and finish_line never write to a row above *)
(* the line, whichever operation their output ends behind.                          *)
THEOREM HostRowsStay == DisplaySpec => []HostRowsKept
<1>1. DisplayInit => RenderInv
  BY InitRenders
<1>2. RenderInv /\ [DisplayNext]_displayVars => RenderInv'
  BY StepRenders
<1>3. RenderInv => HostRowsKept
  BY RendersKeepsRows
<1> QED
  BY <1>1, <1>2, <1>3, PTL DEF DisplaySpec

=============================================================================
