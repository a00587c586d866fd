------------------------------ MODULE CHistory ------------------------------
(***************************************************************************)
(* A C history handle and the application that calls history() on it: one  *)
(* action per H_* operation.  The operations share one cursor, so what one *)
(* call finds depends on where the call before left it.                    *)
(*                                                                         *)
(* While foreign callbacks are installed (H_FUNC) every operation goes to  *)
(* them and leaves the handle alone, but for the number that H_ENTER       *)
(* records.                                                                *)
(***************************************************************************)
EXTENDS EditHistory

CONSTANTS
    Letters,    \* what lines are made of
    LineLimit,  \* no line grows longer
    Sizes       \* the sizes that are set

\* A usize each.
ASSUME SizesAssumption == Sizes \subseteq Nat

VARIABLE h      \* the handle

Texts == {<<>>} \cup {<<x>> : x \in Letters}

Numbers == 0 .. LastNumber

Directions == {"older", "newer"}

-----------------------------------------------------------------------------
(* The calls *)

CInit == h = NewHandle

\* A call on the built-in store leaves the handle its operation leaves.
Leaves(r) == ~ h.foreign /\ h' = r.h

HFirst   == Leaves(Newest(h))
HLast    == Leaves(Oldest(h))
HNext    == Leaves(MoveOlder(h))
HPrev    == Leaves(MoveNewer(h))
HSet     == \E n \in Numbers : Leaves(SelectEvent(h, n))
HDel     == \E n \in Numbers : Leaves(DeleteEvent(h, n))
HNth     == \E n \in Numbers : Leaves(SelectNth(h, n))
HDelData == \E n \in Numbers : Leaves(DeleteNth(h, n))
HClear   == Leaves(Done(Clear(h)))
HEnter   == \E line \in Texts : Leaves(Enter(h, line))

HAdd ==
    \E text \in Texts :
        /\ h.cursor \in Ids(h) => Len(LineAt(h) \o text) <= LineLimit
        /\ Leaves(Add(h, text))

HAppend ==
    \E text \in Texts :
        /\ \A id \in Ids(h) : Len(Entry(h.store, id).line \o text) <= LineLimit
        /\ Leaves(AppendTo(h, text))

HReplace == \E line \in Texts : Leaves(Replace(h, line))

\* H_NEXT_EVENT, H_PREV_EVENT and the data lookups are the same walk.
HSeek == \E d \in Directions, n \in Numbers : Leaves(Seek(h, d, n))

HSearch == \E d \in Directions, prefix \in Texts : Leaves(Search(h, d, prefix))

HSetSize == \E n \in Sizes : h' = SetSize(h, n).h

HSetUnique == \E unique \in BOOLEAN : h' = SetUnique(h, unique).h

HFunc == \E complete \in BOOLEAN : h' = Install(h, complete).h

HForeignEnter == \E n \in Numbers : h.foreign /\ h' = [h EXCEPT !.entered = n]

\* H_SAVE and its stream forms leave the cursor where their walk ends.
HSave == Leaves(Done(Saved(h)))

CNext ==
    \/ HFirst \/ HLast \/ HNext \/ HPrev \/ HSet \/ HDel \/ HNth \/ HDelData
    \/ HClear \/ HEnter \/ HAdd \/ HAppend \/ HReplace \/ HSeek \/ HSearch
    \/ HSetSize \/ HSetUnique \/ HFunc \/ HForeignEnter \/ HSave

-----------------------------------------------------------------------------
(* Properties *)

\* Unlike the cursors of the native store, the shared cursor never outlives
\* its entry: removal hands it to a neighbour, eviction and H_CLEAR reset it.
\* The code relies on it with two expect() calls behind a selection.
CursorRetained == h.cursor # Live => h.cursor \in Ids(h)

=============================================================================
