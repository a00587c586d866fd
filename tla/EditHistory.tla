----------------------------- MODULE EditHistory -----------------------------
(***************************************************************************)
(* The C history handle of histedit.h (nshedit-abi/src/history.rs,         *)
(* history/backend.rs, history/persistence.rs) on values: a HistoryStore   *)
(* whose entries carry integer event numbers, one shared cursor, a limit   *)
(* that is applied when the next line enters, and the number that H_APPEND *)
(* goes back to.                                                           *)
(*                                                                         *)
(* An operation is what it leaves: a record [ok, h] with the reply's       *)
(* success and the handle.  The application's data pointer of an entry,    *)
(* and the C strings kept beside the lines, are left out.                  *)
(***************************************************************************)
EXTENDS HistoryStore

CONSTANT
    LastNumber  \* the last event number there is (the largest C int)

ASSUME LastNumberAssumption == LastNumber \in Nat

NoNumber == -1      \* last_entered before anything entered; matches no event

NewHandle ==
    [store |-> EmptyStore, cursor |-> Live, limit |-> 0, number |-> 0,
     entered |-> NoNumber, foreign |-> FALSE]

Done(h)   == [ok |-> TRUE, h |-> h]
Failed(h) == [ok |-> FALSE, h |-> h]

Ids(h) == IdsOf(h.store)

At(h, id) == [h EXCEPT !.cursor = id]

Lost(h) == At(h, Live)

NumberAt(h) == Entry(h.store, h.cursor).number
LineAt(h)   == Entry(h.store, h.cursor).line

\* The identities whose entry has number n: one at most (NumbersDescend).
WithNumber(h, n) == {id \in Ids(h) : Entry(h.store, id).number = n}

(* Movements ------------------------------------------------------------- *)

Newest(h) ==
    IF Ids(h) = {} THEN Failed(Lost(h)) ELSE Done(At(h, h.store.entries[1].id))

Oldest(h) ==
    IF Ids(h) = {} THEN Failed(Lost(h))
    ELSE Done(At(h, h.store.entries[Size(h.store)].id))

Current(h) == IF h.cursor \in Ids(h) THEN Done(h) ELSE Failed(h)

\* HistoryMove::Older, next() in the code: libedit's names run the other way.
MoveOlder(h) ==
    IF h.cursor = Live THEN Failed(h)
    ELSE LET to == Older(h.store, h.cursor)
         IN  IF to \in Ids(h) /\ to # h.cursor THEN Done(At(h, to)) ELSE Failed(At(h, to))

\* HistoryMove::Newer, previous(): the newest entry is where it stops.
MoveNewer(h) ==
    IF h.cursor = Live \/ (h.cursor \in Ids(h) /\ Position(h.store, h.cursor) = 1)
    THEN Failed(h)
    ELSE LET to == Newer(h.store, h.cursor)
         IN  IF to = Live THEN Failed(Lost(h)) ELSE Done(At(h, to))

(* Selection ------------------------------------------------------------- *)

SelectEvent(h, n) ==
    IF Ids(h) = {} THEN Failed(h)
    ELSE IF h.cursor \in Ids(h) /\ NumberAt(h) = n THEN Done(h)
    ELSE IF WithNumber(h, n) = {} THEN Failed(Lost(h))
    ELSE Done(At(h, CHOOSE id \in WithNumber(h, n) : TRUE))

\* n counts from the oldest entry, which is 0.
SelectNth(h, n) ==
    IF Ids(h) = {} THEN Failed(h)
    ELSE IF n >= Size(h.store) THEN Failed(Lost(h))
    ELSE Done(At(h, h.store.entries[Size(h.store) - n].id))

\* The walk of seek and search: from the entry under the cursor, one move
\* after the other, to the first entry of the set wanted.  It leaves the
\* cursor on what it found, or where the moves gave out.
Walk(h, direction, wanted) ==
    IF ~ Current(h).ok THEN Failed(h)
    ELSE LET here  == Position(h.store, h.cursor)
             reach == IF direction = "older" THEN here .. Size(h.store) ELSE 1 .. here
             hits  == {p \in reach : h.store.entries[p].id \in wanted}
             stop  == IF hits = {} THEN reach ELSE hits
             to    == IF (direction = "older") <=> (hits # {})
                      THEN CHOOSE p \in stop : \A q \in stop : p <= q
                      ELSE CHOOSE p \in stop : \A q \in stop : p >= q
         IN  [ok |-> hits # {}, h |-> At(h, h.store.entries[to].id)]

Seek(h, direction, n) == Walk(h, direction, WithNumber(h, n))

StartsWith(line, prefix) ==
    Len(prefix) <= Len(line) /\ SubSeq(line, 1, Len(prefix)) = prefix

Search(h, direction, prefix) ==
    Walk(h, direction, {id \in Ids(h) : StartsWith(Entry(h.store, id).line, prefix)})

(* Removal --------------------------------------------------------------- *)

\* Mutant: the cursor stays on the removed entry, as a native cursor does.
RemoveUnderCursor(h, id) == [h EXCEPT !.store = Removed(@, id)]

\* The cursor of a removed entry moves to the newer neighbour, or to the
\* older one if the newest entry went.
RemoveEntry(h, id) ==
    LET p == Position(h.store, id)
        heir == IF p > 1 THEN h.store.entries[p - 1].id
                ELSE IF Size(h.store) > 1 THEN h.store.entries[2].id ELSE Live
    IN  [h EXCEPT !.store = WithoutPosition(@, p),
                  !.cursor = IF @ = id THEN heir ELSE @]

DeleteSelected(r) == IF r.ok THEN Done(RemoveEntry(r.h, r.h.cursor)) ELSE r

DeleteEvent(h, n) == DeleteSelected(SelectEvent(h, n))

DeleteNth(h, n) == DeleteSelected(SelectNth(h, n))

\* Numbers start again; last_entered keeps the number of an entry that is gone.
Clear(h) == [h EXCEPT !.store = Cleared(@), !.cursor = Live, !.number = 0]

(* Insertion ------------------------------------------------------------- *)

\* The limit may have been lowered since the last insertion: entries go from
\* the oldest on, the new one included when the limit is 0.
ShrinkTo(h, limit) ==
    LET kept == SubSeq(h.store.entries, 1, limit)
    IN  IF Size(h.store) <= limit THEN h
        ELSE [h EXCEPT !.store.entries = kept,
                       !.cursor = IF kept = <<>> THEN Live ELSE @]

\* Where the new line has the number given to it and the cursor on it.
Entered(h, line) ==
    ShrinkTo([h EXCEPT !.store = Pushed(@, line, h.number + 1),
                       !.number = @ + 1,
                       !.cursor = h.store.next], h.limit)

Numbered(h) == h.number < LastNumber

Inserts(h, line) == Numbered(h) /\ Accepts(h.store, line)

Insert(h, line) ==
    IF Inserts(h, line) THEN Done(Entered(h, line))
    ELSE [ok |-> Numbered(h) /\ IsDuplicate(h.store, line), h |-> h]

\* H_ENTER: a rejected repetition answers no event, which is recorded as 0.
Enter(h, line) ==
    LET r == Insert(h, line)
    IN  IF ~ r.ok THEN r
        ELSE Done([r.h EXCEPT !.entered = IF Inserts(h, line) THEN r.h.number ELSE 0])

\* H_ADD: lengthens the entry under the cursor, or enters a line without
\* recording its number.
Add(h, text) ==
    IF h.cursor = Live THEN Insert(h, text)
    ELSE IF h.cursor \notin Ids(h) THEN Insert(Lost(h), text)
    ELSE Done([h EXCEPT !.store = Rewritten(@, h.cursor, LineAt(h) \o text, NumberAt(h))])

AppendTo(h, text) ==
    LET r == SelectEvent(h, h.entered) IN IF r.ok THEN Add(r.h, text) ELSE r

Replace(h, line) ==
    IF h.cursor \in Ids(h)
    THEN Done([h EXCEPT !.store = Rewritten(@, h.cursor, line, NumberAt(h))])
    ELSE Failed(Lost(h))

(* Settings -------------------------------------------------------------- *)

SetSize(h, limit) == IF h.foreign THEN Failed(h) ELSE Done([h EXCEPT !.limit = limit])

SetUnique(h, unique) == IF h.foreign THEN Failed(h) ELSE Done([h EXCEPT !.store.unique = unique])

\* H_FUNC.  A complete set of callbacks empties the store; an incomplete one
\* is refused, and on a handle with callbacks brings a new store back that
\* keeps nothing until H_SETSIZE.
Install(h, complete) ==
    LET forgotten == [h EXCEPT !.entered = NoNumber]
    IN  IF complete
        THEN Done([(IF h.foreign THEN forgotten ELSE Clear(forgotten)) EXCEPT !.foreign = TRUE])
        ELSE IF h.foreign THEN Failed(NewHandle) ELSE Failed(forgotten)

(* Persistence ----------------------------------------------------------- *)

\* The lines of a file enter one after the other; the first that cannot
\* enter ends the load.
Load(h, lines) ==
    LET after[k \in 0 .. Len(lines)] ==
            IF k = 0 THEN Done(h)
            ELSE IF after[k - 1].ok THEN Enter(after[k - 1].h, lines[k]) ELSE after[k - 1]
    IN  after[Len(lines)]

\* A save walks from an entry to the newest; where it starts is the oldest
\* entry, or with a count (H_NSAVE_FP) as many moves below the newest.
SaveFrom(h, count) ==
    LET n == Size(h.store) IN IF count < n THEN count + 1 ELSE n

\* Mutant: the lines are written in the order of the store.
SavedNewestFirst(h, count) ==
    LET start == SaveFrom(h, count) IN [k \in 1 .. start |-> h.store.entries[k].line]

SavedLines(h, count) ==
    LET start == SaveFrom(h, count)
    IN  [k \in 1 .. start |-> h.store.entries[start + 1 - k].line]

Saved(h) == Newest(h).h
=============================================================================
