---------------------------- MODULE HistoryStore ----------------------------
(***************************************************************************)
(* The operations of HistoryStore and HistoryCursor                        *)
(* (nshedit/src/history/store.rs) on values: a store is a record, an       *)
(* operation is the store it leaves, a cursor is an identity or Live.      *)
(*                                                                         *)
(* Entries are kept newest first.  An entry carries the line and the       *)
(* metadata the caller gave; the C layer keeps its event number there      *)
(* (history/model.rs), so the field is called number.                      *)
(***************************************************************************)
EXTENDS Integers, Sequences

CONSTANTS
    LastId,     \* the last identity there is (u64::MAX in the code)
    Unbounded   \* the capacity of a store with none

ASSUME LastIdAssumption == LastId \in Nat
ASSUME UnboundedAssumption == Unbounded \notin Nat

None == -1      \* next_id of a store whose identities are used up
Live == -1      \* a cursor on the line being edited

EmptyStore == [entries |-> <<>>, capacity |-> Unbounded, unique |-> FALSE, next |-> 0]

Size(s) == Len(s.entries)

IdsOf(s) == {s.entries[p].id : p \in DOMAIN s.entries}

Position(s, id) == CHOOSE p \in DOMAIN s.entries : s.entries[p].id = id

Entry(s, id) == s.entries[Position(s, id)]

(* push_with ------------------------------------------------------------- *)

IsDuplicate(s, line) == s.unique /\ s.entries # <<>> /\ s.entries[1].line = line

\* The duplicate test comes first: a repeated line is no error even when the
\* identities have run out.
Accepts(s, line) == ~IsDuplicate(s, line) /\ s.next # None

\* One entry is evicted at most.
Pushed(s, line, number) ==
    LET longer == <<[id |-> s.next, line |-> line, number |-> number]>> \o s.entries
        full   == s.capacity # Unbounded /\ Len(longer) > s.capacity
    IN  [s EXCEPT !.entries = IF full THEN SubSeq(longer, 1, Len(longer) - 1) ELSE longer,
                  !.next = IF @ = LastId THEN None ELSE @ + 1]

(* The other operations -------------------------------------------------- *)

Bounded(s, capacity) ==
    [s EXCEPT !.capacity = capacity,
              !.entries = IF capacity = Unbounded \/ Len(@) <= capacity
                          THEN @ ELSE SubSeq(@, 1, capacity)]

\* Mutant: clearing starts the identities again.
ClearedAndRestarted(s) == [s EXCEPT !.entries = <<>>, !.next = 0]

Cleared(s) == [s EXCEPT !.entries = <<>>]

WithoutPosition(s, p) ==
    [s EXCEPT !.entries = SubSeq(@, 1, p - 1) \o SubSeq(@, p + 1, Len(@))]

Removed(s, id) == IF id \in IdsOf(s) THEN WithoutPosition(s, Position(s, id)) ELSE s

\* get_mut: the line and the metadata change, the identity does not.
Rewritten(s, id, line, number) ==
    LET p == Position(s, id)
    IN  [s EXCEPT !.entries[p].line = line, !.entries[p].number = number]

(* Cursors --------------------------------------------------------------- *)

Selected(s, cursor, id) == IF id \in IdsOf(s) THEN id ELSE cursor

\* Mutant: the cursor of an entry that is gone stays on the oldest one.
RepairedToOldest(s, cursor) ==
    IF cursor \in IdsOf(s) THEN cursor
    ELSE IF cursor # Live /\ s.entries # <<>> THEN s.entries[Len(s.entries)].id ELSE Live

\* A cursor whose entry is gone is repaired before the movement is applied.
Repaired(s, cursor) == IF cursor \in IdsOf(s) THEN cursor ELSE Live

\* The position a cursor stands at, 0 being the live line.
Standing(s, cursor) == IF cursor = Live THEN 0 ELSE Position(s, cursor)

Older(s, cursor) ==
    LET at == Repaired(s, cursor)
        p  == Standing(s, at) + 1
    IN  IF p <= Size(s) THEN s.entries[p].id ELSE at

Newer(s, cursor) ==
    LET at == Repaired(s, cursor)
        p  == Standing(s, at) - 1
    IN  IF p >= 1 THEN s.entries[p].id ELSE Live
=============================================================================
