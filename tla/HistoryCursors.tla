--------------------------- MODULE HistoryCursors ---------------------------
(***************************************************************************)
(* One HistoryStore and the cursors its users keep.  The store does not    *)
(* know the cursors: entries are pushed, evicted, removed and cleared      *)
(* while cursors stand on them, and a cursor meets the change only when it *)
(* is moved next.                                                          *)
(***************************************************************************)
EXTENDS HistoryStore

CONSTANTS
    Cursors,    \* the cursors
    Lines,      \* the lines that are pushed
    Limits      \* the capacities that are set

\* A NonZeroUsize each, or none.
Capacities == {limit \in Limits : limit \in Nat \ {0}} \cup {Unbounded}

VARIABLES
    store,      \* the HistoryStore
    cursor      \* where each cursor stands

vars == <<store, cursor>>

Identities == 0 .. LastId

Entries == [id : Identities, line : Lines, number : {0}]

TypeOK ==
    /\ store \in [entries : Seq(Entries), capacity : Capacities,
                  unique : BOOLEAN, next : Identities \cup {None}]
    /\ cursor \in [Cursors -> Identities \cup {Live}]

-----------------------------------------------------------------------------

Init ==
    /\ \E limit \in Capacities :
           store = Bounded(EmptyStore, limit)
    /\ cursor = [c \in Cursors |-> Live]

Push(line) ==
    /\ store' = IF Accepts(store, line) THEN Pushed(store, line, 0) ELSE store
    /\ UNCHANGED cursor

SetCapacity(limit) ==
    /\ store' = Bounded(store, limit)
    /\ UNCHANGED cursor

SetDuplicatePolicy(unique) ==
    /\ store' = [store EXCEPT !.unique = unique]
    /\ UNCHANGED cursor

ClearStore ==
    /\ store' = Cleared(store)
    /\ UNCHANGED cursor

RemoveRecord(id) ==
    /\ store' = Removed(store, id)
    /\ UNCHANGED cursor

Rewrite(id, line) ==
    /\ id \in IdsOf(store)
    /\ store' = Rewritten(store, id, line, 0)
    /\ UNCHANGED cursor

Select(c, id) ==
    /\ cursor' = [cursor EXCEPT ![c] = Selected(store, @, id)]
    /\ UNCHANGED store

Reset(c) ==
    /\ cursor' = [cursor EXCEPT ![c] = Live]
    /\ UNCHANGED store

Previous(c) ==
    /\ cursor' = [cursor EXCEPT ![c] = Older(store, @)]
    /\ UNCHANGED store

Next_(c) ==
    /\ cursor' = [cursor EXCEPT ![c] = Newer(store, @)]
    /\ UNCHANGED store

Next ==
    \/ \E line \in Lines : Push(line)
    \/ \E limit \in Capacities : SetCapacity(limit)
    \/ \E unique \in BOOLEAN : SetDuplicatePolicy(unique)
    \/ ClearStore
    \/ \E id \in Identities : RemoveRecord(id)
    \/ \E id \in Identities, line \in Lines : Rewrite(id, line)
    \/ \E c \in Cursors, id \in Identities : Select(c, id)
    \/ \E c \in Cursors : Reset(c) \/ Previous(c) \/ Next_(c)

Spec == Init /\ [][Next]_vars

-----------------------------------------------------------------------------
(* Properties *)

\* Entries stand in the order they were entered, newest first, whatever was
\* removed or evicted between them: identities fall strictly along the store
\* and the next one is above them all.  Every movement relies on it.
IdsDescend ==
    /\ \A p, q \in DOMAIN store.entries : p < q => store.entries[p].id > store.entries[q].id
    /\ store.next # None => \A id \in IdsOf(store) : id < store.next

\* A push evicts one entry at most and a lowered capacity all it must, so a
\* bounded store never holds more than its capacity.
CapacityHeld == store.capacity # Unbounded => Size(store) <= store.capacity

\* Between two visits the entry under a cursor may be evicted, removed or
\* cleared, and its neighbours too.  A movement goes from a retained entry to
\* the retained entry next to it in age, or to the live line past the newest,
\* and from an entry that is gone as from the live line.
MoveByAge ==
    \A c \in Cursors :
      LET at == IF cursor[c] \in IdsOf(store) THEN cursor[c] ELSE Live
          below == {id \in IdsOf(store) : at = Live \/ id < at}
          above == {id \in IdsOf(store) : at # Live /\ id > at}
      IN  /\ Previous(c) =>
               IF below = {} THEN cursor'[c] = at
               ELSE cursor'[c] \in below /\ \A id \in below : id <= cursor'[c]
          /\ Next_(c) =>
               IF above = {} THEN cursor'[c] = Live
               ELSE cursor'[c] \in above /\ \A id \in above : id >= cursor'[c]

\* A cursor that stands on an entry stands on that entry for good: an
\* identity that is gone is never given to another line, not even after the
\* store was cleared or the identities were used up.
NoIdentityReused ==
    /\ IdsOf(store') \ IdsOf(store) \subseteq {store.next} \ {None}
    /\ store'.next # store.next => store'.next = None \/ store'.next > store.next
    /\ store.next = None => store'.next = None

\* Both: a cursor keeps its place among the lines by age, whatever happens to the
\* store between two visits.
CursorsKeepTheirPlace == [][MoveByAge /\ NoIdentityReused]_vars
=============================================================================
