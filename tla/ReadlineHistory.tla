--------------------------- MODULE ReadlineHistory ---------------------------
(***************************************************************************)
(* readline's history (nshedit-abi/src/readline.rs, history_io.rs): the    *)
(* process-wide C history handle, the exported integers that mirror it,    *)
(* and one history file.                                                   *)
(*                                                                         *)
(* Every entry point is a chain of H_* operations on the handle and        *)
(* assignments to the integers; the application may call them in any order *)
(* and reads the integers in between.  The same module runs the handle of  *)
(* an application that uses histedit.h directly (api).                     *)
(***************************************************************************)
EXTENDS CHistory

CONSTANTS
    Header,     \* the first line of a history file
    Absent,     \* there is no file, or none that was written as a whole
    FileLimit,  \* no file grows longer
    Positions   \* the numbers an application passes

ASSUME PositionsAssumption == Positions \subseteq Int

\* No file is told from every file.
ASSUME AbsentAssumption == Absent \notin Seq(Seq(Letters) \cup {Header})

VARIABLES
    api,        \* which interface the application uses: "histedit" or "readline"
    base,       \* history_base
    length,     \* history_length
    offset,     \* history_offset
    stifled,    \* max_input_history
    file,       \* the lines of the file, or Absent
    written,    \* the lines the last whole write_history left in it, or Absent
    behind      \* a load gave up after entering some of its lines

globals == <<base, length, offset, stifled>>
files == <<file, written>>
rvars == <<h, api, base, length, offset, stifled, file, written, behind>>


-----------------------------------------------------------------------------
(* Start *)

\* initialize_readline: an own handle without a limit.
ReadlineHandle == [NewHandle EXCEPT !.limit = LastNumber]

HandleInit ==
    /\ api \in {"histedit", "readline"}
    /\ h = IF api = "readline" THEN ReadlineHandle ELSE NewHandle
    /\ base = 1
    /\ length = 0
    /\ offset = 0
    /\ stifled = LastNumber
    /\ file \in {Absent, <<>>, <<Header>>}
    /\ written = Absent
    /\ behind = FALSE

-----------------------------------------------------------------------------
(* The list *)

UsingHistory ==
    /\ offset' = length
    /\ UNCHANGED <<h, base, length, stifled, files, behind>>

\* Mutant: an eviction leaves the base.
AddWithoutBase(line) ==
    LET r == Enter(h, line)
        size == Size(r.h.store)
    IN  /\ h' = r.h
        /\ offset' = IF r.ok /\ size # length THEN offset + 1 ELSE offset
        /\ length' = IF r.ok THEN size ELSE length
        /\ behind' = (behind /\ ~ r.ok)
        /\ UNCHANGED <<base, stifled, files>>

\* An unchanged count is taken for an eviction.
AddHistory(line) ==
    LET r == Enter(h, line)
        size == Size(r.h.store)
    IN  /\ h' = r.h
        /\ base' = IF r.ok /\ size = length THEN base + 1 ELSE base
        /\ offset' = IF r.ok /\ size # length THEN offset + 1 ELSE offset
        /\ length' = IF r.ok THEN size ELSE length
        /\ behind' = (behind /\ ~ r.ok)
        /\ UNCHANGED <<stifled, files>>

Natural(n) == IF n < 0 THEN 0 ELSE n

\* Mutant: a failed removal is counted.
RemoveCounted(n) ==
    /\ h' = DeleteNth(h, Natural(n)).h
    /\ length' = IF length > 0 THEN length - 1 ELSE 0
    /\ UNCHANGED <<base, offset, stifled, files, behind>>

RemoveHistory(n) ==
    LET r == DeleteNth(h, Natural(n))
    IN  /\ h' = r.h
        /\ length' = IF r.ok THEN Size(r.h.store) ELSE length
        /\ behind' = (behind /\ ~ r.ok)
        /\ UNCHANGED <<base, offset, stifled, files>>

\* The oldest entries go one by one until the mirror of the size fits; an
\* empty store ends the loop.
Trimmed(handle, size, max) ==
    LET gone == IF size <= max THEN 0
                ELSE IF Size(handle.store) <= max THEN IF Size(handle.store) > 0 THEN 1 ELSE 0
                ELSE Size(handle.store) - max
        f[k \in 0 .. gone] == IF k = 0 THEN handle ELSE DeleteNth(f[k - 1], 0).h
    IN  f[gone]

StifleHistory(max) ==
    LET limited == SetSize(h, max).h
        trimmed == Trimmed(limited, length, max)
    IN  /\ h' = IF max < 0 THEN h ELSE trimmed
        /\ stifled' = IF max < 0 THEN stifled ELSE max
        /\ base' = IF max >= 0 /\ length > max THEN length - max ELSE base
        /\ length' = IF max >= 0 /\ trimmed # limited THEN Size(trimmed.store) ELSE length
        /\ behind' = (behind /\ length' # Size(h'.store))
        /\ UNCHANGED <<offset, files>>

UnstifleHistory ==
    /\ h' = SetSize(h, LastNumber).h
    /\ stifled' = LastNumber
    /\ UNCHANGED <<base, length, offset, files, behind>>

ClearHistory ==
    /\ h' = Clear(h)
    /\ offset' = 0
    /\ length' = 0
    /\ behind' = FALSE
    /\ UNCHANGED <<base, stifled, files>>

-----------------------------------------------------------------------------
(* Lookups *)

\* An operation that only moves the cursor of the handle.
Looks(handle) ==
    /\ h' = handle
    /\ UNCHANGED <<globals, files, behind>>

\* Where history_get finds entry n, and the handle it leaves.
Getting(handle, n) == SelectNth(handle, Natural(n - base))

GotBack(handle, n) == SelectEvent(Getting(handle, n).h, NumberAt(handle)).h

Gettable(handle, n) == n >= base /\ Current(handle).ok

Got(handle, n) == IF Gettable(handle, n) THEN GotBack(handle, n) ELSE handle

Found(handle, n) ==
    IF Gettable(handle, n) /\ Getting(handle, n).ok THEN Getting(handle, n).h.cursor ELSE Live

HistoryGet(n) == Looks(Got(h, n))

\* The bytes are summed from the newest entry to the oldest; the way back is
\* a walk towards the newer ones.
\* Mutant: the way back walks on in the same direction.
TotalBytesOnward(handle) ==
    IF Current(handle).ok
    THEN Seek(Oldest(handle).h, "older", NumberAt(handle)).h ELSE handle

TotalBytes(handle) ==
    IF Current(handle).ok
    THEN Seek(Oldest(handle).h, "newer", NumberAt(handle)).h ELSE handle

HistoryTotalBytes == Looks(TotalBytes(h))

HistoryList == Looks(Newest(Oldest(h).h).h)

HasText(line, text) ==
    \E k \in 0 .. Len(line) - Len(text) : SubSeq(line, k + 1, k + Len(text)) = text

Containing(handle, text) ==
    {id \in Ids(handle) : HasText(Entry(handle.store, id).line, text)}

\* A match is where the cursor stays; a failure goes back to where it was.
Searched(handle, text, direction) ==
    LET r == Walk(handle, direction, Containing(handle, text))
    IN  IF r.ok \/ ~ Current(handle).ok THEN r ELSE Failed(SelectEvent(r.h, NumberAt(handle)).h)

HistorySearch(text, direction) == Looks(Searched(h, text, direction).h)

\* No way back here: the cursor stays where the walk gave out.
HistorySearchPrefix(text, direction) == Looks(Search(h, direction, text).h)

\* pos is checked and stored, but the walk starts where the cursor is; its
\* sign is the direction, and the way back is the opposite walk.
SearchedPos(handle, text, pos) ==
    LET r == Walk(handle, IF pos > 0 THEN "older" ELSE "newer", Containing(handle, text))
    IN  IF r.ok \/ ~ Current(handle).ok THEN r
        ELSE Failed(Seek(r.h, IF pos > 0 THEN "newer" ELSE "older", NumberAt(handle)).h)

HistorySearchPos(text, pos) ==
    LET at == IF pos > 0 THEN pos ELSE -pos
        ranged == Current(h).ok /\ at < length
    IN  /\ offset' = IF ranged THEN at ELSE offset
        /\ h' = IF ranged THEN SearchedPos(h, text, pos).h ELSE h
        /\ UNCHANGED <<base, length, stifled, files, behind>>

\* history_set_pos moves the offset only.
HistorySetPos(pos) ==
    /\ offset' = IF 0 <= pos /\ pos < length THEN pos ELSE offset
    /\ UNCHANGED <<h, base, length, stifled, files, behind>>

\* The offset is taken for an event number less one.
CurrentHistory == Looks(Seek(h, "newer", offset + 1).h)

\* previous_history and next_history, by -1 and +1.
StepHistory(by) ==
    LET bound == IF by < 0 THEN offset = 0 ELSE offset >= length
        start == Oldest(h)
        there == Seek(start.h, "newer", offset + by + 1)
    IN  /\ offset' = IF bound \/ ~ start.ok THEN offset ELSE offset + by
        /\ h' = IF bound THEN h ELSE IF start.ok THEN there.h ELSE start.h
        /\ UNCHANGED <<base, length, stifled, files, behind>>

\* num is an event number, not a position; a failure leaves the cursor where
\* the walk did.
Replacing(handle, n, line) ==
    LET found == Seek(Oldest(handle).h, "newer", n)
    IN  IF ~ Current(handle).ok THEN Failed(handle)
        ELSE IF ~ found.ok \/ line = Absent THEN Failed(found.h)
        ELSE SelectEvent(Replace(found.h, line).h, NumberAt(handle))

ReplaceHistoryEntry(n, line) == Looks(Replacing(h, n, line).h)

\* get_history_event: !! and the references by number, by prefix and by
\* contents.  A failed search leaves the cursor on the newest entry.
LatestEvent == Looks(Newest(h).h)

NumberedEvent(n, back) ==
    LET num == IF back THEN length - n + base ELSE n
    IN  Looks(Got(h, num))

\* Mutant: a failed search is left where it gave out.
EventSearchStays(handle, text, inside) ==
    LET r == IF inside THEN Searched(handle, text, "older") ELSE Search(handle, "older", text)
    IN  IF ~ Current(handle).ok THEN Failed(handle)
        ELSE IF r.ok THEN SelectEvent(r.h, NumberAt(handle))
        ELSE Failed(r.h)

EventSearch(handle, text, inside) ==
    LET r == IF inside THEN Searched(handle, text, "older") ELSE Search(handle, "older", text)
    IN  IF ~ Current(handle).ok THEN Failed(handle)
        ELSE IF r.ok THEN SelectEvent(r.h, NumberAt(handle))
        ELSE Failed(Newest(r.h).h)

SearchedEvent(text, inside) == Looks(EventSearch(h, text, inside).h)

-----------------------------------------------------------------------------
(* The file *)

OldestFirst(handle) ==
    [k \in 1 .. Size(handle.store) |-> handle.store.entries[Size(handle.store) + 1 - k].line]

Readable == file # Absent /\ file # <<>> /\ file[1] = Header

\* The mirror of the size follows a whole load only.
ReadHistory ==
    LET r == Load(h, Tail(file))
    IN  IF ~ Readable
        THEN UNCHANGED <<h, globals, files, behind>>
        ELSE /\ h' = r.h
             /\ length' = IF r.ok THEN Size(r.h.store) ELSE length
             /\ behind' = IF r.ok THEN FALSE ELSE behind \/ Size(r.h.store) # length
             /\ UNCHANGED <<base, offset, stifled, files>>

\* The new file takes the place of the old one after everything was written.
WriteHistory ==
    /\ h' = Saved(h)
    /\ file' = <<Header>> \o SavedLines(h, LastNumber)
    /\ written' = OldestFirst(h)
    /\ UNCHANGED <<globals, behind>>

\* Making, writing, flushing or renaming the new file fails: the cursor is
\* anywhere on the way, the old file is what it was.
WriteFails ==
    /\ \E id \in Ids(h) \cup {h.cursor} : h' = At(h, id)
    /\ UNCHANGED <<globals, files, behind>>

\* What an append finds, and what it adds; a negative count is a huge one.
Appended(n) ==
    LET header == IF file \in {Absent, <<>>} THEN <<Header>> ELSE <<>>
    IN  header \o SavedLines(h, IF n < 0 THEN LastNumber ELSE n)

Begun == IF file = Absent THEN <<>> ELSE file

AppendHistory(n) ==
    /\ Len(Begun \o Appended(n)) <= FileLimit
    /\ h' = Saved(h)
    /\ file' = Begun \o Appended(n)
    /\ written' = Absent
    /\ UNCHANGED <<globals, behind>>

\* Some of the lines have reached the file when an append fails.
AppendFails(n) ==
    /\ \E id \in Ids(h) \cup {h.cursor} : h' = At(h, id)
    /\ \E k \in 0 .. Len(Appended(n)) :
           /\ Len(Begun) + k <= FileLimit
           /\ file' = Begun \o SubSeq(Appended(n), 1, k)
    /\ written' = Absent
    /\ UNCHANGED <<globals, behind>>

\* The header is a line like the others and goes when the file is cut.
TruncateFile(n) ==
    LET cut == file # Absent /\ n > 0 /\ Len(file) > n
    IN  /\ file' = IF cut THEN SubSeq(file, Len(file) - n + 1, Len(file)) ELSE file
        /\ written' = IF cut THEN Absent ELSE written
        /\ UNCHANGED <<h, globals, behind>>

-----------------------------------------------------------------------------

ListCalls ==
    \/ UsingHistory \/ UnstifleHistory \/ ClearHistory
    \/ \E line \in Texts : AddHistory(line)
    \/ \E n \in Positions : RemoveHistory(n) \/ StifleHistory(n)

LookupCalls ==
    \/ HistoryTotalBytes \/ HistoryList \/ CurrentHistory \/ LatestEvent
    \/ \E n \in Positions : HistoryGet(n) \/ HistorySetPos(n)
    \/ \E n \in Positions, back \in BOOLEAN : NumberedEvent(n, back)
    \/ \E by \in {-1, 1} : StepHistory(by)
    \/ \E n \in Positions, line \in Texts \cup {Absent} : ReplaceHistoryEntry(n, line)
    \/ \E text \in Texts, d \in Directions : HistorySearch(text, d) \/ HistorySearchPrefix(text, d)
    \/ \E text \in Texts, n \in Positions : HistorySearchPos(text, n)
    \/ \E text \in Texts \ {<<>>}, inside \in BOOLEAN : SearchedEvent(text, inside)

FileCalls ==
    \/ ReadHistory \/ WriteHistory \/ WriteFails
    \/ \E n \in Positions : TruncateFile(n)
    \/ \E n \in Positions : AppendHistory(n) \/ AppendFails(n)

HisteditCalls ==
    /\ CNext
    /\ UNCHANGED <<globals, files, behind>>

HandleNext ==
    \/ api = "histedit" /\ HisteditCalls /\ UNCHANGED api
    \/ api = "readline" /\ (ListCalls \/ LookupCalls \/ FileCalls) /\ UNCHANGED api

HandleSpec == HandleInit /\ [][HandleNext]_rvars

-----------------------------------------------------------------------------
(* Properties *)

\* These borrow the shared cursor, walk it over the list and bring it back to
\* the entry it was on: history_get and !n, also with an index out of range,
\* which loses it on the way; history_total_bytes; a history_search or
\* history_search_pos that finds nothing; !text and !?text? that find something;
\* and a replacement that was made.
LookupsRestoreCursor ==
    api = "readline" =>
        /\ \A n \in Positions : Got(h, n) = h
        /\ TotalBytes(h) = h
        /\ \A text \in Texts, d \in Directions :
               ~ Searched(h, text, d).ok => Searched(h, text, d).h = h
        /\ \A text \in Texts, n \in Positions :
               ~ SearchedPos(h, text, n).ok => SearchedPos(h, text, n).h = h
        /\ \A text \in Texts, inside \in BOOLEAN :
               EventSearch(h, text, inside).ok => EventSearch(h, text, inside).h = h
        /\ \A n \in Positions, line \in Texts :
               Replacing(h, n, line).ok => Replacing(h, n, line).h.cursor = h.cursor

\* A walk ends on an entry that is wanted, or else on the last one that way.
EndsOn(r, handle, direction, wanted) ==
    IF r.ok THEN r.h.cursor \in wanted
    ELSE r.h = IF direction = "older" THEN Oldest(handle).h ELSE Newest(handle).h

Beginning(handle, text) ==
    {id \in Ids(handle) : StartsWith(Entry(handle.store, id).line, text)}

\* The others leave the cursor elsewhere, but the caller can tell where: on what
\* was found, or on the last entry in the direction of the walk that found
\* nothing; a failed !text goes to the newest entry and not back.  (history_list
\* and !! end on the newest entry always.)  The entry that is current by its
\* number is reached from the cursor by current_history, and from the oldest
\* entry by previous_history, next_history and replace_history_entry.
LookupsEndInSight ==
    api = "readline" /\ Current(h).ok =>
        /\ \A text \in Texts, d \in Directions :
               /\ EndsOn(Search(h, d, text), h, d, Beginning(h, text))
               /\ Searched(h, text, d).ok => Searched(h, text, d).h.cursor \in Containing(h, text)
        /\ \A text \in Texts, n \in Positions :
               SearchedPos(h, text, n).ok =>
                   SearchedPos(h, text, n).h.cursor \in Containing(h, text)
        /\ \A text \in Texts, inside \in BOOLEAN :
               ~ EventSearch(h, text, inside).ok => EventSearch(h, text, inside).h = Newest(h).h
        /\ \A n \in Numbers, start \in {h, Oldest(h).h} :
               EndsOn(Seek(start, "newer", n), h, "newer", WithNumber(h, n))
        /\ \A n \in Positions, line \in Texts \cup {Absent} :
               LET r == Replacing(h, n, line)
               IN  ~ r.ok => r.h = Newest(h).h \/ r.h.cursor \in WithNumber(h, n)

\* Whatever the application calls, the shared cursor stands on an entry of the
\* list or on none, and behind every lookup the caller can tell on which.
SharedCursorIsKnown == CursorRetained /\ LookupsRestoreCursor /\ LookupsEndInSight

\* history_length is a copy that each entry point has to keep: it is the size
\* of the list whatever was added, evicted, removed, stifled or loaded, but
\* for a load that gave up half way.
LengthMirrors == api = "readline" => behind \/ length = Size(h.store)

\* The entry that history_get(n) answers.
Indexed(n) ==
    IF n - base \in 0 .. Size(h.store) - 1
    THEN h.store.entries[Size(h.store) - (n - base)].id ELSE Live

KeepsIndexes == \A n \in Positions : Indexed(n) \in Ids(h') => Indexed(n)' = Indexed(n)

\* An index an application keeps names the same entry while lines are added,
\* also when each pushes the oldest one out: history_base moves with it.
IndexesKept ==
    [][(~ behind /\ length > 0 /\ \E line \in Texts : AddHistory(line)) => KeepsIndexes]_rvars

\* The file a whole write_history left is one that read_history accepts, and
\* gives a new session the lines in the order they had.
SavedIsRestored ==
    written # Absent =>
        /\ Readable
        /\ LET r == Load([ReadlineHandle EXCEPT !.store.next = 0], Tail(file))
           IN  r.ok /\ OldestFirst(r.h) = written
=============================================================================
