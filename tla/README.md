# A TLA+ verification of nshedit

nshedit is a line editor in Rust: a core without I/O (`crates/nshedit`), a
platform layer (`crates/nshedit-plat`), a C adapter with libedit's and
readline's interfaces (`crates/nshedit-abi`) and a terminfo reader
(`crates/nshterm`).  This directory holds TLA+ models of its control logic, the
TLC configurations that check them and TLAPS proofs about them.  Paths below
are relative to the repository's `crates`; `PROJECT.json` maps every definition
to the lines it models and every hazard to the line where it bites.

## The system

The core's read driver calls nobody.  A host (the C adapter's `drive_read`, or
a Rust program) calls `begin`, serves the step it gets back and resumes the
driver with the answer; a read answers with bytes, a unit, a signal, a timeout
or the end.  The adapter arms a signal guard around a read, sees deliveries
through the slot and hands them to the driver, which asks for mode changes,
propagation and repainting as further steps.  The slot is the only thing shared
with code that runs asynchronously.  Behind the C interfaces stand the
history handle with its store, the terminal with the attributes of its modes,
the tokenizers and completion; the readline layer keeps process-wide state of
its own beside one such handle, and calls hooks and handlers that may call back.

| Component | State it keeps | Hard part | Correct when | Status |
|---|---|---|---|---|
| Signal slot, `nshedit-plat/src/signal.rs` | one atomic word: active bit, generation, pending signal | handlers and threads between any load and exchange; the generation wraps | it is an atomic mailbox with one owner, a take answers with what it removes | modelled |
| Signal handler guard, `signal/handlers.rs` | displaced dispositions, masks, the activation | each system call may fail, signals arrive between them | dispositions come back on every path, masks and signals but for what a failed closing call left blocked | partly |
| Read driver, `nshedit/src/editor/driver.rs`, `driver/` | the pending step, replay and decoded input, a key prefix with its deadline, quoted/meta/selector state | the host may answer each step in many ways; signals, timeouts and chunk ends fall anywhere | keys are recognised as typed, the terminal mode fits the step, reads end | partly |
| Line state, `editor/line.rs` | line, cursor, mark, kill buffer, undo and redo, an open group | grouped edits, errors in the middle | undo and redo invert each other, a group is one undo step | partly |
| Command sequences, `driver/sequence.rs`, `immediate.rs` | count, pending operator and unit, the change recorded, the replay | long mixtures, replay through the recorder | what is pending ends with its command; a replay does what was recorded | partly |
| Key bindings, `line/keymap.rs` | two tries of bindings | prefixes of each other, keys whose sequences move | what was bound is found | partly |
| Editor session, `editor.rs` | the terminal, the committed mode, configuration | failures of the terminal | display and mode match what was committed | partly |
| Input decoder, `driver/decode.rs` | undecoded bytes, decoded units | characters cut between reads | the units do not depend on the cuts | modelled |
| Renderer, `editor/render.rs` | the committed screen, the region it owns, damage | output that fails part way, a region that must grow | the terminal shows the frame; the host's rows stay | partly |
| Completion and words, `editor/completion.rs`, `token.rs`, `tokenizer.rs` | the last query | quoting, resumed tokenizing | a completion reads back as one word | modelled |
| History store, `history/store.rs` | entries with identities, capacity, cursors | cursors that outlive their entry | a cursor moves to the neighbour in age | modelled |
| History file, `history_file.rs` | none | a record torn by a crash | the damage is local to the torn record | partly |
| Domain values, `nshedit/src/domain` | none | | | partly |
| System input and terminal, `editor/system_*.rs`, `nshedit-plat/src/terminal.rs` | attributes of three modes | | the sets follow the mode | partly |
| C adapter: read loop and signals, `histedit/driver.rs`, `driver/signal.rs` | guard kept or per read, terminal mode, the delivery being worked off | signals beside a result, suspend and continue, callbacks that change options | stopping signals see a cooked terminal, a read waits in editing mode | partly |
| C adapter: session and terminal view, `adapter.rs`, `adapter/` | modes and their overrides; what is known of the terminal, and the renderer's copy of it | refused attribute changes; settc, other terminals and resizes between displays | the device has the attributes of the mode in force; the renderer draws with what the handle knows | partly |
| C adapter: history traversal | depth, live line, search pattern | the driver and the adapter both keep the live line | depth and line fit each other | partly |
| C adapter: history, `history.rs`, `history/` | one cursor on a store, the unique flag | evicted entries, failed lookups, saves that fail | the cursor is known behind every call, what is saved is restored | partly |
| readline layer: history, `readline.rs` | length, base, index, limit beside the handle | wrappers that must keep both in step | the mirrors agree, indexes keep their entry | partly |
| readline layer: sessions | hooks, pushed-back keys, done and abort flags, the callback handler | re-entry from hooks, commands and handlers | a handler gets whole lines, the terminal is given back | partly |
| readline layer: completion | a directory scan between calls | abandoned scans | the arrays of matches are whole | partly |
| Terminfo, `crates/nshterm` | stack and variables of one expansion | nested conditionals, damaged files | programs mean their structure, files are read as compiled | partly |
| histedit entry points, C declarations, password database, Windows console | none that is shared | | | not modelled |

## The modules

| Module | Models | Proved about |
|---|---|---|
| `SignalMailbox` | what the slot promises: one owner, the latest delivery of its scope, what a take answers | target of the refinement |
| `SignalSlot` | each load and compare-exchange of the slot | `SignalSlotProofs` |
| `SignalHandlers` | `handlers.rs`, one system call per step, on the mailbox and a small model of POSIX signals | `SignalHandlersProofs` |
| `ReadDriver` | `driver.rs`, `driver/signal.rs`, `driver/command_effect.rs` | `ReadDriverProofs` |
| `LineState` | `line.rs`, `line/motion.rs` as operators from one line state to the next | `CommandProofs` |
| `CommandSequences` | `sequence.rs`, `immediate.rs` and the dispatch of `driver.rs` | `CommandProofs` |
| `HostRead` | the adapter's three readers and the signals that arrive in them | `TerminalProofs` |
| `HostHistory` | history commands of the driver with the adapter's answers: recall, search, live line | `InputProofs` |
| `TerminalModes` | the adapter's terminal: activation, mode changes, `setty`, restoration | `InputProofs` |
| `TerminalView` | capabilities and size a handle knows, the profile its renderer draws with | `InputProofs` |
| `Renderer`, `TerminalModel` | planning and writing a repaint; a terminal that executes it (external) | `TerminalProofs` |
| `HistoryStore`, `HistoryCursors` | the store's operations; cursors over it | `HistoryProofs` |
| `EditHistory`, `CHistory`, `ReadlineHistory` | the C handle's operations, history(3), readline's history functions and files | `HistoryProofs` |
| `HistorySaving` | the steps of saving to a named file, with failures, kills, power loss and other savers | `ReadlineProofs` |
| `ReadlineSession` | `readline()` and the callback interface with hooks, commands and event readers | `ReadlineProofs` |
| `InputDecoder` | decoding cut input, ends of input, reads given up | `InputProofs` |
| `HistoryFile` | the framing of records and its recovery | |
| `Tokens`, `CTokenizer`, `Completion` | tokenizer, resumable tokenizer, query and insertion of completions | |
| `Matches` | generators, the kept scan, arrays of matches, the listing | |
| `HistoryExpansion` | `!` references: events, words, modifiers | |
| `Prompts` | marks, literals, messages and saved prompts | |
| `KeyBindings` | `bind` in its forms, resets, changes of terminal; key sequences as text | |
| `ParameterStrings`, `CompiledEntry` | printf conversions, capability programs, termcap strings and padding as `echotc` sends them; compiled descriptions | |
| `MC*` | the instances TLC checks; `MCReadDriver` with the reference reader that key parsing is compared with | |

### Signals

`SignalSlot!state` is the word, split into its three fields; `held[c]` is the
`SignalActivation` a client keeps; `seen[p]` is the local `observed`; `taken[c]` is what
its last take returned, which `SignalMailbox!given` says it must be: a delivery that a take
removes without returning it, or returns without removing it, is no step of the mailbox.
A generation comes back after `MaxGeneration` activations; `since` counts those behind the
load of each handler, and a handler that sleeps through all of them is left out (`NoFullCycle`).
`compare_exchange_weak` may fail spuriously and then reloads the same word: a
stuttering step.  `SlotOwner`, `state.pending` and `Armed` map the word to the
mailbox's owner, inbox and armed deliveries.  Orderings weaker than sequential
consistency are not modelled: there is one location, for which coherence gives
the same orders.  `SignalHandlers` takes the mailbox as atomic, which the
refinement justifies; its `pc` labels are the points between the system calls of
`with_signals`, `propagate`, `rearm` and `disarm`.  The operating system is
external: `Send`, `Deliver*`, `Raise` and the masks follow POSIX as far as the
code uses it.  Any system call may fail, the one that closes an operation by putting the
mask back as well: `lost[t]` is what such a failure left blocked on a thread, and nothing
else may stay blocked.  Where it leaves a signal blocked on every thread, that signal waits
for ever (`KeptOut`); the code has no second try.

`HostRead` takes for granted what these two promise for one guard.  Its `pc`
is where a reader stands: looking for a delivery, waiting for input, behind a
result, after a failure, and the steps of working a delivery off, by the driver
or behind its back (`by`).  `told` and `toldIn` are history variables.
`EL_UNBUFFERED` changes only between reads, `EL_SIGNAL` inside callbacks too; of
the driver only the steps between two reads are kept, and `el_wgetc` inside a
callback is left out.  A suspension stops the process or does not.

### The read driver

`step` is the `ReadStep` in the host's hands; `running` holds while `advance`
has still to run, which the code calls in tail position.  `input` is replay,
decoder queue and `eof_pending`; `parse` is everything `clear_transient` resets.
Each `resume_*` is an action with one disjunct for each answer.  A dispatched
command is known by what it does to the driver (`Commands`); what it does to the
line is in `CommandSequences`.  `input.heard`, `parse.log` and `parse.asked` are
history variables.

### Command sequences and the line

Between the key that completes a command and the display or the request for
another unit the code never leaves the driver, so a step of `CommandSequences`
is a whole command.  Its handlers have the shape of the code's: they take the
line state, the driver's memory and the state of the read, and return them, and
`Try` is the `?` after a call.  A replayed command brings its own count, the
code's `explicit_repeat`.  `Press` runs any command bound in the current keymap,
so a keymap is a constant.  A line a read begins with is one of `Openings`, freshly
opened; a read ends through `complete`, through `fail`, or by an error that `?` hands
out without either (`outcome` "abandoned").  `rest` is a history variable: the line when last
nothing was under way.  A line has no newlines and a unit is known by its class
and its other case; big words are not taken, buffering is by line.

### History

An entry is its line and its identity; identities run out at `LastId`, as the
code's `u64` would.  `HistoryCursors` has cursors that are not told when the
store changes under them.  `EditHistory` has the handle and its one C cursor,
`CHistory` the calls of histedit.h, `ReadlineHistory` the functions of readline.h
over the same handle with `base`, `length`, `offset` and `stifled`.  A file there is
a header and lines; the encoding of lines, a torn last line and data pointers are
left out.  `HistorySaving` opens up the one step that `CHistory` takes for a save: a file
is how many of its pieces a reader finds in it and how many are sure to be on the disk; a power
loss keeps anything between, and lets the name denote any file that a rename
gave it, since the directory is not synced.  `history_truncate_file` and appending
rewrite in place and promise nothing of the kind.

`HostHistory` composes the driver's `command_effect.rs` with the adapter's
answers over a history that does not change during a read; patterns are literal, and
the scan limit and external editing are left out.  `vi-undo-line` asks for the line being
typed and gets the adapter's copy, with a history or without.

### The terminal

`TerminalModes` keeps the attributes of each mode, the overrides `setty` added, the
device and the mode in force.  An attribute call may be refused and then leaves the device alone.
`TerminalView` has two copies of what is known of the terminal, the capabilities the application is
told of and the profile and screen the renderer draws with, and every call that changes one of them: `settc`
in its three kinds, `set_terminal_name` with a description that is found or not, a resize by
`el_resize` and one the driver takes from a signal, and turning editing on and off.  A
description is a few capabilities of each kind; the baud rate is left out.
`Renderer` plans a repaint row by row and cell by cell, as the code does, and
`TerminalModel` executes what reached the terminal; a mishap is a write that
fails between two operations, or foreign output.  The prompt is fixed and may begin
with a literal; right prompts, tabs, newlines and resizes are left out.

### The readline layer

`ReadlineSession` has one frame per nested call (`readline()`, the handler, a
hook, a bound command).  `readline()` is called in whatever buffering there is, and the line handler
is installed and removed wherever the application's code runs: between calls, in hooks, bound commands, the
event hook and the handler itself.  A read that takes keys one at a time goes on with the line
it finds; `trailing` is the newline of an accepted line that stays in the buffer behind the
cursor.  Every mode change succeeds and the cursor stays at the end of what was typed.

### Texts

The other modules are pure: each takes the code's algorithm as an operator and a
reference that says what its answer ought to mean, over structured inputs.
`ParameterStrings` compares a program with the structure it was written from,
`HistoryExpansion` a line with the references it was put together from,
`CompiledEntry` a file with the entry it was compiled from, `Tokens` a word with
the span it came from, `KeyBindings` a listed key sequence with what `bind` makes of the listing.

## What the runs check

| Run | Instance | Shows |
|---|---|---|
| `signal_slot` | 2 clients, 2 handler invocations, 2 signals, 2 generations | one owner; the word implements the mailbox, what takes return included |
| `signal_handlers` | 2 signals; 2 threads, 1 signal sent and 1 failing call; or 1 thread with any mask beside one that blocks everything and uses no guard, 2 sent and 2 failing calls | displaced dispositions are owed to the caller; masks come back and signals get through but for what a failed closing call left blocked |
| `driver_parse` | 6 keys whose bindings are prefixes of each other, a macro, an alias, quoted and meta input; 4 units in chunks of 2, timeouts and a signal anywhere | the commands are those a reader of the whole input would see; a pending prefix has its deadline |
| `driver_modes` | a binding for every kind of command, all policies, 2 units, 2 signals, 1 failing mode change, every answer of a host | the terminal follows the driver; an interrupted read is resumed; the driver asks again; the end of input ends the read |
| `command_changes` | three instances side by side: 20 commands that make up changes, 6 keys; any 4 keys of the default keymaps; recordings longer than the work limit of 6; the read ends anywhere | groups are open for their owners only; one undo record a command; what is remembered repeats what was done, in whatever keymap it is replayed; a replay ends |
| `readline_layer` | a handle of 3 entries with limits 0 to 2, a file of 2 lines, identities that run out; 2 cursors; nested sessions in both bufferings with 2 keys and 1 pushed back; 2 savers | the shared cursor stands on a known entry behind every call; the mirrors agree; what is saved is restored, also across failures, kills and a power loss; lines are handed whole; the terminal is given back |
| `host_read` | all three readers, 2 deliveries of every kind, 1 failure | stopping signals see a cooked terminal; a Continue follows a Suspend; a reader waits in editing mode; an interrupt ends an edited read |
| `inputs` | bytes, files, lines, programs, descriptions, termcap strings, bindings, listings, completions, recalls, scans, prompts, modes, views, each up to the bounds of `Inputs.cfg` | the references of all text modules, `TerminalModes`, `TerminalView` and `HostHistory` |
| `renderer` | 3 rows of 2 columns, lines of 3 glyphs with wide ones, 3 terminals, 1 mishap | the next display shows the frame; no row above is touched |
| `live_line`, `readline_abort`, `tty_restore` | the instances above or smaller ones | findings 1 to 3 |

Bounds.  A generation space of two already wraps.  Two threads are one owner and
one that is refused or takes over, and one failing call reaches every error path
once; with one thread two failures suffice to block a signal for good.  The action
constraint of `MCSignalHandlers` keeps the two cases apart: what it cuts are guards of the
bystander, further signals and further failures, which no fairness asks for.  The longest
binding has three keys and every pair of prefix relations occurs, so four
units reach a fallback with units behind it in every split.  For the modes two units
reach every command after every other and two signals reach a signal in the
repaint of another; so do two deliveries in `HostRead`, where the second reaches the slot
while the first is worked off.  A change of six keys is a count, an operator with its
motion, text, the end of the insertion and a repeat or an undo.  The work limit
stands for 4096 and is reached by counts, recordings and replays alike.  Four
identities in a store of at most three entries give eviction, an identity that is
gone and one that is never given.  Files of three pieces can be torn before,
inside and behind an entry, and two savers are one that copies permissions from the file
the other is about to replace.  Five bytes hold a character of three with one in front of it
and one behind, cut anywhere; three writes are a torn record with a good one on both
sides.  Five units hold a quoted word with an escape; two references give
text between, before and behind them.  `Half` and `Radix` of
the terminfo modules are small stand-ins for 2^31 and 256: a carry and a sign
already occur.  `MaxBindingUnits` stands for 1023: a listing of three units is one too long.  Three rows of two columns let the region grow by a row, wrap a
wide glyph and meet the bottom.  What a bound leaves out, the proofs below cover for
the properties they are about.

Fairness.  `SignalHandlers!FairSpec`: a thread inside an operation or handler
goes on (weak), and the kernel delivers what stays deliverable (weak for a raised
signal) or becomes deliverable again and again (strong for a sent one); nobody is
made to start an operation.  `ReadDriver!FairSpec`: `advance` runs on, since it is a
function call, and the host serves the steps other than reads; it is not made to
supply input.  `HostRead!Spec`: a reader's own steps go on, callbacks and input are
not made to.  `CommandSequences`: a replay goes on while the read does.

## What is proved

| Theorem | States | Inductive invariant |
|---|---|---|
| `SignalSlotProofs!Typing`, `OneOwner`, `Refinement` | typing, `SingleOwner`, and `ImplementsMailbox` for any clients, deliveries and generation bound | an operation past its load that needs a claim still holds it; the generations in words and claims are the ones handed out; the generation is as far past the one a handler loaded as activations went by, and one is skipped where it wraps |
| `SignalHandlersProofs!NoDispositionIsLost` | `DispositionsAreOwed` for any threads, signals, operations and failures | the installer owns the slot, and nothing is saved any more when it is withdrawn |
| `SignalHandlersProofs!MasksComeBack` | `MasksAreTheCallers` likewise, whichever calls failed | below any handlers that run on it a thread at rest has the caller's mask and what it lost, and one in an operation remembers it; what was raised keeps the caller's disposition until it is delivered, for its owner rests till then and nobody else installs |
| `ReadDriverProofs!PrefixesStayPending`, `DriverKeepsTerminal` | `PrefixPending`, `TerminalFollowsDriver` for every keymap, answer, signal and failure | the parser's memory is a prefix of a binding; the mode that goes with each step |
| `TerminalProofs!StopsSeenCooked`, `SuspendIsFollowed`, `ReadsInEditingMode` | `CallerSeesCooked`, `ContinueFollowsSuspend`, `EditsWhileReading` for any signals, deliveries and failures | `HostInv`: the delivery being worked off fits the step, the mode fits both, a Suspend handed on owes a Continue, a cooked wait has a cause |
| `TerminalProofs!HostRowsStay` | `HostRowsKept` for any size of the screen, glyphs, prompts, profiles and echoes, any failures, and output cut off anywhere | `RenderInv`: the host's rows stand above the row the region starts on, that row and the saved one can be reached from where the cursor is, and the committed rows lie in the region |
| `ReadDriverProofs!InterruptedReadsResume` | `ReadIsResumed` likewise | a step that interrupts a read carries what it asked for and the prefix typed so far, through every step it may be interrupted by in turn |
| `CommandProofs!GroupsHaveOwners`, `EndedReadsCloseGroups` | `GroupsAreOwned` for any keys bound, any counts, recordings and work limit; a read that ends through `complete` or `fail` leaves nothing open | `GroupInv`: as many groups are open as there are a recording and a replay, no more than that after a history line, anything after an abandoned read |
| `CommandProofs!CommandsAreRecords` | `OneRecordPerCommand` likewise | `RecordInv`: at rest the line is the one a command begins on; in its middle its group holds that line's snapshot and no record is new, or nothing has happened and no operator waits, or the record is there and nothing waits |
| `CommandProofs!*OK`, `UndoReverses`, `RedoReverses` | every operator keeps all positions, also those in snapshots, inside their line; undo gives back what an edit began with, redo after undo is the identity | `LineOK` |
| `HistoryProofs!EntriesStandByAge`, `CursorsStayInPlace` | entries newest first; `CursorsKeepTheirPlace` for any identities, lines, cursors and capacities | identities fall along the store and lie below the next one |
| `HistoryProofs!CursorIsKnown`, `LengthIsCopied`, `IndexesStay`, `SavedLinesReturn` | `SharedCursorIsKnown`, `LengthMirrors`, `IndexesKept`, `SavedIsRestored` for any sizes, limits, lines and files | the handle's list is in order and below its limit, the cursor stands on it or nowhere, and `base`, `length` and `stifled` fit it unless a load gave up half way |
| `InputProofs!UnitsAreOfTheWhole` | `DecodesAnyChunks` for any bytes, cuts, ends and reads given up | however the bytes go on, what was taken, what is ready and the units of what is pending then are the units of the whole then |
| `InputProofs!RecalledLinesFit` | `RecallFitsDepth` for any history, counts, searches and configurations | the depth is one the history has, and away from the line being typed that line is the one the adapter saved |
| `InputProofs!DeviceFollowsMode` | `DeviceShowsMode` whatever `setty` changes and whichever calls fail | the attributes of the three modes are kept as derived |
| `InputProofs!ViewIsDrawnWith` | `DisplayShowsView` for any descriptions, windows, values and runs of calls | what is known of the terminal has a size, and the profile is the one it configures |
| `ReadlineProofs!TerminalComesBack`, `LinesArriveWhole` | `TerminalIsGivenBack`, `LinesAreHandedWhole` for any nesting, hooks, keys and units, in both bufferings | the frames alternate as calls nest, and the mode, the handler and what is buffered fit the innermost one |
| `ReadlineProofs!DestinationIsWhole` | `SavesAreWhole` for any savers and length | every file the name has denoted is on the disk; whoever is past copying permissions has those of the named file |

Each module has one lemma per action or call, and under it one step per part of
the invariant.  `SingleOwner` is not inductive, since an exchange that succeeds relies on what
the word it loaded said; `TerminalFollowsDriver` speaks of the steps of the host and
needs what holds between them; `CursorsKeepTheirPlace` is an action property
that needs the order of the whole store.  `DecodesAnyChunks` says nothing of a character cut
in two until its rest arrives, so the invariant speaks of every way the bytes may go on.
`GroupsAreOwned` and `OneRecordPerCommand` need what holds in the middle of a handler: `Sound(s, how)`
says it, and one lemma per handler carries it along for every `how`.  A command outside a change may edit the
line once (`fresh`); one that edits again, waits with an operator or is replayed has its group open (`held`).  `LineOK` must speak of the snapshots, for undo restores
them unchecked.  `DeviceShowsMode` is proved for every meaning of a setting.
`HostRowsKept` is about output cut off anywhere, so the lemmas about the renderer are about sets of terminals:
`Runs(ops, A, B, C)` says that operations begun on a terminal of A only pass through
ones of C and end on one of B; it composes along a plan, and the rows a plan moves over are bounded
by the region it owns, which `Clear` says fits below the host's rows.
Assumed is only what the modules name: sentinels are not members, clients
are not handlers, there is a generation, "no mark" is not a position, the signals with
a meaning of their own differ, two kinds of files differ; lines offered to a read are
freshly opened ones (`OpeningAssumption`), the fallback of a key is a command
(`CommandAssumption`), sizes, positions, counts and bounds are numbers, histories are sequences; a screen has at least
one row of two columns, prompts and echoes are sequences, and no glyph is one of the terminal's operations.
The hypothesis `NoneIsApart` of `CommandProofs` says that the sentinel for "nothing" is none of the
values it stands beside.

Recursive functions are within reach where the recursion runs over the places of a sequence: their
existence and what they compute follow by induction in set form, from the least element that
fails (`LeastElement`, `Inducts`, `Descends`), as for a replay's repetitions and for
the decoder's walk.

Only model-checked: liveness under fairness (`SignalsGetThrough`, `AsksAgain`,
`EndOfInputEnds`, `InterruptEndsRead`, `ReplayEnds`), which is out of the prover's reach;
the text modules (`TornWriteIsLocal`, `WordsHaveTheirSources`, `ReferencesExpand`,
`DescriptionsAreFollowed`, `BindingsAreFound`, `TextsArriveWhole`,
`CompletionReadsBack`), which are folds and `RECURSIVE` operators over structured inputs, where an induction
principle would have to take the operator; `TerminalShowsFrame`, whose
cells are a fold over the atoms of a row; `ParsesAsTyped`, whose
reference reader is recursive over the whole input; and `ReplayFaithful`, which would need the
handlers to be functions of the line alone, step by step along the recording.

## Findings

1. `nshedit/src/editor/driver/command_effect.rs:341` (`live_line`): the driver
   keeps the live line once per read, at the first recalling command, so a search that
   comes back to it restores an older state than the one that was left.
2. `nshedit-abi/src/readline.rs:3817` (`readline_abort`): an abort also sets
   `rl_done`, which is cleared only before the loop of `readline()`; the next
   bound key of the line read anew ends it with NULL.
3. `nshedit-abi/src/adapter.rs:435` (`tty_restore`): `el_end` restores the
   attributes of the cooked mode, which `setty -x` rewrites in place, and not those that
   were found.
Disagreements with comments or documents for which there is no run.  Of the first five the
properties `ParsesAsTyped`, `ShowsItsText`, `ArraysAgree` and `ListedReadsBack` say nothing.

- `driver.rs:583` and `601`: on a timeout or the end of input the units behind an ambiguous
  binding are dropped, where a failing longer sequence replays them;
  `native-read-driver.md:25` promises lossless reprocessing.
- `driver.rs:705`: expansions of macros and aliases are played before what is left of the
  one they were found in; `read.md:361` and ERR-input-42 (`docs/errata.md:1122`) queue
  them behind it.
- `histedit/driver.rs:92`: `prompt_from_units` hands on a literal that ends the prompt;
  ERR-terminal-58 (`docs/errata.md:645`) has it dropped, with its marks.
- `readline.rs:3716`: the comment has the sort by address corrupt the common prefix of
  the matches; it is what any two neighbours share, so no order of them changes it.
- `adapter/binding/codec.rs:95`: the character behind a `\U+` escape is kept, also in the
  test at `codec.rs:244`; ERR-input-37 (`docs/errata.md:1092`) and `parse.md:298` have it
  discarded, and the erratum refuses such an escape at the end of a text.

- `nshedit-plat/src/signal.rs:537`: a trampoline binds itself to the activation it
  finds when it loads the slot; one delayed before the load publishes into a later
  owner, which `plan/decisions/signal-lifecycle.md:45` rules out.
- `driver.rs:1055`: completing a line-buffered read clears decoder and replay, so
  what was read behind the accepting key is lost (`read.md:461`).
- `driver/signal.rs:64`: a resize while an alias selector is read turns the selector
  into an ordinary key (`read.md:485`).
- `driver/sequence.rs:422`: a replayed operator leaves its count behind: `dw.` and
  then `3x` deletes thirteen units (`read.md:259`).
- `driver.rs:570`: a recording that outgrows the work limit fails the read without
  `fail`, so its group and the editing mode stay (`native-read-driver.md:28`).
- `driver/sequence.rs:245`: `r` repeated on an empty line does not wait for a unit and
  the recorded unit fails the read; absolute spans fail on a shorter line.
- `driver.rs:1048`: a read that ends while a change waits for a unit remembers the
  change without it.  Under an operator `e`, `|` and the word commands do not record
  themselves, so `de` repeats as a bare `d`; `transpose_before_cursor`
  records an ordinary transposition (`immediate.rs:342`).  In Emacs mode every
  repetition of a counted command is an undo record (`driver.rs:743`).
- `histedit/driver/signal.rs:94`: a Continue or Suspend taken in `finish` leaves the
  terminal in editing mode (`read.md:268`, `histedit.md:741`).
- `readline.rs:2110` sets the base without the old one (`readline.md:2856`).
- `\!` or a dead `!` at the start of a line or right behind a reference is expanded
  or refused, although the comment at `readline.rs:1862` says never.
- `filecomplete.md:328`: a second completion lists although something else came
  between (`session.rs:290`).

## Observations kept in the models

Behaviour that surprised and is modelled as it is: consecutive searches read the pattern
from the line each time; Down at depth 0 replaces the line by the stale saved
copy; an abort raised in a pre-input or event hook is noticed only after a whole
line; text inserted by startup hooks is lost by the reset of `el_gets`; in callback mode the
handler runs in line buffering, so the next call reads a whole line; a `readline()` that
reads by the key goes on with the line it finds, and leaves its newline behind the cursor, with which
the next key under a line handler hands that line over at once; a change replayed inside an
insertion that is being recorded is not recorded, so repeating the insertion leaves it out
(`sequence.rs:856`); of the lookups in readline's history only `history_get`, the sum of bytes, a search for contents that
fails, a reference found and a replacement made put the shared cursor back; `vi-undo-line` at the line being typed
brings the adapter's older copy of it;
a key sequence with a caret, with `M` before a dash, or with a code point of six or more hexadecimal
digits is listed as text that `bind` reads as something else (`codec.rs:113`); a percent sign that
a termcap string comes to show, even `%%`, is taken for an operation of terminfo by the second expansion of
`echotc` (`commands.rs:637`); a handler removed inside a bound command lets the read go on in a cooked
terminal; text glued behind a reference in its word is dropped; a window of one column is reported as two; negative
numbers are false to `!`, `A` and `O` of a capability program and true to `%t`;
`bind -k` takes effect at the next reset or change of terminal; a torn record
takes in the record behind it; rearming after a Resize or Continue installs
interrupting dispositions again, although they were handed on.

## Next

1. `TerminalShowsFrame`: which cells each operation of a plan leaves as they are.
2. Resizes and right prompts in `Renderer`; big words, newlines and delimiters in
   `LineState`; regular expressions and the scan limit in `HostHistory`.
3. The readline key-name codec and libedit's file format.

## Not modelled

The entry points of `histedit.rs` and `eln.rs` convert arguments in front of
the operations modelled; C layouts and character conversions are fixed by the ABI;
the password database and secure execution are single lookups; the Windows console is not
compiled on Linux.  Capability tables, `telltc`, width
tables, the layout of listings, the spelling of control characters, string
parameters of capabilities (`%s`, `%l`) and the search for a terminfo file are
formatting or thin I/O without state that several actors share.
`tok_reset`, user names in `~user`, and reads such as `where_history` are trivial.
