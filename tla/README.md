# ft_ls: TLA+ models and proofs

`ft_ls` is a reimplementation of `ls` in C for Linux.  This directory holds
TLA+ models of its parts, TLC configurations that check them on small
instances, and proofs checked by TLAPS.  Every definition is a translation of
the C code; `PROJECT.json` gives the source lines of each one.

Run a check with `tlc -config MCWalk.cfg MCWalk`, a proof with
`tlapm WalkProofs.tla`.

## 1. The system

The program is one sequential process.  What makes it hard is not threads but
everything else that moves: other processes change the tree while it is read,
every system call and allocation may fail, writes are partial, standard output
is buffered and standard error is not, and memory is owned by hand.

| Component | Source | State | Operations |
|---|---|---|---|
| Traversal | `ft_walk.c` | `t_params`: options, `dir_queue`, `operand_files`, `current_entries`, `output_failed`; the exit code; the flags of `process_queue_` | classify the operands, print the file operands, pop a directory, load it, sort it, push its subdirectories (`-R`), print it, report errors, clean up |
| Entries | `ft_walk_entry.c` | `t_entry`, on the heap (operands, directories) or in an arena (names read) | create, build a path, free |
| Output buffer | `ft_printer_helper.c` | `t_str out`: bytes, length, capacity | `put_mem`, `put_entry_name`, `put_dir_header`, `flush_fd` |
| Column layout | `ft_printer.c` | number of columns, column widths | `calc_cols_`, `create_row_`, `indent_`; one name per line when stdout is no terminal |
| Long format | `ft_printer_list.c` | column widths | measure, pad and print one line per entry |
| File information | `ft_file_info.c` | two rings of cached names | permissions, owner, group, size, date, extended attributes |
| Arena | `ft_arena.c` | list of blocks, current block | push, mark, pop to a mark, clear, release |
| Sort | `ft_sort.c` | a scratch array shared by all sorts of a run | `sort` with six comparators |
| Shell quoting | `ft_shell_escape.c` | none between calls | scan a name, escape it |
| Symbolic links | `ft_symlink.c` | none between calls | `read_symlink` |
| Command line | `ft_parse.c`, `main.c` | `t_args`, operands | `parse_args` |
| Array, strings, utilities | `ft_array.c`, `ft_str*.c`, `ft_utils.c` | length and capacity | append, pop, reverse, clear; copies and conversions |

How they interact.  `main` parses the command line and calls `process`.  The
traversal keeps one stack of directories (`dir_queue`).  A directory is popped,
`readdir` fills `current_entries` with entries that live in `temp_arena`,
`sort` orders them, the subdirectories are pushed, and `printer` formats the
entries into the output buffer with arrays from a second arena.  The buffer
empties itself when it is full, before a message is written to standard error,
and once at the end.  A failure travels back as a `bool`; the exit code
travels by pointer beside it.

What is hard, and what makes each part correct:

- **Traversal.** Depth first, siblings in listing order although the stack is
  filled backwards; separators and headers right although operands go missing in
  between; each heap entry freed exactly once on every error path; exit code 0
  only for a complete listing.
- **Output buffer.** No byte lost, repeated or reordered when a write is
  partial, interrupted or fails and the buffer is flushed again later; a NUL
  always fits; a failure is never forgotten; a message comes after the output
  that precedes it.
- **Column layout.** Every entry printed once; columns aligned with tabs and
  spaces; arrays indexed within bounds; a line not wider than the terminal.
- **Arena.** Two allocations in use never overlap, none dangles, whatever the
  order of marks, returns and clears, with addresses that are reused.
- **Sort.** A stable permutation in the order the options ask for, within a
  scratch array left by an earlier call.
- **Entries.** Heap and arena strings are shared, copied and freed so that none
  is freed twice, leaked, or used after the arena is cleared.
- **Long format.** The rows form a table although the widths come from two
  lists and the padding is an unsigned difference.
- **File information.** A name printed for an id is one the user database gave
  for that id; the mark of the extended attributes is right although they
  change while they are read.
- **Shell quoting.** A shell reads the printed name back as the name; the
  length counted is the length written, for nothing checks it afterwards.
- **Symbolic links.** A target is returned whole or not at all, and the buffer
  stops growing.
- **Command line.** Operands in order, options as documented, strings freed.
- **Array.** The sequence survives growth and reversal; what lies beyond the
  length is never used.

The full list of hazards, each at its line, is in `PROJECT.json`.

## 2. The modules

| Module | Models | Notes |
|---|---|---|
| `Traversal` | what the traversal promises: an agenda of directories, worked off from its head | abstract specification |
| `OutStream` | what the output layer promises: an append-only stream, with messages in their places | abstract specification |
| `OutBuf` | `put_mem_fd`, `left_pad_`, `put_shell_escaped_scan_`, `flush_fd`, `print_error_`, the last flush of `run_listing_` | refines `OutStream` |
| `OutBufProofs` | theorems about `OutBuf` | |
| `Walk` | `process()`: all of `ft_walk.c`, heap entries of `ft_walk_entry.c` | refines `Traversal` |
| `WalkProofs` | theorems about `Walk`: its queues and entries, the refinement of `Traversal`, the order of siblings, what exit code 0 means | |
| `Columns` | `calc_cols_`, `calc_width_`, `create_row_`, `indent_` | |
| `Arena` | all of `ft_arena.c` | |
| `ArenaProofs` | theorems about `Arena` | |
| `Sort` | all of `ft_sort.c` | |
| `SortProofs` | theorems about `Sort` | |
| `DynArray` | all of `ft_array.c` | operations; `Entries` composes them |
| `Entries` | all of `ft_walk_entry.c`, `str_new`, `str_dup`, `str_free`, the arrays of `ft_walk.c` | extends `DynArray` |
| `ArrayProofs` | theorems about `DynArray` and `Entries` | |
| `NameCache` | `get_user_`, `get_group_`, `cache_lookup_`, `cache_store_` | operations; `LongFormat` composes them |
| `LongFormat` | `ft_printer_list.c`, the lengths of the fields of `ft_file_info.c` | extends `NameCache` |
| `FileInfo` | `get_acl_attr_`, `classify_xattrs_`, `read_symlink` and their place in `fill_file_info_` | |
| `LongListingProofs` | theorems about `FileInfo`, `NameCache` and `LongFormat` | |
| `ShellEscape` | `ft_shell_escape.c`, `put_dir_header`, the names of `print_error_` | |
| `DisplayProofs` | theorems about `Columns` and `ShellEscape` | |
| `ParseArgs` | `parse_args`, `main` | |
| `ParseArgsProofs` | theorems about `ParseArgs` | |
| `MC*` | the instances TLC checks | |

### OutBuf

A byte is its position in the stream the callers hand over, so "the descriptor
holds 1, 2, 3, ..." says that nothing was lost, repeated or reordered.  `buf`
is `out->str[0 .. out->len)`, `Cap` is `out->cap - 1`.  One action is one
iteration of a loop: `Copy` of `put_mem_fd`, `WriteSome`, `WriteInterrupted`
and `WriteFails` of `flush_fd`.  `pc` and `after` say which call is running and
what the flush returns to.  `PutEscaped` is `put_shell_escaped_scan_`: a form
longer than the buffer is copied in pieces, any other is appended in one piece
after a flush that makes room.  A long name that needs quotes is first escaped
into memory of its own: `Escape`, or `EscapeFails` when there is none and the
call returns `false` with nothing put (`ft_printer_helper.c:174`).  `ioError`
and `noMemory` record the two causes.  `PrintError` and `Message` are
`print_error_` between two calls: the flush of standard output, and, if it
succeeds, the message; `notes` counts the messages.  The bytes of a message go
through a buffer of their own with the loops modelled here, and are left out.
Callers stop at the first call that fails
(every caller in the source returns `false` at once), and `run_listing_`
flushes once more.  `left_pad_` of the long format has the same loop as
`put_mem_fd` and is the same action.

### Walk

`pc` names the step of `process()`: collecting the operands, the file
operands, `next` (the head of the loop of `process_queue_`), `open` and `read`
(`load_directory_entries_`), `queue` (`queue_recursive_dirs_`), `print`, the
last `flush`, `cleanup`.  `dirQueue`, `files`, `entries` are the three arrays;
`cur` is `dir_path`; `heap` holds the ids of the entries that are allocated.

- *The file system* belongs to others.  `Kids[p]` are the names `readdir` may
  return in `p`, `May[p]` the answers `lstat` may give for `p`.  Each call
  chooses afresh, so that an entry may vanish or change its type between
  `readdir`, `lstat` and `opendir`, and `readdir` may end early.
- *Failures.* Every allocation and every write may fail.  `print_error_` has
  three outcomes: the message is written, the message is lost, or the flush of
  standard output before it fails.  `array_append` and the constructors of entries fail in the
  same action as the call that uses them.
- *Sorting* is any permutation ordered by `Rank`; entries of equal rank come
  in any order, so nothing here depends on stability (that is `Sort`'s).
- *Output* is a sequence of items: the file operands, an empty line, a
  directory's block, a partial item.  `delivered` counts those that have
  left the buffer.  A block carries the id of its directory and of the
  directory whose listing it came from; the ids exist in the code as pointers.
- *Options.* Only those that steer the listing; `-t`, `-u`, `-g`, `-o`, `-G`
  change what an entry looks like or which key `Rank` stands for.

### Traversal, and how Walk refines it

`Traversal` knows no stack, no buffers and no system calls: an agenda of
directories, of which the head is listed next and, with `-R`, replaced by the
subdirectories of its own listing (never `.` and `..`, the constant `Dots`);
with `-d` there is no agenda; a directory can leave the agenda unlisted
only if the run fails; only a run without failure reports success.  `Walk`
maps to it as follows: the agenda is `cur`, the directory being worked on,
followed by `dirQueue` from its end, without the children that
`queue_recursive_dirs_` has pushed while the listing itself is not printed
yet.  The listings made are the blocks of `stdout`.  `failed` is an exit code
other than 0, or `ok = FALSE` once `process_queue_` has returned.  The step
that prints a directory is the abstract `List`: the children pushed one by one
before it become visible all at once.

### Columns

A name is its display length.  `WideEnough`, `Grow` and `TooWide` are the
rounds of the loop in `calc_width_`, including its habit of comparing the width
with the terminal only when a column grows.  `TooWide` and `Chosen` end it as
`calc_cols_` does: one column less, or the layout that is used.  `PrintName` is
one round of `create_row_`, `Indent` one round of `indent_`.  The cursor moves
as a terminal's does, with tab stops of eight.

### Arena

`node` maps an address to its block, `heap` holds the addresses that `malloc`
has handed out.  A new block may have any address that is free, in particular
one that was freed before.  `arena_push` is atomic; the loops of
`arena_pop_to_mark`, `arena_clear` and `arena_release` take one block per step.
Callers use marks in a nested way (`classify_operand_` around `read_symlink`)
and either return to a mark or forget it.  `live` and `chain` are auxiliary:
the allocations whose users may still read them, and the blocks in list order.
`arena_pop_to_mark` first looks for the block of the mark and returns if it is
not found; nested marks are always found, so that return is not modelled.

### Sort

`data` and `tmp` are the array and the scratch array; indices start at 0 in
the code and at 1 here.  `Call` is `sort` with `ensure_sort_scratch_`, then
`Pass`, `Step`, `TakeLeft`, `TakeRight` and `MergeDone` are the loops of
`merge_sort_` and `merge_`.  Sums of `uint64_t` are taken modulo `Word`.
A scratch array that was just allocated holds `Junk`; an old one holds the
entries of an earlier call.

### Entries and DynArray

An address is the number of an allocation, `onHeap` the addresses of `malloc`,
`freed` those given to `free`, and `amiss` those given to it twice or never
got from `malloc`.  `DynArray` has the memory of
an array and the operations of `ft_array.c`; stale pointers stay in `data`
beyond the length.  `Entries` runs them on one array, which is `dir_queue`
(append, reverse, pop into `dirPath`) or `operand_files` (append, clear).
Creating an entry and appending it is one action per outcome: `Queue`,
`NewFails` (its string cannot be allocated) and `QueueFails` (the append is
refused).  A subdirectory is queued from an entry of the arena that has a
path, and the arena is cleared at any time.  `array_reverse` takes one
exchange per step; `content` is the sequence the array stands for.

### LongFormat and NameCache

A field is its length; `FieldLen` has one operator per getter of
`ft_file_info.c`.  `Row` gives the columns at which the fields of one row end,
as far as the start of the name.  `context` is `list_width_context`: when file
operands are listed, the directories still in the queue widen the columns that
hold numbers, and nothing else of them is known.  `LeftPad` is the unsigned
subtraction of `left_pad_`, so a width that is too small gives a huge padding.
`stage` goes through the loop that fills `infos`, the two loops that set the
widths, and the loop over the rows.  `MaxField` is the length of the longest
field: names are no longer, and `FieldAssumption` says that it holds the digits
of the largest number of a word (20 for `uint64_t`).

For each entry `FillName` asks `NameCache` for the owner, then for the group,
before `FillFileInfo` adds the other fields.  Users and groups have a ring
each (`Kinds`).  The user database answers afresh at each call: a name
(possibly empty, possibly longer than a slot), no name, or an error, after
which the number is printed but not cached.  `said` records its answers,
`recent` what was stored last; both are auxiliary.  The actions serve
`get_user_` and `get_group_`, which differ in the cache only.

### FileInfo

One entry of `prepare_list_infos` after the other, as far as it asks the file
system again, on one arena.  The three calls of `llistxattr` are three steps
between which the attributes may change.  A buffer is a sequence of names, and
what a call does not overwrite stays; `heap` is the memory that the arena
hands out again for the next file.  A target is its length.  Each `readlink`
meets a target of any length or fails; one that fills the buffer says nothing
of what was cut off.  `arena` lists what the entry has pushed, so that a
buffer given back too early, too late or not at all shows.  Numbers are below
`Word`.

### ShellEscape

A byte stands for its class (`Byte`).  `stage` goes through `shell_scan_str`, a
counting pass and a writing pass, which are the same loop with a different
`emit_bytes_`.  `use` says who prints: an entry (with or without the blank in
place of a quote), a directory header, or a message.  `ReadBack` is the
reference: a shell's reading of a word, character by character, with its
quoting modes; an expansion, the end of the word or an unknown escape is
`"fail"`.  Braces are outside the classes: the scanner takes them for safe, as
`ls` does.

### ParseArgs

An argument is a sequence of characters.  `Letter`, `BadLetter` and
`ClusterDone` are the inner loop, the others the outer loop and `main`; `live`
counts the strings that `str_from_cstr` allocated.

## 3. The runs

| Run | Configuration | Shows | Distinct states |
|---|---|---|---|
| `outbuf` | capacity 3, 8 bytes, 2 messages | safety, messages in their places, the refinement of `OutStream`, every call returns | 3,582 |
| `walk` | 7 paths, 10 option sets, 4 operand lists | safety of the traversal, the refinement of `Traversal`, it ends | 216,292 |
| `walk_exit_code` | the same | finding 1 | violated |
| `columns` | up to 5 names of length 1, 3, 5, 9; widths 4, 9, 20, 27 | every entry once, aligned, in bounds; it ends | 97,649 |
| `columns_width` | as `columns` | finding 2 | violated |
| `arena` | 3 addresses, blocks of 4 bytes aligned to 2, sizes 1, 3, 5, 4 allocations, 2 marks | safety of the allocator; its loops end | 40,446 |
| `sort` | up to 5 entries in all calls, 3 keys, words of 80 numbers | correctness of the sort; it ends | 74,149 |
| `entries` | an array of at most 3 places, 8 allocations | memory of the entries; the array keeps its sequence | 42,260 |
| `file_info` | 3 attributes, room for 1 on the stack; words of 5 bits, largest buffer 13, targets 1 to 14; 2 files | mark and target are right; buffers returned; it ends | 260,121 |
| `long_format` | up to 2 of 7 entries, or 4 files of 3 owners; rings of 2; 2 second lists, 3 settings | the rows form a table; names are those of the database | 539,134 |
| `shell_escape` | every name of up to 4 of 9 classes, 4 uses | names are read back, lengths agree | 455,547 |
| `parse_args` | up to 4 of 9 arguments | operands, options, strings | 122,495 |

Why the bounds are enough:

- *OutBuf.* Eight bytes through a buffer of three: calls shorter than, equal
  to and longer than the buffer, several of them pending at once, every split of
  a partial write, and a second flush after a failed one.  Two messages, so
  that one comes between any two calls and after another one.
- *Walk.* A directory `r` lists itself as ".", holds `a` (which may vanish)
  with a subdirectory `c`, and `b` (which may turn into a file): depth two,
  siblings, hidden names.  The operand lists have one operand; a missing
  file, directories; a link to a directory twice; and a directory that is
  both an operand and a subdirectory of another.  The option sets contain each
  order (`sorted`, `-r`, `-f`) with and without `-R`, `-d` and `-l` alone and
  together.
- *Columns.* Lengths below and above the minimal width of a column and beyond
  a tab stop; terminals that hold one column, two, several, and one where tabs
  are used over two tab stops.
- *Arena.* Sizes that leave an odd position, fill a block and need a larger
  block; with three addresses blocks are freed and handed out again.
- *Sort.* Five entries make a pass end with a full pair of runs, half a pair
  or a single run; two calls share the five entries.  A word has sixteen times
  the length of the longest array: the code refuses a length beyond a sixteenth
  of `2^64` (`ft_sort.c:62`), so that neither an index nor the width wraps.
- *Entries.* Eight allocations are enough for a directory, an entry with a
  path, the subdirectory queued from it and a failure, or for three file
  operands that fill the array.  Initial capacities from 1 to the limit of 3;
  twice the capacity 2 is beyond the limit and is cut back to it.  It never
  wraps: in the code as here a word holds sixteen times the limit.
- *LongFormat.* Short and long numbers in every column, devices whose two
  numbers have their longest forms in different rows, a file and a device
  without a status, an entry with quotes; a second list that is empty or has
  two directories.  The three settings show both names, the owner only and the
  group only, to a terminal and not.  One id more than the ring has slots, a
  name that is empty and one that is cut; four entries let the ring go round
  with a hole in it.  Words of 28 bits hold every number of the lists, and no
  sum of the columns of a row comes near their end.
- *FileInfo.* Two names do not fit the stack, so that every path through
  the three calls is taken; the second file meets what the first left behind.
  Sizes 0, small, beyond the capacity and the one the code refuses; a maximum
  that doubling oversteps; a target that never fits.
- *ShellEscape.* The escaper has three states and looks at one byte at a
  time, so four bytes reach every pair of transitions and return; the class `~`
  needs the first place only.
- *ParseArgs.* Nine arguments cover options that override one another in one
  cluster and in several, a wrong letter, a lone dash, an empty argument,
  `--` alone and with a word after it.

Deadlock is not checked: every one of these programs stops.

### Fairness

The invariants need none; the refinements are of the safety part.  For the
liveness properties `walk`, `columns` and `file_info` assume weak fairness of
the whole next-state relation of a sequential program: the process is
scheduled and a system call returns (`readlink` may fill the buffer every
time).  `outbuf` assumes weak fairness of the steps inside a call (an
allocation succeeds or fails, a message is written or lost) and that
`write` makes progress eventually when it is attempted for ever; a descriptor
that interrupts every attempt would block the real program too.  `arena` and
`sort` assume that a call that has begun goes on; nothing makes callers call.

### Mutants

Every property has a mutant, several if it is a conjunction: a plausible
mistake in one definition (defined just before it and marked "Mutant of") under
which the run finds the property violated.

`InBounds`, `WellFormed`, `InScratch`, `Fits`, `MarkRight`, `Table`, `Honest`,
`StringsOwned` and `Owned` contain the type invariant of their module.

## 4. What is proved

`OutBufProofs`, for every capacity and every number of bytes:

- `TypeCorrect`, `NothingLostOrRepeated`, `BufferBounded`, `SuccessIsDelivery`,
  `FailuresHaveCauses`: the five invariants of the run `outbuf`.  The last says
  that only a failed write, or a failed allocation for a name longer than the
  buffer, makes a call fail: the room check of `shell_escape_append_len` never
  refuses a name.
- `MessagesKeepPlace` (`MessagesInPlace`): a message is written only when the
  descriptor has received all that was handed over before it.
- `BufferImplementsStream`: `OutBuf` refines `OutStream`.

`NoLossNoDuplicate` speaks of the descriptor alone and is not inductive.  The
invariant `IInv` ties the parts of the stream together: the bytes received,
then those of the buffer that `flush_fd` has not written yet, then those the
current call has not copied, are the numbers 1 to `given` in order.  It also says
where a flush may return to, that the length of the name waiting for `append`
fits the buffer after a flush, that nothing is left in the buffer when a message
is due, and that a failure has a cause.

`WalkProofs`, for every tree, every set of answers, every list of operands and
every combination of options:

- `TypeCorrect`.  Inductive with `IndexOK` (the loop indices point into their
  arrays) and `CurOK` (`dir_path` is not NULL exactly between the pop and the
  end of the round): together `TInv`.
- `EntriesOwned`: each heap entry has one owner until it is freed and none is
  left at the end.  Inductive with the freshness of the next id (`OInv`).
  Instead of one step per action for each conjunct, a step is first shown to have one
  of a few effects on the queues and the heap (`StepEffect`: nothing, a
  rearrangement, an append, a pop, a release), and the invariant is
  preserved by each effect.
- `OneGapBetween` (`Separated`).  The output is not inspected by the code, so
  the invariant says that `printed_dir`, `printed_files` and the gap flag of
  `process_queue_` tell its last item, and that the gap is due only until the first directory
  has been popped, while only operands wait.
- `BlocksNamed` (`Labelled`).  Paths are left out only when one thing is
  listed: the invariant says that then at most one directory is waiting, in
  work or printed, and otherwise that every directory block has its header.

Of the traversal as a whole, over the same trees and options, `WalkProofs` shows:

- `ListingImplementsTraversal`: every behaviour of `Walk` is one of
  `Traversal`.  The mapping counts places: the n-th listing made is the block
  of `stdout` with n - 1 blocks before it, the n-th directory of the agenda the
  n-th from the end of `dirQueue`.  Lemmas say what an item more or a directory
  less does to such an enumeration.  The invariant `TravInv` ties the queue to the
  output: an id is in one place only, each directory was found in one that has a
  smaller id and is printed already, or is in work (`TreeIds`); while a
  directory is in work, its children lie on top of the queue, in the order of its entries from
  the last to the one just examined (`Children`); once `process_queue_` has
  returned, the agenda is empty or the run has failed (`CodeInv`).  Each step
  of `Walk` is then one abstract step or none:

  | `Walk` | `Traversal` |
  |---|---|
  | `Start`, `Collect` | none, or `Lose` when an operand is an error |
  | the end of the file operands | `Begin` |
  | pop, `opendir`, `readdir`, queueing a child | none |
  | a directory that cannot be read is dropped | `Skip` |
  | a directory is printed | `List` |
  | an empty queue, a failure, `-d` | `End` |
  | the last flush | none, or `Lose` when it fails |
  | cleanup | `Report` |

- `SiblingsStayInOrder` (`SiblingsInOrder`).  The invariant `OrderInv` says it
  not only of the printed blocks, but of every pair of siblings wherever they are:
  printed, in work or waiting, where the queue has them in reverse.
  Operands that wait are in the order given until they are sorted.
- `ZeroMeansComplete` (`ExitZeroMeansComplete`).  A run is clean while its exit
  code is 0 and `process_queue_` has not returned `false`; a step never makes
  an unclean run clean.  The nodes of the tree that are printed, in work or waiting
  only grow in a clean run (`TreeGrows`).  The invariant `CompleteInv` says
  that they hold every operand examined so far (`OperandsCovered`) and
  every subdirectory of a listing made (`SubsFound`), that nothing waits at the
  end (`Emptied`) and no message was due (`ErrorFree`).  That each is listed
  once follows from `OrderInv`: names in a listing differ (`NamesOnce`), so
  that two blocks of one node would each come before the other.

`ArenaProofs`, for every number and size of blocks, every alignment and every
order of the calls:

- `BlocksLinked` (`WellFormed`) and `AllocationsApart` (`Separate`).  Neither
  is inductive: what is safe after `arena_pop_to_mark` depends on what a mark
  meant when it was taken.  The invariant `IInv` orders the allocations in use by the
  list of blocks, says that every block is filled up to the end of its last
  allocation, and that a mark lies between the allocations made before it and those
  made after.  While blocks are given back one by one, nothing behind the
  block of the mark matters.

`SortProofs`, for every number of entries and every size of a word, whatever
the scratch array held before:

- `WithinScratch` (`InScratch`): no index leaves the two arrays and no sum
  wraps.  The merge moves left in multiples of twice the width, so that the
  middle and the right end are the sums the code computes, clipped to the
  length.
- `EntriesKept` (`Permutation`): while a merge runs, the scratch array holds
  the entries taken; they and those waiting in the two runs are the
  entries that were there.
- `SortedStably` (`InListingOrder`): a finished sort is in listing order and
  entries of which neither comes first have kept their order.  The invariant
  says that the runs to the right of `left` have the length of the width, those
  to its left twice the width, that each is in order, and that in the whole
  array equal entries are in the order of the call; within a merge, that what
  has been taken is in order and comes before what waits.

`LongListingProofs`, of `FileInfo`, for every bound on the targets and
attributes:

- `TargetsWhole` (`NeverTruncated`): a target that is stored is the one
  `readlink` read last, all of it.
- `FieldsOnly` (`OnlyFields`): between entries the arena holds the fields and
  nothing else.  The invariant says what lies on the arena at each step.
- `MarkOfThisFile` (`MarkRight`): whatever earlier files left in the buffers,
  the names that are classified are those the last call wrote.  A lemma says
  so of a buffer after `llistxattr`.

Of `NameCache` and `LongFormat`, for every size of the ring and of a slot, every
answer of the user database, every list and second list of entries:

- `NamesHonest` (`Honest`).  That a shown name is one the database gave says
  nothing of the ring, and is not inductive.  `SlotsInv` says that a slot in
  use has a name the database gave for its id, cut to the slot, and that no two
  of them have the same id: `cache_store_` is reached only when no slot in use has it,
  so an empty name that leaves a hole never makes a second copy.
- `AskedOnceHolds` (`AskedOnce`), an action property.  `RecentInv` says where the
  ring has the names stored last: the j-th of n in the slot `n - j + 1` places
  before the next one, modulo the size of the ring.  Overwriting the next slot
  drops the oldest of a full ring and no other; a lemma about
  remainders says that places less than a ring apart are different slots.
- `RowsAlign` (`Table`).  `WidthsInv` says that the columns are as wide as the
  fields of the entries seen so far, which the second list only widens;
  so when rows are printed no subtraction of `left_pad_` wraps, and every row is
  `Line`, the same for all entries (`RowsInv`).  The one thing to split is a
  column that has sizes and device numbers.  `LoopInv` says that the fields of
  every entry are there before the widths are computed.
  No number is longer than `MaxField` because `str_uint_len` is monotone
  (`UintLenMonotone`).

All of them are conjuncts of `ListInv`.

`DisplayProofs`, of `Columns`, for every list of names and every width of the
terminal:

- `LayoutInBounds` (`InBounds`), `LayoutComplete` (`EachOnce`) and
  `LayoutAligned` (`Aligned`).  The run has five names; here the arithmetic of
  rows and columns is shown for every quotient (`RowsHold`, `ColumnExists`,
  `OnePlace`).  The invariant `ColInv` says that the columns are as wide as the
  entries measured so far want them (`WidthsInv`); that exactly the places
  before that of `create_row_`, row by row, are printed, each once (`PlaceInv`,
  `PrintedInv`); and that a column starts where the one before it ends
  (`StartsInv`), which for the column that is due is where the cursor will be
  (`CursorInv`).  A row that has a later column has every column
  before it (`EarlierRow`); that is why the last rows, which are shorter, still
  line up.  With one column only, the widths may be too small, and do not matter.

Of `ShellEscape`, for names of every length, of any of the classes:

- `QuotedRoundTrip` (`RoundTrip`).  `Printed(bytes, mode, word)` says what a
  shell has made of the bytes written so far: it has read `word` and is in
  the quoting `mode`; none of them is unprintable, and a colon of a header is in
  quotes.  The invariant (`PrintInv`) has it for the part of the name that
  `shell_escape_bytes_` has passed, with the mode that `t_escape_state` stands for
  (`ModeOf`).  One lemma for each helper (`leave_ansi_`, `enter_single_`, ...) says
  which mode it leads to; `EscapedPrinted` puts them together for one byte.
  Names in double quotes or none are read as they are because of what the scan
  has found (`ScanInv`, `QuoteInv`).
- `QuotedFits` (`Fits`).  The two passes of the escaper are tied together by the
  lengths and states before each byte (`Tally`): the counting pass builds
  this history, and the writing pass, started in the same state, is at each
  byte where the counting pass was (`CountInv`).

What a recursive function computes (`ReadBack`, `UintLen`) is shown by minimal
counterexample: a set of numbers that is not empty has a least element
(`Least`, from the well-foundedness of `<`), and the least length or number for
which the claim fails is refuted from the next smaller one.  In the same way
the function that the recursive definition chooses is shown to exist.

`ArrayProofs`, for every limit and every word in which it fits:

- `SequenceKept` (`SameSequence`).  The capacity grows strictly below the limit.
  While `array_reverse` runs, the invariant
  says that `left` and `right` are as far from the two ends, that the places
  outside them are in the new order and those between still in the old one.
- `OneOwnerEach` (`Owned`), for every number of allocations.  `EntriesInv` says
  that an entry on the heap consists of allocations in use, which no other
  entry shares, and that together they are all that is in use;
  an entry of the arena has none of them (`Sound`).  `HeldInv` says that the array
  and `dir_path` hold the entries on the heap, each once, also while the array is
  being reversed.

`ParseArgsProofs`, for all arguments and command lines of every length:

- `NoStringLost` (`StringsOwned`).
- `MeantAsGiven` (`ParsedAsGiven`).  The reference speaks of places in the
  command line, not of a second parser: which arguments are operands, which
  letters are options, and which of them comes last.  The invariant
  `ParseInv` says the same of the part that has been read.

Assumptions: those the modules state about their constants (`CapAssumption`,
`MaxBytesAssumption`, `MaxNotesAssumption`, `TreeAssumption`, `RunAssumption`, `NoDirAssumption`,
`SortAssumption`, `ArenaAssumption`, `FileInfoAssumption`,
`ArgumentAssumption`, `ArrayAssumption`, `EntriesAssumption`, `LayoutAssumption`,
`CacheAssumption`, `IdAssumption`, `RequestAssumption`, `FieldAssumption`,
`ByteAssumption`, `MaxLenAssumption`); TLC evaluates them in the runs.
`SortAssumption` bounds the number of entries below the size of a word,
`FieldAssumption` the length of ten fields: a row does not reach the end of
memory.  `RequestAssumption` gives the types of the lists and options,
`IdAssumption` those of ids and names.

Only model-checked: liveness (`CallsReturn`, `Termination`, `Finishes`,
`Returns`), which the prover does not handle.  Every invariant, action property
and refinement of a passing run is a theorem.

## 5. Findings

1. **The exit code of a run can go down** (`walk_exit_code`).
   `load_directory_entries_` assigns `*exit_code = path->is_operand ? 2 : 1`
   when a directory cannot be opened (`ft_walk.c:404`).  With `-R`, a missing
   operand (exit code 2) and then an unreadable subdirectory end with 1.  The
   neighbouring case guards the assignment with `if (*exit_code != 2)`
   (`ft_walk.c:444`).
2. **A layout can be wider than the terminal** (`columns_width`).
   `calc_width_` compares the width with the terminal only when a column grows
   beyond the minimum of three (`ft_printer.c:160`), and the number of columns
   tried first is `(term_size + 2) / 3` (`ft_printer.c:56`): 26 names of one
   character and a 27th of three give a line of 81 characters on a terminal of 80.  `README.md:18` promises a
   "Terminal-width aware column layout".

## 6. What is not modelled

- *Formatting* (the text of dates and numbers, permission characters,
  colours, usage and error texts): stateless.  Lengths are modelled.
- *Symbolic links and loops of the tree.* `opendir` of a directory that was
  replaced by a link follows the link; the trees checked are finite.
- *Errors of readdir*: the code cannot tell them from the end; Walk lets
  `readdir` end at any name.
- *Failing writes in Columns and LongFormat*: any call may end the listing;
  OutBuf and Walk have the consequences.
- *Targets of links* are printed as they are (`ft_printer_list.c:270`); the
  models have their lengths only.
- *Brace expansion* in the shell's reading of a name, and shells other than
  those that know `$'...'`.
- *The text of joined paths* (`join_dir_path_`): its allocation is modelled,
  the slash between directory and name is not.
- *Arithmetic of the total of blocks* and the time zone.
- *`ft_utils.c`, `ft_str_arena.c`*: copies, comparisons and conversions without
  state, within reach of unit tests.

## 7. Plan

The order is that of importance: first the traversal and what it promises,
then the layers below it, then the stateless algorithms.

| | Modules | State |
|---|---|---|
| 1 | `OutStream`, `OutBuf`, `OutBufProofs` (bytes, failures, messages) | done |
| 2 | `Walk`, `WalkProofs` (types, ownership, separators, labels) | done |
| 3 | `Columns`, `Arena`, `Sort` with `DisplayProofs`, `ArenaProofs`, `SortProofs` | done |
| 4 | `Traversal`, refined by `Walk`; `WalkProofs` (refinement, order, exit code 0) | done |
| 5 | `ShellEscape` with `DisplayProofs`, `Entries` with `DynArray` and `ArrayProofs` | done |
| 6 | `FileInfo`, `LongFormat` with `NameCache`, `LongListingProofs` | done |
| 7 | `ParseArgs`, `ParseArgsProofs` | done |

Left open: the termination arguments as theorems, which needs a prover for
liveness, and the parts of section 6.
