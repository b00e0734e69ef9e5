# pelib in TLA+

A specification and verification development for pelib, a C library of
templated collections (circular fifo, array, map, set, stack), an arena
allocator, sorting algorithms, and a C++ driver that converts data through
shared libraries. The modules describe the code as it is. Where it departs from
what a header or a comment says, the model follows the code: four such departures
have a run that shows them, and section 5 lists the others that were met.

Contents: 1 the system; 2 the modules and the code; 3 the runs; 4 the proofs;
5 what is not modelled; 6 the plan.

## 1. The system: inventory

pelib's collections are templates: a `.c` file is included with a macro for the
element type (`CFIFO_T`, `STACK_T`, ...), which names one instance of each
function. A collection stores values with the `pelib_copy`, `pelib_compare`,
`pelib_init` of its element type. Nothing runs concurrently inside the library;
threads come from its clients and share collections, and only `stack.c` has
operations with a lock.

| Part | State it keeps | Operations that change it | Who calls whom |
|---|---|---|---|
| circular fifo, `fifo.c` | buffer, capacity, read and write index, last operation | push, pop, pushmem, popmem, fill, discard, writes of the client at the address of writeaddr, popfifo between two fifos | popfifo uses discard, fill and the continuous lengths |
| `fifo_array.c` | none (hands a buffer over) | array to fifo, fifo to array | array, fifo |
| arena allocator, `malloc.c` | circular list of blocks (address, free size), tail | malloc with an alignment, free | clients only |
| stack, `stack.c` | top, linked elements, mutex | push, pop, `_elem`, `_safe` (lock) and `_safe_managed` (elements recycled through a pool, itself a stack) | sort uses it for its ranges |
| map, `map.c`, and set, `set.c` | doubly linked sorted list of iterators, first, last | insert, copy, free | `iterator.c`, `pair.c` |
| array, `array.c` | data, capacity, length; files on disk and in the buffers of stdio | append, write, set_buffer, copy, stores to and loads from text and binary files | sort, `fifo_array.c` |
| sorting, `sort.c` | the array in place, a stack of ranges or the call stack | quicksort with tuning and its recursive variant, insertion sort | array, stack |
| driver, `pelib.cpp` | records by name, their delete functions, library handles, stream descriptors | parse inputs, run processes, dump outputs, free everything | `argument_parsing.cpp`, `dl.cpp`, user libraries |
| argument parsing, `argument_parsing.cpp` | the words left, the descriptor of one stream, open brackets | one option, or one word of a list | driver |
| element types, exceptions, C++ base classes, time, monitor | none, or one value | | all of the above |

What is hard in it, and what makes each part correct:

* **Fifo.** Read and write index coincide both when it is empty and when it is
  full; the last operation tells which. Every operation that wraps is written in
  cases (pushmem calls itself for the rest), and clients get raw windows into
  the buffer and use them later. Correct: it is a bounded queue, its windows are
  exactly its content or its free slots, and elements written in place stay
  where fill finds them.
* **Two fifos.** popfifo copies in rounds that end where either buffer ends.
  Correct: it moves what one copy would, in order, and its loop ends.
* **Allocator.** Merges of neighbours, alignment, `size_t` arithmetic. Correct:
  blocks tile the arena, no hole is hidden, regions of clients are disjoint,
  stale or repeated frees harm nobody.
* **Stack.** Interleavings of threads; elements read after the lock is released
  and recycled. Correct: linearizable, every element in one place, the lock
  given back on every path.
* **Map and set.** Up to four pointers per insert, walks that go on while
  elements are inserted. Correct: a map, both directions of the list agree, a
  walk misses nothing.
* **Array.** Lengths that come from files, windows in elements over a file whose
  first entry is no element, files that are written later than the call that
  writes them. Correct: what is loaded is what was stored.
* **Sort.** Pivots that are means, three-way split with in-place rotation.
  Correct: ordered, a permutation, ends for every input.
* **Argument parsing.** Two loops share the words: one finds streams, the other
  reads the options of one stream and says how many words it took. Correct: no
  word is read twice or passed over, and the line means what a user reads in it.
* **Driver.** The order in which records, delete functions and libraries are
  released, with files, standard input and processes treated differently.
  Correct: a record is used and deleted only while the code that made it is
  loaded, and deleted once.

`PROJECT.json` lists every component with its status and, under "hazards",
each of these at its line.

## 2. The modules and the code

| Code | Abstract specification | Model | TLC instance | Proofs |
|---|---|---|---|---|
| `fifo.c`, `fifo_array.c` | `BoundedQueue` | `CFifo` (functions), `Fifo` (calls) | `MCFifo` | `CFifoProofs`, `FifoProofs` |
| `fifo.c` popfifo | properties only | `FifoPipe` over `CFifo` | `MCFifoPipe` | `FifoProofs` |
| `malloc.c` | `Allocator` | `Malloc` | `MCMalloc` | `MallocProofs` |
| `stack.c` | `ConcurrentStack` | `Stack` | `MCStack` | `StackProofs` |
| `map.c`, `pair.c`, `set.c`, `iterator.c` | `OrderedMap` | `Map` | `MCMap` | `MapProofs` |
| `sort.c` | `Sorting` | `Sort` | `MCSort` | `SortProofs` |
| `array.c` | `Archive` | `Array` | `MCArray` | `ArrayProofs` |
| `argument_parsing.cpp`, parse_args of `pelib.cpp` | the streams a line means, in `MCDriver` | `Arguments` | `MCDriver` | types in `DriverProofs` |
| main of `pelib.cpp`, `dl.cpp` | `Conversion` | `Driver` over `Arguments` | `MCDriver` | `DriverProofs` |

Conventions. An action is one call (fifo, allocator, map, array), one round or
iteration of a loop (FifoPipe, Sort, Arguments, Driver), or one access to shared
memory (Stack).
Variables carry the names of the struct fields they stand for. Each model has an
abstract specification and a refinement mapping, stated at its end
(`INSTANCE ... WITH`). Operators whose comment begins with "Slip:" are plausible
mistakes in the definition that follows them; nothing in a specification uses
them. They show that the properties would notice such a mistake.

**CFifo, Fifo.** A fifo is a record: buffer (a function on slots), capacity,
read, write, last_op. `CFifo` has one operator per function of the code; those
that only observe return a value, the others the new record. Pointers into the
buffer are slot numbers and NULL is -1. `PushMem` and `PopMem` follow the code's
segments and its second call after a wrap; the second call is made at most once,
so they are not recursive. `PeekMem` is a recursive function. `PeekAddr` has what
the caller's pointer to the rest held before as a parameter, since the code leaves
that pointer alone when it has no element to give. In `Fifo` the
client makes any call, or writes one element at a time at the addresses
writeaddr gives (`StageElem`) and commits with fill. The client's side of that
protocol is a guard: it writes no more than fits, and pushes nothing while it
has uncommitted elements. `call` records what the last call was asked and what
it returned, so that the refinement covers arguments and results too: a pushmem
that wrote other elements than those it was given is no step of the queue.
`OrderedMap` and `Map` do the same.

**FifoPipe.** Two fifos and popfifo's locals; one `Round` is one pass through
the loop. Between calls a client pushes to the source and pops from the target,
which reaches every pair of alignments. Its own names begin with Pipe, so that
`FifoProofs` can extend both it and `Fifo`.

**Malloc.** The circular list is a sequence, tail last. `TailServes`,
`SearchPasses`, `FromTail`, `FromBlock` and `FreeResult` are the branches of the
code, with subtraction modulo `SizeModulus` as in `size_t`. `live` is the
client's view: what it was given and did not free; `ret` is the last answer, with
the size and the alignment that were asked for, so that `Allocator` cannot explain
it by another request. The client also frees stale and wrong addresses.

**Stack.** Each thread has a program counter; each access to `top`, to an
element's `next` or `buffer`, and each lock operation is a step, so all
interleavings of two threads are covered. The release build is modelled
(`-DNDEBUG`): assertions do nothing, and those worth stating are properties.
The model gives each thread a pool of its own, which is an assumption about
clients: pools are popped without a lock (`stack.c:246`), though `stack.h` does not
say so. An element's address can be returned by malloc again after it was freed.
`client` is the kind of program that
uses the stack: *safe* calls push_safe and pop_safe at will, on an empty stack
too; *managed* calls all four locked operations, but no thread pops more than it
pushed, which is what a program must respect since `stack.c:236` hides an empty
stack; *reckless* does not respect it, and belongs to run `stack_empty`.

**Map.** A heap of cells with next and previous pointers, first and last of two
collections, and one client that walks with begin and next while it inserts and
copies. Cells are reused after they were freed. `set.c` is the same text as
`map.c` with elements for pairs, so `kind` says which of the two the client uses
and the actions of a set (`InsertInSet`, `CopySet`, `FreeSet`) share the operators
of a map, with one value for every element; compare, which differs, has an
operator for each. compare of ints wraps around, and `MapAssumption` keeps keys
and values where it does not. `call` records the last call and what it returned,
and `LosesOnlyRefusedCopies` speaks of it: cells are lost if and only if the call
is a copy and the destination has keys of the source. Observers that follow NULL
give `Crash`, and distance, whose loop may not end, `Forever`.

**Sort.** The locals of `quicksort_tune`, one loop iteration a step; the stack of
ranges is a sequence (its linked form is module `Stack`'s subject). `variant`
is the entry point: `stack` pushes both ranges, `recursive` calls itself for
each, so that the sequence stands for the ranges of the calls that are open. A
float mean is modelled as the sum divided towards zero, what the conversion to
int does. The element before the range that insertion sort reads and ignores is
not read in the model.

**Array.** An array is a record of capacity, length and data, whose element 0 in
the code is the first of a sequence. A text file is a sequence of words (a number
and a blank), a binary file one of units that take a byte each, of which the
length fills `IntSize` and an element `width`; what is read across two elements is
`Torn`. storefilename never closes its file (`array.c:455`), so its words wait in
`unsaved` until the program ends; a store finds the file empty in between.
storefilenamebinary is several steps: `StoreBinary` opens and truncates the file,
`Flush` lets more of what was written reach it, as many units as it may, and
`CloseStore` writes the rest and returns; `writing` is the array it stores. The
program can be killed at each of them, and the loaders then find no length, or
fewer elements than it says. `Exit` and `Killed` are external: the C library
flushes its buffers in an order of its own, or not at all; that a text store is
written in one piece at the exit (it fits a buffer of stdio), and that no write
fails for want of room, are assumptions of the model. `open` counts what the
program cannot open again: a load that finds no length, or cannot use it, leaves
its file open. `Compare` uses the comparison of ints, modulo `IntModulus`, and
`ObserversAgree` is stated of elements whose difference fits (`Near`). `NumDigits`
compares with `Powers` of `Radix` where the code prints the number and counts what
it reads. `Archive` states the promise and its limits: what a text file keeps of
negative numbers, which lengths it can be loaded with, when the width of an
element matters, what is lost in a crash. Its windows are an offset and a number
of elements, as the code takes them and as the comment at `array.c:254` says;
`array.h:65-69` says something else (section 5).

**Arguments, Driver.** A step of `Arguments` is one turn of the loop of
parse_args, one option of `pelib_argument_stream_parse`, or one word of a
bracketed list. A word is a string; the file name made from `--lib` is the
sequence of its parts. `memory` holds the blocks a descriptor owns: its array of
arguments, the string of each argument, and the copies of the values of its
options. A stream counts the copies made for each option (`copies`), since a
repeated option replaces the pointer to the copy before; destroy (`Released`)
frees the array and the last copies. A step of `Driver` is one turn of one of
main's loops or one of the phases at its end. What a library does is external: a
parser returns one record or NULL, a process any set of new records, a dump
nothing. Records carry the library that made them and the libraries whose function
deleted them. `CannotLoad` is every place where `dl.cpp` exits since a library or
a function does not load. `Conversion` is the user's view: named values that
inputs extend, processes replace and outputs show.

## 3. The runs

TLC checks deadlock in every run but those of `MCSort` and `MCDriver`, whose
programs end.

| Run | Shows |
|---|---|
| `fifo` | `Fifo` refines `BoundedQueue`; observers and windows agree with the content; staged elements stay in place; array conversion and back keeps the elements |
| `fifo_pipe` | popfifo moves all it can, in order, in at most three rounds (`rounds` in `PipeTypeOK`), and returns |
| `malloc` | the arena is tiled by well-formed blocks with no two holes next to each other (`BlocksTileArena`), regions are the allocated blocks and have the size and alignment asked for, and malloc refuses only what does not fit |
| `stack` | the calls of two threads, of a safe or a managed program, are linearizable to a stack; elements are recycled without being shared, read only when they exist, and the lock is given back |
| `map` | two maps, or two sets, refine functions from keys to values; lists are well linked, walks miss no key, compare, size and distance agree with the keys where they return, and a call loses cells if and only if it is a copy, one for each key that was refused (`map.c:181`, `set.c:178`) |
| `sort` | for both quicksorts: the window is sorted, a permutation, the rest untouched, and the sort ends |
| `array` | arrays and their files refine `Archive`, across programs that end or are killed, also while they store; an array holds more than its capacity only after a preload; compare and string agree with the elements |
| `pelib_convert` | each command line is read as the streams it means; records are used and deleted once and only while their library is loaded; the records, handles, descriptors and blocks of descriptors that main leaves behind are exactly known; outputs show the values inputs and processes made; main ends |
| `fifo_peekmem` | *violation*: peekmem returns more elements than the fifo holds (`fifo.c:613`) |
| `fifo_peekaddr` | *violation*: the window at an offset leaves the content (`fifo.c:344`) |
| `malloc_aligned` | *violation*: an aligned region overlaps another or leaves the arena (`malloc.c:67,134`) |
| `stack_empty` | *violation*: pop_safe_managed reads through NULL on an empty stack (`stack.c:236`) |

Two properties say what the code leaves behind rather than that it leaves
nothing: `LosesOnlyRefusedCopies` (`map`) and `LeavesOnly` (`pelib_convert`:
records of inputs whose name was taken, handles of the libraries of inputs,
descriptors of processes with all they own, and of the descriptors destroyed the
strings of arguments and the copies a repeated option replaced). The code loses
these for certain; the properties say that it loses them and, of records,
handles, descriptors and the blocks of descriptors, nothing else. Other memory of
main (the structures of load_lib, its maps and vectors) is not counted.

**Bounds, and why they are enough.**

* `fifo`: capacity 4, two values, requests up to 5. With 4 slots each of the six
  relations of read and write to the end of the buffer occurs with both windows
  longer than one; a request of 5 exceeds every fifo. TLC visits 42160 states.
  `Value` has two members since the code never looks at a value: two tell any
  two slots apart in some state.
* `fifo_pipe`: capacities 3 and 3, requests up to 4; every pair of alignments,
  and calls with one, two and three rounds.
* `malloc`: 7 bytes from address 1, sizes 0 to 3, alignment none or 2: up to
  seven blocks, holes of every size between regions, aligned and unaligned
  addresses. The guard `TailHasRoom` keeps aligned requests to those the tail can
  serve; `malloc_aligned` drops it. `SizeModulus` 64 stands for the width of
  size_t, far above the arena.
* `stack`, `stack_empty`: two threads, two values, three elements. Three elements
  give a stack of two while another is recycled. Pushes are guarded so that malloc
  does not fail (`HeapBound`). 156,600 states.
* `map`: two maps or sets, three keys, two values, four cells: inserts at the front,
  in the middle and at the end, copies with zero to two refused keys, and lost cells
  until malloc has none left. Cells and maps are symmetric. `IntModulus` stands
  for the width of int, as in `sort`. 47,656 states.
* `sort`: every window of every array of 5 ints from -1 to 2, thresholds 0 and
  2, one and two samples, both variants. Thresholds below the window's size give
  nested splits; -1 covers the rounding of negative means. `IntModulus` 8 stands
  for the width of int; `SortAssumption` says no two elements differ by more than
  fits, since compare subtracts. 2.1 million states.
* `array`: two arrays of up to two elements, -1 and 1, one file. `Radix` 2 makes
  the length 2 a number of two digits, as 10 is in the code, so both outcomes of
  the test at `array.c:181` occur. An int takes two units and an element two or
  three: as wide as an int (windows are exact) or wider (they are torn). A store can
  be killed at every unit. `IntModulus` 16 holds the differences of -1 and 1, but not
  all of those with a torn element, 7. Two files
  may be open, enough for two text stores of which either is written last, and for
  a load or store that finds none left. `SizeMax` 7 stands for `size_t`: it exceeds
  every length, and 0 less 1 wraps to it. Arrays are symmetric. 156,934 states.
* `pelib_convert`: two sets of command lines. `ShortLines`: every sequence of
  three of fifteen phrases (an option with its value, one of which looks like an
  option, a flag, a bracketed list, a word that ends a stream), four that begin
  with an input, and those a truncated phrase ends; each with the streams it
  means, composed phrase by phrase and not by a parser. `WholeLines`: up to two
  inputs from standard input or a file, with or without a name, from two
  libraries, up to two processes, up to one output to each target. Two names, one
  of them that of a type, so that named and unnamed inputs collide. 377,298
  states.

**Fairness.** Only where a property needs it, and only for steps a thread takes
once it made a call: `WF_vars(Round)` and `WF_vars(Return)` in FifoPipe,
`WF_vars(Step(t))` for each thread in Stack, `WF_vars(Next)` in Sort and in Driver:
one thread that goes on until it ends, which for Driver takes in that parsers,
processes and dumps return. A thread
inside a call is scheduled by the operating system; no fairness makes a client
call anything. Weak fairness for a thread that waits for the mutex does not say
it will get it; `LockReleased`, the property that needs it, only says that a
holder releases.

## 4. The proofs

Each `...Proofs` module states what it proves of its component for every value
of the constants that the component's assumptions admit: arrays, capacities and
arenas of any size, any number of threads, collections, records and libraries.
Every theorem `Spec => []P` comes from an inductive invariant; the theorems of
refinement have one lemma for each action, which shows it to be a step of the
abstract specification or to change nothing that specification sees.

| Component | Inductive invariant | Theorems |
|---|---|---|
| `Fifo` | `TypeOK`, `StagedInPlace` | the queue is implemented; staged elements stay in place; observers, windows, conversion and peekmem |
| `FifoPipe` | `PipeTypeOK`, `RoundsBounded`, `MovesAllItCan` | at most three rounds, nothing that fits stays behind, the order is kept |
| `Stack` | types, what each program counter promises (`Local`), well-linked lists, every element in one place | mutual exclusion (in `TypeOK`), elements in one place, linearizability, no pop of a managed program reads through NULL |
| `Malloc` | `TypeOK`, the list tiles the arena, `live` is what is allocated | tiling without neighbouring holes, regions are blocks and apart, the allocator is implemented |
| `Map` | lists well formed (`WellFormed`), the walk's keys lie ahead (`WalkOn`) | types, links, walk, observers, cells lost, the ordered map is implemented |
| `Sort` | `TypeOK`, ranges typed, ordered, split, separated, the array permuted | types, what is separated stays so, sorting is implemented |
| `Driver` | nine parts, see below; `MemoryOK` | types, records usable and deleted once by their owner, exactly what is left behind, the conversion is implemented |
| `Array` | what an array, a file and a pending store are: `ArraysOK`, `FormatOK`, `DiskOK`, `WritingOK`, `UnsavedOK` | memory bounds, observers, the archive is implemented |

**Assumptions.** They are the named `ASSUME` of the components, which TLC
evaluates in the runs: sizes are naturals, sets of cells and names are finite
since memory is, NULL and None are not among the values they stand out from. Six
say more. `ArrayAssumption`: elements are at least as wide as an int, since the
window loader writes past its array otherwise (`array.c:283`), and no capacity
exceeds the largest `size_t`. `SortAssumption`: no two elements of an array differ
by more than an int holds, since compare subtracts (`integer.c:55`);
`MapAssumption` says the same of keys and of values. `ArenaAssumption`: the arena
lies below the largest address. `LineAssumption`: the words of a command line are
strings, and whenever parse_args meets an option that names a library, the next
word is a library the model knows. The theorems of `MallocProofs` have the
hypothesis `AlignedAnywhere = FALSE`, and `ManagedPopReads` that no client is
reckless; runs `malloc_aligned` and `stack_empty` show that what they conclude is
false without it.

**Fifo.** `TypeOK` alone is inductive, but the refinement is not provable from
it: the step of fill makes staged elements part of the content, and only
`StagedInPlace` says that the slots fill adds hold them. The observers' properties
follow from `TypeOK` in each state. `CFifoProofs` is about the functions: `Length`
in terms of the indices (`LengthCases`), which slot is written next
(`WriteIsNextSlot`), that slots in one turn are distinct (`SlotsDistinct`), what
moving one index does to the content (`ContentAdded`, `ContentRemoved`), then a
lemma per function. pushmem and popmem are treated as one segment to the end of
the buffer and one after it (`PushSegmentLemma`, `PushMemRecursion`,
`PushMemLemma`, and the same for pop). The remainder operator is kept out of
arithmetic by `ModWrap`, which replaces it by a case distinction.
`PeekMemCorrect` is about requests within the content, from any offset; what
peekmem returns beyond it is run `fifo_peekmem`.

**FifoPipe.** `RoundsBounded` gives the bound on the rounds: a round that does not
finish the call takes an index past the end of its buffer, and each of the two
passes that end at most once in a call.

**Stack.** `Local(t)` says, for each place a thread can be at, what it knows there
of `top` and of the element it holds. Lists are functions from a distance to an
element, and an element that is pushed, popped or recycled moves between the
places of `Partition`, which no two threads and no list share. The refinement
takes effect at the assignment to `top` under the lock. `ManagedPopReads` needs a
count: the elements the threads have pushed and not popped (`Accounts`) are as
many as those on the stack, so that a thread that is owed one finds one.

**Malloc.** `Tiles` says the blocks follow each other from the base to the end,
that no two holes are neighbours and which block is the tail. A lemma per branch
of the code (`TailServes`, `FromTail`, `FromBlock`, the merges of free) shows the
list after it tiled again, and how the set of regions changed.

**Map.** The central notion is `ListOf`: a finite increasing sequence of cells
whose pointers give it and whose ends are first and last. `Followed` shows that
following the pointers, as the code does, visits that sequence; `LinkLemma` and
`InsertElementLemma` that linking a cell gives the longer one; `CopyRound` is the
loop invariant of copy. `IsTable` then reads a list as a function from keys to
values, of which `OneTable` says there is one.

**Sort.** `Separated` says that elements no open range holds together are in
order, `Split` what the two sides of a partition in progress have in common with
the pivot, and `Permuted` that some bijection of the window leads from the input
to the array; each swap composes it with a transposition.

**Driver.** `Reading` (the line and the position in it) and `Untouched` (main has
not begun) hold of the parser; `MainTypes` of main's maps and lists; `Handles`: a
library is loaded as often as streams and mains hold it; `Held`: every record in a
map is alive and its library loaded; `Disposed` and `Destroyed`: which records
have been deleted, by whom; `Closed`: which handles main has closed at the end.
`RecordsUsable` is not inductive without `Handles`: a library stays loaded since
what holds it is counted, not since a record needs it. `MemoryOK` gives the blocks
allocated at each moment: those of every descriptor in conversion, of the stream
that is read, and the leftovers of the descriptors destroyed; `MemoryInvariance`
proves it from `Inv`.

**Array.** `DiskOK` says what `TypeOK` cannot: a text file is empty or exactly
what some array was stored as, its length and then its elements, and a binary file
the first units of that; `WritingOK` says of which array while a call stores it,
and `UnsavedOK` what waits in the buffers of stdio. The rest is what the two
loaders make of such a file. `BinaryLoadLemma` bounds the number of elements fread
returns by the room the loader made for them, for every offset and number, and
shows that they are the window asked for if an element is as wide as an int; it
rests on `ElementAt`, where the units of an element are, and on `RestOfFile`,
`DivMod` and `InBlock` about division by the width. `TextLoadLemma` needs only
that a number has one digit if and only if it is below the radix
(`NumDigitsLemma`), since the length is the one number whose digits count. An
empty file and the file of an empty array stay distinct in the mapping.

**Induction.** The library's induction theorems take an operator as a parameter,
which these provers do not instantiate. Where a proof needs an induction over an
interval (a list, a loop, a recursive function), `IntervalInduction` gives it:
a set of numbers that holds the first and with each the next holds them all, from
the well-foundedness of the naturals, with the set as its parameter.

**Model-checked only.** Liveness: `CallReturns`, `LockReleased`, `Terminates` and
`ConversionEnds`. `ReadsAsMeant`, which is about given
command lines and what each means; that the parser stays within the line and
keeps its types is part of `DriverTypeCorrect`.

## 5. What is not modelled

* Formatting and printing of fifo, stack, map and set (`string`, `printf`). Two
  loops that do not end, `map.c:251` and `set.c:248`, are listed as hazards. The
  string of an array is modelled, since its bound is an unsigned subtraction.
* Failure of malloc: the code mostly does not test it.
* Data races of debug builds (`stack.c:220` reads `top` outside the lock).
* The free functions of the fifo (`fifo.c:118`), whose bodies are swapped, and
  destroy and free of a stack by one thread when others have finished: the first
  has no next state worth modelling, the second no interleaving.
* `pelib_mergesort`, which is a stub, and `checkascending` of an array, which
  consists of assertions.
* Elements narrower than an int in a binary file: the window loader writes past
  the array it allocates (`array.c:283`), and there is no state after that.
* Element types other than int (their compare, copy and parse of one value),
  exceptions, C++ base classes (`Record`, parsers, outputs: virtual functions
  without state), time and monitoring, the templates' macros and the build: no
  state, or pure I/O.
* The shell script `pelib-scheduler`: it only runs pelib-convert and other tools.

Departures met in the modelling that have no run of their own. The models and the
properties named here state what the code does:

* `fifo.h:102` says that peekaddr writes nothing to its other parameters when it has
  no element; it writes 0 to num (`fifo.c:375`). `ReadWindowsCoverContent`: 0, and
  the pointer to the rest untouched.
* `fifo.h:106` says that writeaddr returns NULL when there is no room; its test ends
  in `|| 1` (`fifo.c:384`), and it returns the address of the first element.
  `WriteWindowsCoverFree`: the slot behind the content, with nothing to write.
* `map.h:85` says that a map with less elements is the lower; a map that is the
  beginning of another is the greater (`map.c:362`, `set.c:361`), and else the
  first pairs that differ decide, whatever the sizes. `ObserversAgree` of `Map`.
  `map.h:88` declares compare under a name that nothing defines.
* compare of maps, or sets, with equal contents reads through NULL (`map.c:370`,
  `set.c:369`); `ObserversAgree` of `Map` is about the others.
* `sort.h:55` calls end the index of the last element to sort; the sorts leave that
  element alone (`sort.c:115`). `Sorting` has windows that end before end.
* `array.h:97` says that compare of arrays returns 0 for equal elements and else -1
  or 1; it returns the difference of two ints (`array.c:600`, `integer.c:55`), and
  for equal elements that of what lies behind them. `ObserversAgree` of `Array` is
  about the sign, of arrays that differ.
* `array.h:65-69` calls the last parameter of the window loader the index of the
  last element; it is a number of elements, 0 for all that are left (`array.c:288`,
  `array.c:293`), and by `array.c:257` a length below 0 would be that. `Archive` has
  the number.
* `array.h:62` says that the capacity of a preloaded array is the number of elements;
  it is 0 (`array.c:248`). `TypeOK` of `Array`.
* string of an empty array runs over the whole address range (`array.c:317`).
* `argument_parsing.hpp:45` says that destroy frees all memory a stream points to; it
  does not free the strings in argv (`argument_parsing.cpp:50-68`, allocated at 92).
  `LeavesOnly` counts them among what is left.
* a comment says that a word that starts with a dash is no value of an option
  (`argument_parsing.cpp:72`); only a dash alone is refused. `ReadsAsMeant` on lines
  with `-f --stdin`: a file of that name.
* distance of two iterators ends only for neighbours (`iterator.c:187`), and the
  string of an iterator overwrites its last character (`iterator.c:81`).
* scripts end a list of arguments with `--` (`src/Makefile:317` and
  `pelib-scheduler` at 161 and 225), where the parser, as `argument_parsing.hpp:24`
  says, reads one word or a bracketed list.

## 6. Plan

Order: the fifo first, since everything that streams data goes through it and it
has the most cases; then the parts with clients in several threads or with
delicate pointer updates; then the driver and the files.

1. Done: `CFifo`, `Fifo`, `BoundedQueue` with proofs; `FifoPipe`; `Malloc` and
   `Allocator`; `Stack` and `ConcurrentStack`; `Map` with sets and `OrderedMap`;
   `Sort` in both variants and `Sorting`; `Array` and `Archive`; `Arguments`,
   `Driver` and `Conversion`.
2. Done: proofs of `Fifo`, `FifoPipe`, `Stack`, `Malloc`, `Map`, `Sort`, `Driver`
   and `Array`: the invariants, action properties and refinements their runs check,
   but for those listed at the end of section 4.
3. Not planned: a proof of `ReadsAsMeant`, which would need the phrases a line is
   made of in the model and not in its instance.
