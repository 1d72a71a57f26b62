# TLA+ models of AzurLaneDecTools

AzurLaneDecTools turns the encrypted Lua scripts of a game into files that a
LuaJIT decompiler reads. `uabdec` decrypts an asset bundle; `bcdec` loads a
bytecode dump in a mangled format with a modified LuaJIT and writes it back in
the usual one. This directory holds TLA+ models of the code, the TLC
configurations that check them on small instances, and proofs that TLAPS checks
for every value of their parameters.

## The system

| part | code | state | operations |
| --- | --- | --- | --- |
| asset decoder | `src/AssetDecoder.cpp` | position, cipher counter, output array | one pass over a buffer: wrapper, blocks, tail |
| block ciphers | the same file | a block of two words, a key, a round sum | XXTEA, TEA, XOR, XTEA, two rounds each |
| command line tools | `src/uabdec.cpp`, `src/bcdec.cpp`, `src/ByteCodeDec.cpp` | files | decode one file, or every file of a directory |
| dump input | `src/src/lj_bcread.c`, `lj_buf.c`, `lj_load.c`, `lj_lex.c` | reader's chunk, string buffer, window `ls->p`..`ls->pe`, end flag `ls->c` | need, want, fill, take |
| dump parser, dump writer | `lj_bcread.c`, `lj_bcwrite.c`, `compat.c` | Lua stack of prototypes, output buffer | read and write prototypes and constants |
| garbage collector | `lj_gc.c`, `lj_gc.h` | phase, colors, gray lists, finalizer list, sweep position | steps, full collection, barriers |
| closures and upvalues | `lj_func.c` | list of open upvalues per thread | find, close, join |
| string table | `lj_str.c` | hash chains | intern, resize |
| tables | `lj_tab.c` | array and hash part | get, set, rehash, next |
| states, stacks, errors | `lj_state.c`, `lj_err.c` | stacks | grow, shrink, unwind |
| allocator | `lj_alloc.c` | chunks and bins | allocate, free, reallocate |
| trace compiler | `lj_trace.c`, `lj_record.c`, `lj_opt_*.c`, `lj_asm*.c` | compiler state, current trace, trace array, patched bytecode, penalties | start, record, optimize, assemble, link, abort, flush |
| machine code | `lj_mcode.c` | areas, protection of the newest one | reserve, commit, abort, patch, free |
| interpreter | `vm_x86.dasc` | registers | bytecode instructions |
| parser, FFI, profiler, libraries | `lj_lex.c`, `lj_parse.c`, `lj_c*.c`, `lj_profile.c`, `lib_*.c` | | |

How the parts interact:

- The dump parser asks the input buffer for bytes (`bcread_need`, `bcread_want`)
  and takes them (`bcread_mem`); the buffer calls the reader of `lj_load.c` back,
  which delivers the file in chunks in one buffer that it overwrites each time.
  The parser decrypts string constants in place, in whichever buffer holds them.
- Every allocation may run a step of the collector, which may call finalizers,
  which may do anything a program does, a full collection included. The
  collector and the program share all objects; the program's obligation is the
  write barrier after a store in an object the collector may have finished with.
- `bcdec` calls `luaL_loadfile`, whose reader pushes a prototype or an error
  message, and `lua_dump`, whose writer appends to a buffer; nothing but the Lua stack
  and its absolute index 1 connects the two, and every file of a directory uses
  the same Lua state.
- The trace compiler is called by the interpreter between two instructions; between
  two recorded instructions the program and the collector run. Traces are named by
  their number: in patched bytecode, in the chains of prototypes and of root traces, in
  links, in exits of machine code and in frames that wait for a call. The collector
  sees some of these names only, and frees a number for reuse.
- Upvalues belong to two lists while they are open, and are freed, revived and
  closed by three different parts (collector, `lj_func.c`, `lj_state.c`).

What is hard here: the interleaving of collector and program; pointers kept
across calls that move the memory under them; unsigned arithmetic on lengths
taken from a file; the order of copies between two buffers. There are no threads
besides the profiler's timer, nothing is persisted, and no messages are lost.
`PROJECT.json` lists each such place under `hazards`, with the properties that
watch it.

What makes each part correct:

- decoder: a well-formed file is decoded completely, each byte by the cipher and
  block its position calls for; of the malformed ones only those whose trailer is -1 to -4
  give a result, with bytes of the trailer as payload, as the wrapper test is signed; every
  other ends in an assert or a failed allocation; it ends.
- input: what the parser sees depends on the file alone, not on chunks and
  buffers; a fill ends.
- collector: what can be reached is never freed; garbage is; finalizers run
  before their object is freed, and once.
- dump parser and writer: every dump is accepted, means what it was made from, and
  what `bcdec` writes is read back by unmodified LuaJIT as just that; a broken input
  yields no output, and never that of another file.
- string table: one string per content, in the chain its hash selects, through
  growth and sweep.
- tables: a key set is found, along any sequence of collisions, removals and
  rehashes; a traversal visits every key that stays.
- trace compiler: an abort at any instruction leaves the compiler idle, with
  patched bytecode restored and no area writable; a trace that may still run, or be
  linked to, is not freed; compilation of an instruction ends.

## The modules

| module | models |
| --- | --- |
| `AssetDecoder` | `DigitalSea_Scipio`, with a byte of output abstracted to the cipher and block that made it |
| `BlockCipher` | the arithmetic of the four ciphers against their encoders |
| `AssetDecoder_proofs` | theorems about the two: what the decoder returns, and that each cipher undoes its encoder, proved |
| `NumberFacts` | induction, least and greatest numbers, powers and division: lemmas the proofs share |
| `ByteStream` | what a parser of dumps relies on: the abstract specification of the input |
| `BcStream` | the input buffer that implements it |
| `BcStream_proofs` | invariant and refinement, proved |
| `LuaGC` | the collector, its barriers, closures and upvalues, and the program |
| `LuaGC_proofs` | its types, finalizers, colors and sweep, and that nothing reachable dies, proved |
| `LuaGC_debug` | the same with `lua_setupvalue` |
| `BcFormat` | the data of dumps: numbers of variable length, constants, their bytes |
| `BcRead` | the reader of mangled dumps, with its ciphers and its window |
| `BcWrite` | the writer of plain dumps, and the reader of unmodified LuaJIT |
| `BcDec` | the tool: files, the Lua stack, load, dump and save, composed of the two |
| `BcDec_proofs` | that dumps are accepted, and loaded as what they were made from, proved |
| `BcTool_proofs` | that unmodified LuaJIT reads back what the tool wrote, and the types of `BcDec`, proved |
| `TableMap` | what a table promises: the abstract specification |
| `LuaTab` | the table of `lj_tab.c` that implements it |
| `LuaTab_proofs` | its chains, its length, and that it is a map, proved |
| `MCode` | areas of machine code and the transactions on them |
| `Trace` | the control of the trace compiler, which uses `MCode` |
| `Trace_proofs` | its types, that machine code is protected, that it is clean when idle and uses transactions, that patched bytecode is compiled, and that no trace in use is collected, proved |
| `MC_*` | the instances for TLC |

### AssetDecoder

`pc` is the place in the function: `start` (lines 150-207), `wrapper` (208-262),
`block` (264-679), `tail` (680-696); `abort`, `crash` and `undefined` are a
failed assert, the null pointer of a failed `malloc`, and an allocation whose
length wrapped. `offset` is `v45`, `mode` is `v177`/`v47`, `copied` is `v21`.
`Wrap` reduces lengths modulo `Word` (2^32 in the code), and `wrapper_size` is
read as signed where the code does. One `DecodeBlock` is one turn of the block
loop with its eight reads, its cipher and its eight writes.

`FileAssumption` and `HeapAssumption` say that the process is a 32-bit one: the
input is in memory, and `malloc` serves less than half of the address space.

### BlockCipher

A behavior takes an encrypted block through the rounds of its cipher; `plain` is
history. The encoders are the published ones with two rounds. Exclusive or is the
parameter `BitXor`, of which `XorAssumption` says the little that the ciphers rely on;
`MC_BlockCipher` gives it the operator of `Bitwise`. `cipher` and `position` are the `mode` and `offset`
that `AssetDecoder` has at the block; they have names of their own so that one module can speak of both.

### ByteStream and BcStream

`BcStream` keeps the two buffers apart as the code does: `chunk` is
`FileReaderCtx.buf`, `mem`, `size`, `sblen` are the string buffer with its
capacity and length, and `place` says which of them `p` and `pe` point into;
`gen` changes with every reallocation, so a pointer into freed memory can be told
from a live one. `Request` is `bcread_need` or `bcread_want` up to the decision
to fill; a turn of the loop in `bcread_fill_mod` is `MoveRemainder` followed by
`Refill` or `EndOfFile`. `Take` is `bcread_mem`, with the in-place decryption that
may follow. The parser is any sequence of requests, and takes no more than it was
granted; that the real parser keeps to that is checked in `BcDec`.

`ByteStream` is the same interface with a position in a file only. Its requests are visible:
`len` bytes, needed or wanted. A request is answered at once or in a later step (`Answer`),
and there is one answer to each (`Outcome`): the bytes if the file has them; otherwise what is
left of it, or an error if they are needed, if a request was cut short before, or if `len` is
more than any buffer holds. The refinement mapping keeps `len` and `need`, takes a fill for a request without an
answer, and computes the position as what the reader delivered less what the window
still holds.

### LuaGC

Cells have a fixed kind and are free or in use; the contents of an object are the
set of objects it refers to. `color` is `gch.marked`: `gray` is neither white nor
black. Traversal order is left open: any gray object may be next, any unswept
object may be swept next, one object per step (the code sweeps whole chains, or
40 objects). The order of userdata is kept (`ahead`), because finalizers run in
it.

| action | code |
| --- | --- |
| `MarkStart`, `Propagate`, `EndPropagate` | `gc_mark_start`, `propagatemark`, and the change of state in `gc_onestep` |
| `Atomic` | `atomic`: open upvalues, leftovers, weak and twice-gray objects, userdata set apart and marked, weak tables cleared, white flipped |
| `SweepString`, `Sweep` | `gc_sweep` on a string and on any other object, with the open upvalues of a thread, and `lj_state_free` |
| `Finalize` | `gc_finalize`, up to the call of the finalizer |
| `FullGC` | `lj_gc_fullgc`, from every phase; `full` remembers how far it is |
| `New`, `Intern`, `NewClosure` | `lj_mem_newgco` and its callers, `lj_str_new`, `lj_func_newL_gc` with `func_finduv` |
| `Load`, `Give` | any read into a stack slot, `lua_xmove` |
| `StoreTable`, `ClearField`, `StoreObject`, `StoreUpvalue`, `JoinUpvalue` | stores with their barriers |
| `CloseUpvalues` | `lj_func_closeuv` with `lj_gc_closeuv` |

The program is every sequence of these operations on objects that it holds; this
is also what a finalizer does. Finalizers take effect between steps: the code
calls one inside `gc_onestep`, where a nested step may begin, and the model makes
the remainder of that step empty, as it is but for the arithmetic of thresholds.

### BcFormat, BcRead, BcWrite and BcDec

A dump is a sequence of bytes, and every item of it is read where the code reads it.
Bytes have `2 * Half` values and words `Word`, so that numbers of one, two and three
bytes, doubles with two words, and the overflow of a word all occur with small
numbers. Both are given by bits: `DigitBits` is 7 and `WordBits` 32 in the code. `Number`,
`BitXor`, the permutation of opcodes and the magics are parameters with assumptions on them.

A member of `Dumps` is a record: the bytes of a file (`Mangled` of the record), the flags, name
and debug information of its header, its prototypes in the order of the file, and after each
of these the prototypes that wait for a parent (`orphans`). `DumpAssumption` says what such
a record is: numbers fit their fields, children come before their parents, one prototype
is left in the end.

`BcRead` has one action per part of `lj_bcread_mod` that may fail or that changes the
Lua stack: header, name, length of a prototype, header of a prototype, its body, end.
`window` tells how far `ls->pe` reaches beyond what was asked for (a whole number of
chunks, by `BcStream`): a number decoded from beyond it is memory that is not of the
file, and `at = "wild"` then. `OpenIns`, `OpenStr` and the exclusive ors on header
fields are the ciphers; `ByteSwap` is `_byteswap_ulong` as it is built.

`BcWrite` has `bcwrite_proto` with its recursion as a stack of `frames`; template
tables may be written in any order of their fields. `StockRead` is `lj_bcread` of
unmodified LuaJIT, which is still in the source, as a function of bytes: it is what a
decompiler runs on the output.

`BcDec` is `bcdec.cpp` and `ByteCodeDec.cpp`: `Open`, `Read`, `Return` are
`luaL_loadfile` with its chunk name on the stack; reading may fail at any point of a file in
`failing`, which `Return` finds out (`ferror`) after the parser has had what was delivered,
and it puts a message in place of whatever that made; `CheckFunction` is where the ignored
status surfaces; `Save` writes the output, `Settop` clears the stack. The iterator of a
directory returns files in any order, and may or may not return one that was made
meanwhile. `Mangled` is external: it is the inverse of what the reader does, since
whoever makes these dumps is not part of the repository. What a text compiles to is one of
`Sources`.

### TableMap and LuaTab

`t` is `GCtab`: `array`, `node` with key, value and `next`, and `free` for `freetop`.
`Put` is `lj_tab_set` with `lj_tab_newkey`: main node taken, collision, the node moved by
Brent's variation, `Rechained`, and a rehash when there is no free node; `Unset` stores
nil; `Grow` is `lj_tab_reasize`; `OutOfMemory` is `lj_tab_resize` failing at either
allocation; `Begin` and `NextKey` are a traversal by `lj_tab_next`; `FreeString` is the
collector's sweep of a string that only dead nodes name, after which another string may be
made at its address. `TableMap` is a set of fields and the keys a traversal has visited.

### MCode and Trace

`mc.prot` has the protection of every area, the newest one last; `cached` is
`J->mcprot`, `room` what is left between `mcbot` and `mctop`. `open` is the time between
`lj_mcode_reserve` and the commit or abort.

`Trace` has the instructions at which a trace may start or to which an exit leads
(`world.kind`), not the program around them. `jit` is `jit_State`: `state`, `parent`,
`exitno`, the pending patch (`patchpc`, `patchins`), `bcskip` (`skip`). `slot` is
`J->trace`, `cur` is `J->cur`; `frames` are the traces named by frames of `cont_stitch`.

| action | code |
| --- | --- |
| `Hot`, `HotExit`, `Call`, `Return`, `Unwind` | `lj_trace_hot`, `lj_trace_exit` with `trace_hotside`, the call behind a stitched trace, `cont_stitch` with `lj_trace_stitch` |
| `StartOff`, `StartFull`, `StartTrace` | `trace_start`: compiler off for the prototype, no number, or `lj_record_setup` |
| `RecordOn`, `RecordError`, `RecordStop` | an instruction is recorded (`trace_pendpatch` first), fails, or ends the trace |
| `RecordInto`, `RecordUnroll`, `RecordDownrec` | `rec_func_jit`, the flush in `check_call_unroll`, down-recursion |
| `End` | the optimizer, which may go back to recording |
| `Reserve`, `Overrun`, `AsmError`, `Stop` | `lj_asm_trace` up to its failure, and `trace_stop` with `trace_save` |
| `Reassemble`, `Abort` | `trace_abort`, with penalty, blacklisting, restart and flush |
| `AsyncAbort` | `lj_trace_abort` by a hook or a finalizer |
| `FlushAll`, `FlushTrace`, `FlushProto`, `Reenable` | `jit.flush`, `jit.off` and `jit.on` |
| `GCStart` to `GCEnd`, `FreeTrace` | the collector, restricted to traces |

The recorder may end in every outcome its code has, whatever the program. The size of
the code is chosen anew at each assembly. A trace has one exit. In the worlds checked,
`flushInCalls` is false; `Trace_calls.cfg` sets it.

## The checks

`tlc -config X.cfg M` in this directory, each with two workers.

| run | module, configuration | question | states |
| --- | --- | --- | --- |
| `asset_decoder` | `MC_AssetDecoder`, `AssetDecoder.cfg` | is every file decoded right, or not at all? | 53362 |
| `block_cipher` | `MC_BlockCipher`, `BlockCipher.cfg` | does each cipher undo its encoder? | 90112 |
| `bc_stream` | `MC_BcStream`, `BcStream.cfg` | does the buffer behave like a stream? | 183915 |
| `gc_heap` | `MC_LuaGC`, `LuaGC_heap.cfg` | tables, weak tables, finalizers | 434996 |
| `gc_closures` | `MC_LuaGC`, `LuaGC_closures.cfg` | a coroutine, two closures, a shared upvalue | 446290 |
| `gc_garbage` | `MC_LuaGC_garbage`, `LuaGC_garbage.cfg` | is garbage freed? | 169932 |
| `bc_dec` | `MC_BcDec`, `BcDec.cfg` | does `bcdec` write what it read? | 33300 |
| `lua_tab` | `MC_LuaTab`, `LuaTab.cfg` | is a table a map? | 58646 |
| `trace` | `MC_Trace`, `Trace.cfg` | are traces kept, and the compiler left clean? | 643252 |
| `bc_swap` | `MC_BcDec`, `BcDec_swap.cfg` | big-endian dumps | violated |
| `lua_tab_reuse` | `MC_LuaTab`, `LuaTab_reuse.cfg` | strings made at one address | violated |
| `gc_debug` | `MC_LuaGC_debug`, `LuaGC_debug.cfg` | `lua_setupvalue` | violated |

Two more configurations take what the passing runs leave out, and are violated too. They are not
among the runs of `PROJECT.json`:

| module, configuration | property | question |
| --- | --- | --- |
| `MC_LuaTab`, `LuaTab_memory.cfg` | `Chained` | tables whose nodes cannot be allocated |
| `MC_Trace`, `Trace_calls.cfg` | `InUseIsKept` | a trace flushed during the call it waits for |

### Bounds

- `asset_decoder`: `Word` 128 with files of up to 55 bytes. 55 bytes hold six blocks and a
  tail, so every cipher and the return to the first occur; every residue of the
  length modulo 8, every wrapper size up to the file's, and every malformed trailer
  (larger than the file, negative) are among the inputs. Since twice `Heap` is less
  than `Word`, a wrapped length cannot be mistaken for a real one, as in the code.
- `block_cipher`: words of six bits; all pairs of words at two offsets. The identities are those of
  addition and exclusive or, which hold at any width; the key and the sum keep their
  values modulo the width.
- `bc_stream`: a file of six bytes, chunks of one to three bytes, requests of 1, 2, 4
  and 9. A request may be shorter and longer than a chunk, than the string buffer
  (which starts at one byte, so that it is reallocated more than once), and than the
  file.
- `gc_*`: one or two cells of each kind, in the combinations a hazard needs; `Depth` stack
  slots; `MaxRefs` bounds what a table holds. One cell is enough for an object
  to be freed and made again, and two whites and every phase occur. A run without
  userdata or strings leaves their actions disabled; between them the
  runs take every action.
- `bc_dec`: bytes of four bits, words of eight. Prototypes with every kind of constant but
  cdata, with children between other constants and with children of children; each dump
  whole, followed by a byte, and cut off after every byte; dumps with a prototype or a
  child too many, texts, plain dumps, and a file that cannot be opened. Chunks of 4 and
  7 bytes put the end of a chunk inside most items, one of 200 holds any file. Directories
  have two files, whose outputs may have one name, and may be written where the
  inputs are. Reading fails in a dump, in a part of one, in a text, and in one of two files.
- `lua_tab`: three worlds with two to four nodes and up to five keys: strings that
  collide and whose nodes move, integers that change between the parts, and two strings that
  may have one address. Chains of three nodes, rehashes that grow and shrink either part, and
  failing allocations occur.
- `trace`: programs of one or two instructions (a numeric loop; a loop and a call; a recursive
  function and a return), two or three trace numbers and two areas of machine code. Numbers run
  out and are reused, areas are exhausted with and without a new one to be had, a stitched
  trace waits for its call while its successors come and go, and the collector may be in
  any phase at any of it.

### What the runs show

`asset_decoder`: the array returned is `Layout` of its length (`ReturnsLayout`); no
assert fails on a well-formed file (`WellFormedNeverAborts`); no file gives a result whose trailer
is more than the file holds, less than -4, or leaves a payload of fewer than eight bytes,
for which the subtraction of eight wraps (`MalformedNeverReturns`);
the function ends (`Terminates`). That no byte is written
twice (`WrittenOnce`) is proved, and not among the properties of a run.

`bc_stream`: the window lies in live memory (`WindowLive`) and holds the file's bytes
(`WindowIsFile`); the parser cannot tell the reader from a stream (`ReadsStream`): it gets the same
bytes, and of the requests that go beyond the end of the file those that are wanted for the first
time and fit a buffer are cut short, while all others are errors; a fill ends (`FillEnds`).

`gc_heap`, `gc_closures`: nothing reachable is freed or condemned
(`ReachableIsKept`); no black object refers to a white one during marking (`TriColor`),
apart from userdata left from an earlier cycle, which `Atomic` marks again; a cycle
leaves the current white only (`SweptClean`); a finalizer runs before its object is
freed (`FinalizedFirst`) and once (`FinalizedOnce`).

`gc_garbage`: garbage is freed (`GarbageIsFreed`).

`bc_dec`: a dump is read to its end however the chunks cut it (`DumpsAreAccepted`), and gives
the prototype it was made from (`LoadedIsDumped`). A file of the output directory is complete
and is, for unmodified LuaJIT, what one input of its name stands for (`OutputsReadBack`): nothing
comes of a dump that was cut short, and nothing of one file gets into another's
output. A directory of dumps with distinct names is decoded completely (`AllDecoded`);
one bad file ends the process, and what follows is not decoded.

`lua_tab`: a live key is in the chain its hash selects, and in one place only (`Chained`);
the search for a predecessor and a rehash never fail (`NoFault`); the length is a border
(`LengthIsBorder`); a hash part is not rebuilt while it has nodes that never had a key
(`RehashWhenFull`); the table implements the map, traversals under modification
included (`IsAMap`); what was stored under a key is found there, and no other field changes
(`StoresAreFound`: the map leaves open which field an assignment is for); a traversal ends
(`TraversalEnds`).

`trace`: bytecode runs only traces compiled for it, a loop and its `FORI` are
patched together, and an instruction unpatched for recording will be patched again
(`PatchedIsCompiled`); what may run, is chained, waits for a call or is about to be changed
by the compiler is kept by the collector, with its machine code (`InUseIsKept`); between
traces nothing of the last one is left (`IdleIsClean`); the compiler implements the
transactions of `MCode` (`TransactsCode`); a call of the compiler returns, through
reassembly, restarts and aborts (`AsmEnds`).

### Disagreements

- `gc_debug`. `lua_setupvalue` (`lj_api.c:1087`), and so `debug.setupvalue`, applies the
  barrier of the closure to a store in an upvalue. If the upvalue is shared
  and already black while this closure is white or gray, the value stays
  white, and is freed although another closure refers to it. The passing runs
  leave `lua_setupvalue` out; the store that bytecode makes (`StoreUpvalue`) tests
  the upvalue itself, and is in them.
- `bc_swap`. Instructions of a dump with the big-endian flag pass through
  `_byteswap_ulong`, which swaps 64 bits and keeps the half that holds none of the 32 given.
  Every such instruction becomes the one that zero deciphers to. `bc_dec` has no dumps
  with that flag.
- `lua_tab_reuse`. When a node is moved to its own chain, string keys behind it whose hash
  leads to the old place are rechained, number keys are not. A node whose string died and was
  replaced by another at the same address stands in a foreign chain; a number behind it is
  lost when it moves. `lua_tab` has such strings, but no numbers behind them.
- `LuaTab_memory.cfg`. When a table grows in both parts and the second allocation of
  `lj_tab_resize` fails (`newhpart`, `lj_tab.c:277`), the array has already grown
  (`lj_tab.c:270`), and integers in the old nodes are hidden by its empty slots: they read as
  nil. In the world `Mixed` of the passing run only the array may be what cannot be allocated; its
  variant `MixedOutOfMemory` lets the nodes fail too.
- `Trace_calls.cfg`. A program may flush one trace, or the traces of one prototype, during the
  call that a stitched trace waits for. The waiting trace is then unlinked, and only its
  frame names it. Once the call has returned and a new trace is being recorded, only
  `J->exitno` does, which the collector does not look at (TLC gets there in 12 steps); if it frees the trace before
  recording ends, `traceref(J, J->exitno)` in `trace_stop` (`lj_trace.c:515`) or `trace_abort`
  (`lj_trace.c:579`) is null and is written through. The worlds of `trace` have `flushInCalls`
  false; flushing everything is harmless and is in that run.

The tools of this repository never execute the Lua code they read: of these they can meet
`bc_swap` only.

Not a run, since it does no harm: `lj_gc_barrierf` asserts that the phase is neither
`GCSfinalize` nor `GCSpause` (`lj_gc.c:759`), but userdata that wait for their finalizers are
black in the first, and a finalizer that gives another one a metatable enters the barrier
there. Without assertions the branch taken is the right one: `gc_heap` has such programs.

### Fairness

- `AssetDecoder`: a sequential function keeps running: `WF_vars(Next)`.
- `BcStream`: a fill runs to its end without returning to the parser: `WF_vars(Fill)`.
  Nothing is assumed of the parser.
- `LuaGC`: a program that keeps allocating passes the threshold again and again, and
  `lj_gc_step` then takes at least one step: `WF_vars(Collect)`. Nothing is assumed of
  the program's other operations, which may come between any two steps. The collector
  always has a step to take, so weak fairness says that it steps for ever;
  `MC_LuaGC_garbage` states exactly that with a bit that flips at every step,
  because TLC evaluates it much faster than whether `Collect` is enabled.
  A program that stops allocating never collects: nothing is claimed for it.
- `BcDec`: one process runs on until it is done, fails, or runs into memory that is not the
  file's. The specification says so with `<>[]~Stopped` in place of the test whether
  `Next` is enabled, for the same reason.
- `LuaTab`: a program that traverses a table calls `next` until it returns nil:
  `WF_vars(NextKey)`.
- `Trace`: a call of the compiler (`trace_state`) runs on until it returns to the program:
  `WF_vars(Compile)`. `MC_Trace` has it as `GoesOn`: every step of `Compile` changes the state of
  the compiler or whether code is reserved, so it takes steps if these do not stay; TLC
  evaluates this much faster. Nothing is assumed of the program and the collector; a recording may go
  on for ever in the model, as the limits on its length are abstracted, and
  `AsmEnds` does not speak of it.

## The proofs

`tlapm M.tla` for each of the seven modules below, and for `NumberFacts`, whose lemmas they share
(`Induction` over a set of numbers, which the well-foundedness of the naturals gives, least and
greatest numbers, powers of two, division).

`AssetDecoder_proofs`. The inductive invariant says, beside types: in the block stage
the offset is a multiple of eight, the mode is the number of blocks done modulo four,
the positions below the offset hold their layout and the others are still zero;
in the tail the offset lies between the ciphered part and the end. It is needed
because the layout is a statement about the final array alone. From it follow
`TypeCorrect`, `ReturnedArrayIsLayout`, `WellFormedFilesDecode` and
`MalformedFilesNeverReturn`, and the action property `NoByteTwice` (what is not zero lies
below the offset, and no step writes there), for every modulus that is a multiple of eight and at
least 64, every heap smaller than half of it, and all files and trailers
(`WordAssumption`, `HeapAssumption`, `FileAssumption`).

Of the ciphers, in the same module: the invariant `RoundsLeft` says which round of its encoder the block in work
has come back to: the sum tells. `Feistel` halves undo each other whatever they mix
in, as long as it is a word (`HalvesUndone`, `SubUndoesAdd`); for XXTEA and XTEA, that the indexes
of the key agree on both ways is in `XXTEAKeys` and `XTEAKeys`. `CiphersRecover` holds for
all widths, blocks and offsets.

`BcStream_proofs`. The invariant `IInv` adds to the types where the window lies
(`Place`), that a window in the string buffer ends where that buffer ends, that between
the halves of a turn the remainder is at the front of the buffer (`HalfTurn`), that
inside a fill the window is too short (`Filling`), and that the end was seen only after the
last byte (`AtEnd`). `WindowIsFile` alone is not inductive: a refill appends at
`sblen`, and only `HalfTurn` says that this is where the remainder ends. The
theorems are `TypeCorrect`, `PointersStayLive`, `WindowHoldsTheFile`, and
`ReadsTheStream`, the refinement: initial states map to initial states, and each step
maps to a step of `ByteStream` or to a stutter. They assume that the file is not
empty and no longer than the largest buffer.

`LuaGC_proofs`. `IInv` is made of the types, of what a slot, a reference and an open
upvalue may be, and of `DueUserdata`: when the sweep is under way, condemned userdata is
finalized and waits no more. It is needed because the sweep looks at colors, not at
`finalized`. The theorems are `TypeCorrect`, `FreedAfterFinalizer` and `CalledOnce`.

`ReachableIsKept` cannot be proved from itself, for a step changes
both what is reachable and what is condemned. `SInv` has no reachability in it:

- `SafeClosed`: an object is safe if it is neither free nor dead. The main thread and
  the userdata waiting for finalizers are safe, and safe objects refer to safe objects
  only. What the program holds is then safe (`HeldIsSafe`, `VisibleIsSafe`), so all its
  stores keep this. That `Reachable` is safe follows, being the least closed set.
- The atomic step is where objects become dead, all that are white after it. It keeps
  `SafeClosed` because of `TriColor`, `GraysListed` (what is gray is on a list, and will be
  traversed), `MainMarked`, and `KindColors` (threads are never black, so their stacks
  need no barrier).
- `TriColor` rests on the barriers (`ForwardSInv`, `BackSInv`), on `OpenUpvalues` (an open
  upvalue is never black) and, when one is closed, on `CloseUpvaluesSInv`.
- `SweepCovers` and `SweepListed`: what is not of the current white is still to be swept,
  on its own or with its thread. Hence `SweptClean`, and hence nothing is dead when
  marking begins again (`NoneDead`).

There is one lemma per action; `SafetyInductive` combines them, and `NothingReachableDies`,
`ColorsKept` and `NoneMissed` follow, for any number of cells, any stacks and any
`MaxRefs`. The assumptions are that the kinds are disjoint and that there is a main
thread (`KindAssumption`, `ThreadAssumption`, `DepthAssumption`). TLC checked `RInv`, the
whole invariant, on the instances of `gc_heap` and `gc_closures`.

`Trace_proofs`. Of `MCode`: `NoneWritable` is not inductive: whether `mcode_protect` does anything depends
on the cache, so `CodeInv` says that the cache is right (`CachedIsNewest`), that all areas
but the newest run (`OlderRun`), that the newest does outside a transaction (`NewestRuns`),
and that there is an area in one (`OpenHasArea`). `CodeIsProtected` holds for any size
(`AreaAssumption`), and also when one older area is patched in the transaction.

`TraceInv` adds to `CodeInv` when machine code is reserved (`OpenInAsm`) and
when no number is taken and nothing waits to be patched (`BeforeStart`, `NoneWaits`; the
latter is needed because a reassembly enters the assembler a second time, past the
forced `trace_pendpatch`). `UsesTransactions` is the refinement of `MCode`: every step is one of
its transactions or leaves its variables alone (`Transaction`); `CodeInv` is then kept by the
lemma about `MCode`, and `IdleStaysClean` follows. Both hold for every program, number of
traces and number of areas (`WorldAssumption`, `AreaAssumption`).

`InUseIsKept` says of a trace that bytecode, a frame or the compiler
names that the collector has not freed it. It is not inductive: that a jump's trace lives
follows from its prototype's chain, which flushes, side exits and the sweep all change.
`SafeInv` adds to the types:

- `Heap`: the traces that are not condemned are closed under their links; a chain of root
  traces is acyclic and belongs to one prototype; a side trace is in the chain of its root.
  Without acyclicity `trace_unlink` could leave the trace it removes reachable.
- `CodeRuns`: bytecode jumps to a trace that is in the chain of the prototype it lies in and
  was compiled for this very instruction. `PatchedIsCompiled` and the liveness of the
  target both follow. The patch that is still pending is subject to the same.
- `Waiting`: a trace that a frame names can be reached from a prototype. This is
  what `~world.flushInCalls` is needed for, and the theorems have it as a hypothesis: the
  code without it is described under Disagreements.
- `Compiler`: the parent of the trace under way, and the one it is stitched to, are anchored
  (`Anchored`): kept, with their root, and in its chain; what holds when a
  recording starts, is retried, or starts again after down-recursion. While
  the collector may still take its atomic step, the parent must be reachable from a prototype
  (`Early`): nothing marks it for the compiler's sake. Once assembling starts the collector
  rests until the trace is done, and it is enough that the parent is kept: an error may
  unpatch or flush its root.
- `Collector`: nothing is black outside the marking phase, nothing condemned outside the
  sweep. While marking, what a black trace refers to is in `Covered`: marked, or reached from
  what is marked along the chain of traces that no prototype has any more. A plain
  tricolor invariant fails here: unlinking a trace makes a black one point past it,
  without a barrier.

Each part has one lemma for a step (`HeapStep`, `CodeRunsStep`, `WaitingStep`, `InAreasStep`,
`CompilerStep`, `CollectorStep`), and under them one lemma per action. Reachability is a least
closed set (`Reach`), so that no induction is needed; `Acyclic` of a changed chain follows from
a few facts about it. Where a least number is needed, well-foundedness of the naturals
(`NatMin`) gives it. `StatesAreKnown`, `PatchedStaysCompiled` and `InUseStaysKept` follow, for
all programs, numbers of traces and areas (`WorldAssumption`, `NilAssumption`,
`AreaAssumption`). TLC checked `SafeInv` on the worlds of `trace` first, which is how
`Covered` and `Early` were found.

`LuaTab_proofs`. The invariant has two parts.

- `Base` holds for every program, and gives `TypesKept` and `RebuiltWhenFull`: next pointers
  stay in the hash part, its chains neither run in circles nor merge (`Acyclic`, `Apart`), nodes
  from the top of the free ones on have a key (`Filled`), and the keys with a value are
  strings that exist (`LiveNamed`).
- `Sound` holds in programs with two properties, the hypotheses of the theorems that need it.
  `OwnAddresses`: no address is ever that of two strings; without it the hash of
  a dead key may change under its chain, which is what `lua_tab_reuse` shows. `Steady`: no
  allocation of nodes fails while integers are among the keys; see Disagreements. `Placed` then
  says of every node with a key, dead or live, that it is in the chain of its main node, and
  that whatever stands there is at home. `Chained` speaks of live keys only and is not
  kept by itself: `lj_tab_newkey` looks for the node before the one it moves in the chain
  of that node's main node, and a dead key may stand in between.

A chain is a least closed set of nodes (`Hull`), like `Reach` in the trace proofs. Brent's
variation is then a change of such sets (`InsertKeeps`, `MoveKeeps`, `ReweaveKeeps`), and needs no
induction over a chain. Where a loop must be followed, in a rehash one old slot after another,
the set of numbers for which a fact holds is all of them by `Induction`, which
comes from the well-foundedness of the naturals and takes a set, not an operator. `Room` and
`RehashRoom` are the count behind `NothingFails`: a rehash makes at least as many nodes as
there are keys to insert, so the insertions never find the new part full.

`LengthsAreBorders` follows the two loops. The doubling ends, since a table has finitely
many keys (`DoublesEnd`); each halving keeps a field at the lower end and none at
the upper one, and shortens the interval (`HalvedIs`).

`TablesAreMaps` is the refinement. `Mapped` adds that what is stored under a key is its own value
(`Mirrored`), that a string is at one address (`Distinct`), and during a traversal that, of the
fields that still exist, `seen` has those at slots before the next one (`Walked`). The fields are then the names of the
keys that are present (`FieldsAre`); each action changes them as `TableMap` has it (`AssignMaps`, `GrowMaps`,
`OutOfMemoryMaps`, `ClearMaps`, `FreeStringMaps`, `BeginMaps`, `NextKeyMaps`). `StoresAreKept` follows from
the same invariant.

All of it holds for every set of keys, hash function, place and size (`WorldAssumption`,
`KeyAssumption`). TLC checked `Mapped` and `FieldsAre` on the worlds of `lua_tab` first. That run has
`OwnAddresses` in two of its three worlds and `Steady` in all; the third has strings at one
address and no numbers behind them, where the map is only model-checked.

`BcDec_proofs`. The parser keeps almost nothing of what it read: a position, the prototype under
way, and a stack. `Inv` ties these to the dump whose bytes are in memory:

- before its first prototype, between two, inside one, and at its end (`HeaderPart`, `BetweenPart`,
  `WithinPart`, `EndPart`), the position is where the dump has that part, and the window has the
  bytes that the next request grants (`DeliveredFits`, `RequestFits`), so nothing is
  decoded from beyond the file;
- the Lua stack above its first slot holds the `orphans` of the dump at that prototype, on which
  children are found; and inside a prototype, what is still to be read of its
  constants is what the dump has there (`ConstantPlaces`).

`LoadedIsDumped` alone says nothing of a load under way. Under it are lemmas that each reader
finds what its writer wrote, wherever in a file that is (`Here`): numbers of variable
length (`UlebRead`, `Uleb33Read`), numbers as constants (`KNumRead`), template tables in whatever order of
their fields (`KTabRead`), constants (`ConstantRead`), prototypes and dumps (`ProtoRead`, `DumpRead`). Where
an item is a sequence of smaller ones, `Flattened` and `ListIs` take care of it once.

`EveryDumpAccepted` holds for all dumps, directories and chunks; `PlainDumpsAreLoaded` says of
every dump in the order of the machine what `LoadedIsDumped` says of all, and `EveryDumpLoaded` is
`LoadedIsDumped` for dumps of which none is in the other order. That hypothesis is necessary:
`bc_swap` violates `LoadedIsDumped` with such a dump. The assumptions are `NumberAssumption`,
`MagicAssumption`, `XorAssumption`, `CipherAssumption`, `DumpAssumption` and `ChunkAssumption`, all of which
TLC evaluates in `bc_dec`.

`BcTool_proofs`. `EveryOutputReadsBack` follows a file through the tool: loaded, checked, written and saved.
`OutputsReadBack` says what unmodified LuaJIT makes of a finished output; the invariants speak of one
that is half written, and of the recursion of `bcwrite_proto`, which the model keeps as the stack
`frames`:

- `Led`: a file that begins with what is in the writer's buffer, whatever follows, brings that reader after some
  number of rounds to the end of it, with certain prototypes on its stack. One round more for each prototype
  written (`LedGrows`, `RoundRead`) is all that has to be shown, and the end mark after the last one ends the
  rounds (`LedEnds`).
- `Layout`: which prototypes those are. The children that a call under way has written lie on the
  reader's stack in one piece, those of an outer call below those of an inner one, and each piece has the
  children of its prototype in the order in which the reader will take them, the last one
  first (`Laid`): constants are visited from the last to the first by the writer, and children
  are popped while constants are read from the first to the last. When a
  call is done its piece is replaced by its prototype (`Adopted`).
- `ToolInv`: what was loaded is what the current file stands for (from `Inv`, or because the file is a
  text), what is being written is what was loaded, every output reads back, and a file of the
  directory is as it was given or is a plain dump, which the tool refuses (`Foreign`). The latter is
  needed because outputs may take the place of inputs that are still to come.

The theorem is about any set of prototypes `P`, closed under children, with these hypotheses:
the writer loses nothing of them (`Writable`: no flag but those that are written, a flag for children where
there are some, and a length that fits a word); dumps and texts hold prototypes of `P`, and no dump is in the other byte
order; and every file is a dump as it was made, a text, a file of another kind, or one that cannot be
opened (`Whole`). All the prototypes and dumps of `bc_dec` and 49 of its 500 directories meet them,
those with two files and the one that is written in place among them, as TLC found; the others hold a
dump that was cut short, goes on after its end or begins like one, of which the run alone speaks. `StockAssumption`
says that plain dumps begin as those of LuaJIT do, and not as mangled ones.

`TypeCorrect` of the same module is `TypeOK` under the same hypotheses and one more, that the files of
the directories consist of bytes. It needs them because what is written consists of bytes only while the length of
a prototype fits a word (the code's memory limit sees to that, and the model leaves it out), and because the window stays in the
file as long as what is read is known: `Typed` adds to `Inv` and `ToolInv` that the reader was entered with one
value on the stack, that the writer's outermost frame is that of the root, and that outputs are files of bytes.

Only model-checked: of `BcDec`, `OutputsReadBack` and `TypeOK` for files that were cut short or go on after
their end; the violations; and every
liveness property (`Terminates`, `FillEnds`, `GarbageIsFreed`, `AllDecoded`, `TraversalEnds`, `AsmEnds`). Liveness under
fairness, and whether an action is enabled, are out of the prover's reach; so is induction over
nested data, as only numbers have `Induction` (children of children are reached through `P`, which
is closed under them).

## The plan

Done: the decoder, the input buffer with its abstract specification, the dump parser, the
writer and `bcdec` around them, the collector, tables against a map, and the control of the
trace compiler with its machine code; proofs of every safety property of the decoder, the
ciphers, the buffer, the collector, tables and the trace compiler, of the parser of dumps, and of what
`bcdec` writes.

What remains, in this order:

1. `OutputsReadBack` for files that were cut short: that the reader refuses them or has read to
   the end of the dump.
2. The string table (growth, shrinking and sweeping against a set of strings), and the sorted
   list of open upvalues against a map from slots to upvalues.
3. Threshold, debt and estimate of `lj_gc_step`; the profiler's timer against the hook state.

## Not modelled, and why

- The interpreter, the recorder, the optimizer and the assembler work on programs:
  their inputs are unbounded and their correctness is that of a compiler. `Trace` has what they
  do to the compiler's control, and nothing of the code they make. Three quarters of the source
  lines are theirs, or belong to the build tools, to other processors, and to the libraries:
  the part of the source that the models stand for is therefore small.
- The lexer and the parser of source text: not reached by the tools.
- The FFI and the libraries: conversions and input and output.
- Back ends for other processors, `dynasm`, `host/`, `jit/*.lua`: not built, generated,
  or run at build time only. The README of the repository says that only 32-bit x86
  works.
- In `LuaGC`: prototypes and traces as objects (they behave as tables that are never
  stored to, and as roots), cdata finalizers, userdata without a finalizer (they
  are freed as tables are), thresholds, and `lua_close`.
- In `BcRead` and `BcWrite`: what follows a cdata constant (`lj_bcread.c:851` and
  863 pass an address in place of a state, and what happens then depends on what lies
  there: `ReadCdata` ends in `"wild"`), the contents of debug information, the memory limit of a
  file, and a failing write of an output.
  `uabdec` is input and output around the decoder.
- In `LuaTab`: metatables and template tables, and keys so large that a table's size
  overflows or `unbound_search` leaves its doubling for a linear search (`lj_tab.c:629`).
- In `Trace`: flushes in finalizers and by C hooks while a trace is recorded; handlers of
  compiler events; a failing change of protection; running out of memory inside
  `trace_start`; a second flush of one trace, which an assertion excludes (`lj_trace.c:208`); the
  growth of the trace array (it has its full size from the start); prototypes that die; the
  compiler without its loop optimization. Down-recursion behind `RETM` is among the other
  errors.
- The sorted list of open upvalues, the string table's chains, the allocator, the profiler, and the
  pace of the collector: see the plan; their hazards are listed without a property.
