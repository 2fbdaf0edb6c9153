# A verification development of libload

libload loads PE modules (DLLs) from memory into the current process or into
another one, without the loader of the operating system. This directory holds
TLA+ models of it, translated from the code in `src/` (paths below are relative
to the repository), the TLC configurations that check them, and proofs checked
by TLAPS. `PROJECT.json` has the machine-readable side: which lines each
definition stands for, which run checks what, and the hazards found while
reading the code.

## 1. The system

| component | code | state | operations |
|---|---|---|---|
| PE loader | `src/load_module.cpp`, `src/pe/load_module.cpp`, `src/pe/image.hpp` | the locals of `load_pe_module`: `image_mem`, `module_cache` | `load_module`: allocate, copy headers, map sections, relocate, resolve imports, set protections, discard sections, register the exception table, DllMain, hand over to the module |
| PE module | `src/pe/module.hpp` | `_image_mem`, `_module_cache`, `_process` | symbol lookup with forwarders; destructor: DllMain, deregistration, imports, memory |
| Memory manager | `src/platform/windows/current_process.cpp`, `local_process.cpp`, `memory_access.hpp` | the page table of the process | `allocate`, `release`, `commit`, `decommit`, `set_access`, `copy_from`, `copy_into` |
| Memory block | `src/memory_block.hpp` | manager, pointer, size | move, release, destruction; clipped `read` and `write`, slices, little-endian values |
| Module cache | `src/module_provider.cpp`, `.hpp` | a map of strong references per module; a static map of weak ones per provider | `get_module` |
| System modules | `src/platform/windows/system_module.cpp` | a module handle | `LoadLibrary`/`GetModuleHandleEx`, `FreeLibrary` |
| Processes | `current_process.cpp`, `local_process.cpp` | a process handle, a memory manager with the same handle, a provider | `open_process`, move, destruction, exception tables |
| Code generation | `src/code_chunk.cpp`, `src/arch/x64/code_generator.cpp` | chunks, the offset of a sink | `max_size`, `emit`, parameters, relative call |
| Mapped files | `src/mapped_file.cpp` | a mapping | `read`, which is clipped at the end of the file |

They meet in one call. `load_module(data, provider, process)` makes a
`ModuleCache` around the caller's provider and goes through the functions of
`image.hpp`, each of which calls the process's memory manager. Resolving imports
calls the provider, which may load other modules and run their DllMain; DllMain
of the module itself may call back into the library. The result is an
`OwnedPEModule` under a `shared_ptr`. It owns the image's memory and, by the
strong references in its cache, the modules it imported or found through
forwarders. Its destructor runs wherever the last reference goes: in the
client, or inside the destructor of another module.

What is hard about it:

* **partial failure**: every step of a load can throw, with a different part of
  the process already changed; after `make_shared` two objects own one memory;
* **shared ownership**: the order in which a graph of modules is destroyed, on
  one thread or several, and the moments at which a provider may still hand out
  a module;
* **order**: protections after writes, DllMain before the release of imports and
  memory, imports before memory;
* **the shared page table**: preferred addresses that collide, ranges taken from
  an image's headers, stale registrations at an address that is used again;
* **arithmetic**: offsets, sizes and distances of fixed width.

The complete list, with lines, is `hazards` in `PROJECT.json`.

## 2. The modules

| module | what it is |
|---|---|
| `VirtualMemory` | the page table: effect and condition of each call of a memory manager |
| `PELoader` | the core: any number of loads, and the modules they return, in one process |
| `ModuleLifecycle` | what `PELoader` promises, in three variables |
| `PELoaderProofs`, `ModuleLifecycleProofs` | theorems about the two: types, references, ownership of memory; protections, entry points, exception tables, faults; that the first implements the second |
| `Relocation` | what the relocation directory does to the contents of an image: `PELoader!Relocate` from inside |
| `ImageContents` | extends it to the whole content of an image: a file, its headers and sections, with and without a buffer, then the relocations |
| `ImageContentsProofs` | theorems about the two |
| `SymbolLookup` | symbols: forwarders, imports, and how long an address is good |
| `SymbolLookupProofs` | theorems about `SymbolLookup` |
| `ProcessHandles` | `LocalProcess` objects, their handles, and memory in processes that exit |
| `ProcessHandlesProofs` | theorems about `ProcessHandles` |
| `ModuleProviders` | modules of the operating system: the weak map, handles, re-entry through DllMain |
| `ModuleProvidersProofs` | theorems about `ModuleProviders` |
| `CodeGen` | chunks of generated code, from `max_size` to bytes in memory |
| `CodeGenProofs` | theorems about `CodeGen` |
| `NumberFacts` | lemmas about numbers for the proofs about `CodeGen` and `Relocation`: induction, recursive functions, division |
| `MCPELoader`, `MCImageContents`, `MCRelocation`, `MCSymbolLookup`, `MCModuleProviders`, `MCProcessHandles` | images, loads, files, providers, names and symmetries for TLC |

### VirtualMemory

An address is a page number, `1 .. LastPage`. `region[p]` is the first page of
the reservation `p` belongs to (what `VirtualAlloc` returned) or `Null`;
`access[p]` is a set of rights or `NotCommitted`. `CanReserve`, `CanRelease`,
`InOneRegion` and `CanProtect` are the conditions under which `VirtualAlloc`,
`VirtualFree` and `VirtualProtect` succeed, as the Windows API has them: the
code in `src/` turns a failure into an exception. `Win32Access` is
`memory_access_to_win32`, including its answer for rights without "read".
`LocalProcessMemory` makes the same calls on another process.

### PELoader

A member `l` of `Loads` is a call of `load_module` and then the module it
returns; when the module is gone, `l` can be used again. `pc[l]` names the
function of `load_pe_module` the load is about to enter, or the part of
`~OwnedPEModule` it is in. One action is one function of `image.hpp`, one
statement of `load_pe_module`, or one destructor:

| action | code |
|---|---|
| `LoadModule`, `Allocate`, `CopyHeaders`, `MapSections`, `Relocate`, `ResolveImport`, `ApplyPermissions`, `RemoveDiscardable` | `load_module`, then `load_pe_image` and the functions it calls, in its order |
| `RegisterTable`, `Attach`, `AttachAsserts`, `AttachFaults`, `AttachIndirect` | `initialize_dll`, with and without direct addressing |
| `MakeShared`, `HandOver`, `Return` | the end of `load_pe_module`: two owners, one owner, the local goes out of scope |
| `Throw`, `MakeSharedThrows`, `Unwind` | exceptions, at every step that can throw; the memory, then the cache |
| `ConstructorThrows`, `ReleaseAgain` | the constructor of `OwnedPEModule` throws with two owners: its block releases the memory, its cache goes, `image_mem` releases what is then at its address |
| `FindForwarded` | a forwarder met by `find_symbol` |
| `ClientDrop`, `Detach`, `Deregister`, `DropEntry`, `CacheGone`, `Unmap` | the last reference, and `~OwnedPEModule` with its members in reverse order |

Loads interleave freely. That covers threads, and it covers re-entry: a load
started by the DllMain of another module is a load that runs while the other
one stands between two of its steps. Destructors do not interleave with their
own caller: when the entry of a cache is the last reference to a module, that
module's destructor runs on the same thread (`nested`, `Busy`).

`blocks[l]` tells which of the two `OwnedMemoryBlock`s, the loader's local or the
module's member, still holds the pointer. `dll`, `tables` and `lost` are what
DllMain and the system were told; a DLL that was attached when `make_shared`
failed is never told otherwise, and is "abandoned" (`LeavesDll`). `fault` becomes
something else than "none" when the process ends: an assertion, a call into a page
that cannot be executed, or an exception that leaves a destructor. There is one
more fault, "foreign release", which does not end the process at once. After
`ConstructorThrows` the memory is free while the cache is destroyed, and another
load may reserve it; `ReleaseAgain` then releases that load's memory. From there
on the other load runs on pages that are not its own, and the model stops.
Properties of memory are stated for what comes before (`Intact`).

The `ModuleProvider` is the caller's (only its interface is in the code):
it may answer with a system module or with any module of `Provides` that is
loaded. It cannot answer with a module whose last reference is gone, as
`weak_ptr::lock` guarantees.

Left out of the model: contents of pages, and with them what relocations and
thunks are set to (`ImageContents`); symbols (`SymbolLookup`). (`Relocation`
shows that an image that is not at its preferred address has its headers
overwritten; the steps of `PELoader` after `Relocate` read the headers as they
were.) `Relocate` keeps what decides the control: with direct addressing it
fails on entries the code does not support, and without it on the first block
there is, because `copy_into_local_memory` reads into memory that nobody
committed. A load into an image whose preferred address is taken fails in
`allocate`; there is no second attempt elsewhere.

Images are those a linker lays out (`LayoutAssumption`): sections do not share
pages, start inside the image and have no more file data than memory, and
entry point and exception table lie in the image. That sections *end* inside the
image is not assumed. (The code checks none of this: with an entry point behind
its image, a module would call whatever another one has there.)

### ModuleLifecycle

`phase`, `space` and `uses`: a module claims free pages, uses only modules that
are ready, is retired when nobody uses it, gives up its pages when it uses
nobody, and is then absent. A load that fails gives its pages up first and its
imports after. `PELoader!ImplementsLifecycle` is the refinement, with
`LifecyclePhase`, `LifecycleSpace` and `LifecycleUses` as the mapping; every step of the
loader that is not a step of the life cycle leaves those three alone.

### Relocation

The image's memory is a function from cells to digits; a cell stands for a
byte, with the widths of `HIGHLOW`, `DIR64`, a page and `size_t` as constants.
The two nested loops are the state (`todo`, `entries`); one action is one block
(`NextBlock`, `RejectBlock`) or one entry (`ApplyEntry`, `SkipEntry`,
`RejectEntry`). What `MemoryBlock::read` and `write` clip, what a clipped read
leaves in the uninitialised local of `read_le_value_from` (any digits), the
wrap-around of `_mem_size - offset` and of `offset + size`, and the
`image_base` read from the mapped headers for every entry are all there. So is the
slice that ignores its offset: `Slice` starts at 0. `touched` collects the
cells that were read or written, so that it can be said that they are cells of
the image. `Power` and `Value` are recursive functions, which the provers can
unfold, where `^` and a fold over the digits would say the same.

### ImageContents

A file of digits, `size_of_headers`, sections with `virtual_address`,
`virtual_size`, `pointer_to_raw_data` and `size_of_raw_data`, and the
relocation directory. The steps are those of `load_pe_image`:

| action | code |
|---|---|
| `CopyHeaders`, `HeadersRefused` | `copy_pe_image_headers_direct` and `_indirect` |
| `MapSectionDirect`, `SectionRefused`, `SectionFaults` | one round of `map_pe_image_sections_direct`: `rem_size` modulo the width of `size_t`, `commit`, the read into the image |
| `MapSectionIndirect`, `WriteRefused` | one round of `map_pe_image_sections_indirect`: `rdata_buf` is resized, filled as far as the file goes, and written as far as the image goes |
| `StartRelocating`, `Relocate`, `RelocationFaults` | `apply_pe_image_relocations_direct`, the actions of `Relocation` |
| `RelocateIndirect` | `apply_pe_image_relocations_indirect`: fails on the first block, in memory nobody committed |

`MappedFile::read` is `FileCells` and `ReadInto`: its `size() - offset` wraps
around when a section's data begins behind the end of the file, and then it
reads what is not there (`SectionFaults`). `committed` is kept because a section
may have more data than memory, and pages behind it may or may not be there.
Freshly committed memory is zero. What the headers declare of each cell is
`Declared`, written without copies, and the properties of `Relocation` (which
take an image's `contents` for granted) are checked again on what was really mapped.
`StaysInImage` holds after every fault, too.

### SymbolLookup

One thread, and a stack of `calls`: `find_symbol` ("find"), `ModuleCache::get_module`
waiting for its provider ("provide") or about to return a module ("given"), and
`resolve_pe_image_imports` of a load ("load"). The provider is a client's or
a DllMain's code, so while it is asked it may do what the client does outside:
`Ask` for symbols, `Load` and `Drop` modules, to any depth up to `MaxNested`. It
answers with any loaded module it serves under the name, with null, or
throws.

`cache[m]` is the `ModuleCache` of `m`. `InCache` and `ProviderAnswers` are the
two halves of `get_module`, with the provider's answer stored over whatever was
stored meanwhile. A module is referred to by the client (`held`), by caches, and
by the locals of calls that run on it (`Referenced`); when nothing does,
`Destroy` is the next thing that happens (`Settled`). `answers` remembers, for
each symbol of a module, what the client was last told; `thunks` what a load
wrote into its image. Neither is a reference: that is the point of the
properties.

`reentered` is a history variable. It becomes true when a cache is asked for a
name for which it is already waiting. The inner lookup then returns an address
in a module that only this cache holds, and the outer answer overwrites the
entry: `AnswersLive` does not hold afterwards, and is not claimed. (TLC finds
the counterexample when the condition is dropped.) The code has no comment or
test that says otherwise, so this is a limit of use and not a finding.

Each import entry asks the cache for its module anew, where the code asks once
per import descriptor: the answers are the same, for nobody else has the cache of a
module that is being loaded.

### ProcessHandles

A handle is a number in the `table` of the system, with a process and rights, or
`Closed`; the system may give a closed one to any process it opens. An object is
a `LocalProcess`: `_handle`, the copy its `_memory_manager` has (which a move leaves
behind in the object that was moved from), and the process it was made for. `blocks` are
`OwnedMemoryBlock`s, with the object through whose manager they release, and the
handle, the process and the place they were allocated with.

| action | code |
|---|---|
| `OpenProcess` | `OpenProcess` and the constructor of `LocalProcess`, which throws without `PROCESS_QUERY_INFORMATION`, and for reasons of its own; the handle is then lost |
| `Move`, `Destroy` | the move constructor and `~LocalProcess` |
| `Allocate`, `Release`, `ReleaseThrows` | `LocalProcessMemory`, and `~MemoryBlock` around it |
| `Exit` | the other process ends, with its memory |

At this commit `open_process` asks for `PROCESS_VM_OPERATION |
PROCESS_CREATE_THREAD` only, and `IsWow64Process2` in the constructor needs
more: no `LocalProcess` comes out of `open_process`. Also, the members of
`LocalProcessModuleProvider`, of which every constructor makes one, are declared
and never defined. The set of rights with "query" in it therefore stands for a
handle from inside of the library, such as `create_process` would have, which is
declared and not implemented. What is shown of it is what the class promises,
and what its `open_process` does is shown with the rights it asks for. With the
id of the own process `open_process` returns a `CurrentProcess`, which has no
state.

A client is taken to destroy an object only while no memory block refers to its
manager, which is what the reference `_mem_manager` asks of it. It may move an
object whenever it likes. The object that was moved from is still there then, and
so is its manager, with a handle that now belongs to another object: blocks go on
to be released through it, and new ones may be allocated through it. Once the
other object is destroyed, the handle of that manager is closed, or is that of some
other process. A release through it then throws (`ReleaseThrows`), or frees memory
of that other process (`Release`); `failed` remembers the block, and the model stops.

### ModuleProviders

`handles` is the system's reference count, `calls` the stack of `LoadLibraryA`
calls, each in its DllMain or returned; between any two of its steps the client
(outside of all calls, or in a DllMain) may look up or drop modules.
`LookupFinds` is a successful `weak_ptr::lock`; `LookupLoads`,
`DllMainReturns`/`LoadFails` and `Wrap`/`WrapThrows` are the parts of a lookup
that finds nothing. `LookupInProcess` is the provider of the current process,
which makes a new `SystemModule` each time. `Asks` says which DllMain looks up
what. An entry with an expired `weak_ptr` and no entry are the same to the code,
and are both `Absent`. One thread: with more, the unordered map is a data race.

### CodeGen

The client of `test/test_codegenerator.cpp`: chunks are added (`Add`), measured
and given memory (`Measure`), emitted one after the other (`EmitPlain`,
`EmitCall`, `CallThrows`) and invoked. Two counters run side by side: `emitted`, which
`CodeBlock::emit` adds to the location it tells a chunk, and `offset`, by which
the sink writes. A byte of `code` remembers whose it is. What `VirtualAlloc`
returns lies inside the address space, and so does its end: `Measure` has no
place for code that would not fit below `AddressLimit`.

## 3. The runs

All runs explore their whole state space.

| run | instance | what it shows |
|---|---|---|
| `direct` | two loads, six pages, seven images (below), providers that may answer with any loaded module, itself included | the invariants of section 4, `Isolation`, and that the loader implements `ModuleLifecycle` |
| `live` | two loads, two DLLs; one load may import the other and not the other way round | loads end, dropped modules are unloaded |
| `indirect` | three loads of one page, one name, a chain of imports, no direct addressing | the same for destructors nested two deep |
| `lifecycle` | three modules, three pages | the life cycle's own properties |
| `contents` | digits of one bit, pages of eight cells; images of two pages with one or two relocation blocks, images of three pages with two sections each; three bases, two preferred ones | what mapping and relocating an image puts into it and what they cannot |
| `codegen` | up to three chunks, four counts of parameters, two places, targets before and behind | chunks are where they were told, blocks have the size that was measured |
| `providers` | three names, of which two look each other up in DllMain, and three `SystemModule`s | handles and sharing, under re-entry and failing allocations |
| `symbols` | a program with an import and four libraries, two for each of two names, one of them with a forwarder; providers nested two deep, six calls | addresses and thunks stay good, answers stay the same, calls end |
| `processes` | two processes, three handle values, three objects, two places in each process | handles are closed once, memory is released where it is |
| `slices` | the images of `contents` with two blocks | **violated**: `src/memory_block.hpp:97-102` |
| `relative_call` | as `codegen` | **violated**: `src/arch/x64/code_generator.cpp:250-251` |
| `program` | a program among the images | **violated**: the assertion at `src/pe/image.hpp:317` |

Bounds. Two loads are enough for two owners of one page, two registrations at
one address and an importer with its import; the third load in `indirect` adds a
destructor inside a destructor. The images of `direct` are: a DLL with a
preferred address in the middle of the address space, so that allocations
collide, that imports, registers an exception table and discards a section; one
that is loaded anywhere and has a forwarder; the same with an import, so that
two loads can import each other in a circle, or themselves; a program, a DLL
without entry point, one whose code may be executed and not read, and one with a
section beyond its end. Six pages leave room for two of them and for a gap.
`MaxTables` bounds registrations at one address at two: one lost by a failed
`make_shared` and one in use.

`direct` allows modules that hold each other in a circle. Such modules stay for
ever, and a fault ends the process, so a state without successors can be
reached: no run of `PELoader` checks for deadlock, nor does `lifecycle`. That a load ends is
`LoadsSettle`. In `direct` the two loads differ in nothing (any may be answered with
any), so it is explored up to their exchange (`MCSymmetry`), as `processes` is up
to that of processes, handle values, objects and places. `live` and `indirect`,
which have liveness properties, are not.

In `contents` sizes count modulo 32. Images of two pages, 16 cells, are half of
that, so that a relocation block can be asked for that is refused, and one
further away that is accepted by overflow; widths 2 and 4 keep the proportion of
4 and 8 bytes. Relocation entries are of any type, anywhere in a page, up to two
in a block; slices are whole, cut an entry in two, are empty, are refused, or
overflow. Files have 16 cells; sections have their data inside the file, cut off
by its end, at its end or behind it, more of it than memory, less, or none, and
lie inside the image, at its end or behind it. Two sections are what it takes
for one to find the other's data in the buffer or in memory. In `codegen`, 5 and
7 parameters are more than fit registers, and 7 more than a syscall takes;
addresses are far from the end of `uintmax_t` (`AddressesAssumption`), so a
negative distance has more than the bits of an immediate, as in the code. In
`providers` two names may have each other looked up (a nested lookup of the
outer name) and the third only leads there; at most two `shared_ptr`s to a
module, three modules at once and one lost handle per name.

In `symbols` the two libraries for each name make it matter which one a provider
answers with; one that is asked may be asked again in between (`MaxNested` is
2), and the longest chain (a load, its provider, a lookup in there, its
forwarder's provider, and what they return) fits into `MaxCalls`: a call that
does not fit would keep the calls below it from ending, which `CallsEnd` would
show. Each module is made once, so histories are finite. In `processes` there
are fewer handle values than processes opened over time, so that values are used
again. These runs end (everything dropped, thrown, executable, out of storage,
exited or terminated), so they do not check for deadlock.

Fairness (`PELoader!Fairness`): weak fairness of each load's own steps, which
says that a thread inside `load_module` or a destructor is scheduled until it
leaves. No code in between waits for another thread. Nothing is assumed of the
client: it need not load, use or drop anything. In `SymbolLookup` the library's
code runs on by weak fairness, and the provider, at each depth at which one is
being asked, returns or throws in the end, by strong fairness: it may look up and
load as often as it likes before it does, and so leaves and enters the
place where it could return. A provider that never returned would block every
lookup behind it, and the code has nothing against that.

## 4. The properties

Invariants: `FaultsExplained` (the process ends, or memory of another load is
released, only where `initialize_dll` calls what is no DllMain, and where the
constructor of `OwnedPEModule` threw with two owners; no other destructor throws,
and DllMain of a loaded module can be called when it is unloaded), `MemoryOwned`
(each reservation has one owner, of its extent), `ImportsOutliveImporter`,
`NoForgottenModule`, `TablesBacked` (exception tables, those a failed `make_shared`
lost counted apart), `PagesAsDeclared`, `AttachedIsCallable` (a DLL that was told it
is attached has its entry point and its imports until it is told otherwise; those
that were abandoned are not meant). Action property: `Isolation`.
Liveness: `LoadsSettle`, `DroppedModulesAreUnloaded`. The latter is stated for
the time after the last load: while there are loads, importers can hand a module
on among them for ever, which TLC showed for an earlier form of it.

`Relocation`: `NeutralAtPreferred` (an image at its preferred address keeps
every cell, whatever a clipped read left uninitialised), `StaysInImage`,
`MovedAsListed` (the loops against a definition without loops: each value moved as
often as it was listed, in as many digits as it has, and nothing else). Where the
value of an entry is, it takes from `Slice`, so that it holds of the code as it is and
of one whose slices are where they were asked for, and says what both have to
do with a value; that they are not there is the finding of `slices`. With slices
that all start at the start of the image, entries of different blocks with one
offset list one value, which then moves more than once (`SameValue`). Two
things are excepted: a value that shares some cells with a different one
(`Whole`), and images that list one in `image_base` (`BaseIsUnlisted`), which the code
reads again for each entry. `CodeGen`: `PlacedWhereTold`,
`FillsItsMemory`. `ImageContents`: `MappedAsDeclared` (a mapped image has what
its headers declare, in each cell; by way of the buffer a section that was cut
off by the end of the file ends in data of the section before it, and nothing
else differs) and `ReadsStayInFile` (a file may end anywhere inside its
sections' data; a read faults only for a section that begins behind the end, or
that has more data than pages). `SymbolLookup`: `AnswersLive` and `ThunksLive`
(an address points into a loaded module as long as the module it was asked of,
or the importer, is loaded), `AnswersStay` (a symbol keeps its address, and a
symbol that was not found stays so), `CallsEnd`. `ProcessHandles`:
`HandlesOwned`, `BlocksReachTheirProcess` (a block's manager reaches the process of the
block as long as an object of that process owns the handle it was allocated with:
`Backed`), `FailuresExplained` (a release fails, or hits another process, only when
the block's process has ended or nothing backs it).
`ModuleProviders`: `HandlesCounted`, `HeldIsLoaded`, `OnePerName` (one
`SystemModule` for all users, unless a name is looked up again while it is being
loaded). `HeldIsLoaded` is what lets `PELoader` take `System` for always loaded.

Each property is paired with a mutant, a definition with a plausible bug, under
which TLC finds it violated; these stand before the definition they change and
are introduced by "Mutant:".

**Findings.**

*Run `slices`.* `get_memory_block_slice` checks the range it is asked for
("Memory range not withing block") and returns one that starts at the start of the
block: line 102 passes `mem_block.data()` without the offset. Relocations of
every page are applied to the first one, the headers. At the preferred address
this changes nothing (`NeutralAtPreferred`), which is why the tests pass. The
same line's neighbour also refuses a range that ends exactly with the block. The mutant
`SliceAtOffset` shows what has to be mended together: with the offset alone, entries
behind the end of a slice are written outside the image, because
`_mem_size - offset` wraps around.

*Run `relative_call`.* The immediate of the generated call (`/* call rel32 */`)
is computed with the wrong sign: a call of something behind, as in the trace of the
run, goes to a place ahead; a call of something ahead throws "Immediate value
exceeds 32 bits".

*Run `program`.* `load_module` never looks at the type of an image. A program
(EXE) is mapped, registered, and reaches
`assert(image.type() == peplus::ImageType::Dynamic)` in
`invoke_dll_entry_point_direct`, which fails; in a build without assertions the
program's entry point is called as a DllMain.

## 5. What is proved

Each theorem is about every value of the constants the assumptions of its module
allow. The assumptions are about the inputs (what images, files and modules look
like) and about model values being apart; TLC evaluates them in every run.

| module | theorem | `Spec` implies |
|---|---|---|
| `PELoaderProofs` | `TypeCorrect` | `[]TypeOK` |
| | `ReferencesCorrect` | `[](ImportsOutliveImporter /\ NoForgottenModule)` |
| | `OwnershipCorrect` | `[](BlocksOfStage /\ MemoryOwned)` |
| | `IsolationCorrect` | `Isolation` |
| | `PagesCorrect` | `[]PagesAsDeclared` |
| | `EntryCorrect` | `[](AttachedIsCallable /\ (Intact => EntryStays))` |
| | `TablesCorrect` | `[]TablesBacked` |
| | `FaultsCorrect` | `[]FaultsExplained` |
| | `LifecycleImplemented` | `ImplementsLifecycle` |
| `ModuleLifecycleProofs` | `LifeIsSafe` | `[](UsedModulesAreReady /\ AbsentLeavesNothing)` |
| `ImageContentsProofs` | `RelocationStaysInImage`, `LoadStaysInImage` | `[]StaysInImage`, of relocating and of mapping and relocating |
| | `MappingCorrect` | `[](MappedAsDeclared /\ ReadsStayInFile)` |
| | `RelocationCorrect` | `[](NeutralAtPreferred /\ MovedAsListed)`, of relocating alone |
| | `LoadCorrect` | `[](ContentsTypeOK /\ NeutralAtPreferred /\ MovedAsListed)`, of mapping and relocating |
| `CodeGenProofs` | `CodeType`, `PlacesCorrect`, `FillingCorrect` | `[]TypeOK`, `[]PlacedWhereTold`, `[]FillsItsMemory` |
| `SymbolLookupProofs` | `LookupType`, `AnswersCorrect`, `ThunksCorrect` | `[]TypeOK`, `[]AnswersLive`, `[]ThunksLive` |
| | `AnswersRepeat` | `AnswersStay` |
| `ModuleProvidersProofs` | `ProvidersType`, `HandlesCorrect`, `HeldCorrect`, `SharingCorrect` | `[]TypeOK`, `[]HandlesCounted`, `[]HeldIsLoaded`, `[]OnePerName` |
| `ProcessHandlesProofs` | `HandlesType`, `HandlesAreOwned`, `BlocksStayReachable`, `TerminationExplained` | `[]TypeOK`, `[]HandlesOwned`, `[]BlocksReachTheirProcess`, `[]FailuresExplained` |

### PELoader

For any loads, names, providers and images, and any number of pages.

*References.* The two invariants are inductive together with `TypeOK`. A cache is
filled only from `Answers`, so with loaded modules; a module stops being loaded
only in `ClientDrop` and `DropEntry`, and there only if no reference is left,
which is what the second one needs as well. The other steps are one lemma,
`OtherStepsKeepReferences`.

*Ownership.* `MemoryOwned` is not inductive: it does not say that the destructor
that releases the memory is the last owner's. `BlocksOfStage` does, by the place
each load is at, and to know where a module is when its last reference goes the
step `DropEntry` needs `ImportsOutliveImporter`. The cases that matter are
`AllocateKeepsOwnership` (what was free belongs to nobody else) and
`DisposeKeepsOwnership` (what is released is all of one load's and nothing of
another's; the destructor does not throw). `ConstructorReleases` is the latter for the
module's block when its constructor throws: from then on the load owns nothing,
and `ReleaseAgain`, which goes by its address all the same, is the only step that
may take another load's memory (`NoStepAfterFault`: no step follows it). What is
proved of memory is proved up to that step.

*Isolation.* Follows from `MemoryOwned`: ranges are checked to lie in one
reservation, and start inside the image, so in the load's own.

*Pages.* `PagesAsDeclared` speaks of modules that can be used, and says nothing
of how they came to be. `PagesOfStage` says of every page of a load what it is
at that stage: not committed before the headers are copied, writable until the
permissions are applied, then as its section's rights have it, then also gone if
the section can be discarded. Its counterpart is `FreePagesUncommitted`: what
`Allocate` finds has nothing of an earlier module. It is proved in two parts:
`MovesOfLoad` shows that a load's stage changes by its own steps or by the drop of
its last reference, and nothing else; and while it does not change, `StayingPages`
shows, by isolation, that its pages do not, either. So each stage has one lemma, about one
function of `image.hpp` (`MapSectionsPages`, `ApplyPermissionsPages`,
`RemoveDiscardablePages`, ...), in which no other load occurs.

*Entry points and tables.* `Attach` checks that the entry point can be executed,
by calling it. `EntryStays` keeps that until DllMain was called for the last
time; `AttachedStages` says where a load is that has been told it is attached;
`ImportsHeld` that all it imports is in its cache from the moment it was resolved
until the cache is destroyed, which is after DllMain was called.
For `TablesBacked` each table has its page in the module's own memory
(`EntryAndTableInside`), so no two modules in `Registered` have theirs at one page
(`OneTable`), and the counts of `tables` and `lost` change by one at the mover's page
only. `FaultsExplained` then goes through every step that can fault: a
destructor's release is of all of a block, a deregistration finds its table, a
detached DLL can be called. What is left are the steps the code has no
defence for, `AttachAsserts`, `AttachFaults` and `ReleaseAgain`.

*Refinement.* `PhaseOf` takes a load's place to a phase, and `MemoryOwned` gives that
each page belongs to the load the mapping says, and to one (`SpaceMapped`). The
steps of the loader are sorted by what they are in `ModuleLifecycle`: its begin,
claim, use, publication, retirement, abandoning and vacating, unuse, end, and
those that change nothing there; each kind has a lemma (`BeginSteps`,
`ClaimSteps`, ...). Retirement needs `ImportsOutliveImporter` (nobody uses what
is retired), and vacating needs that the cache is empty by the time the memory
goes (`UnmapEmpty`, an invariant of its own). With this, what is proved of
`ModuleLifecycle` holds of the loader.

### ModuleLifecycle

For any modules and pages. The two invariants are inductive together with
`TypeOK`. The first one also says that a module on its way in or out is used by
nobody, itself included, so a module whose last user lets go of it is another
one than that user.

### ImageContents and Relocation

`StaysInImage` is proved for every width, size, address, content and relocation
directory, from the assumptions of `Relocation` (an image has at least two
pages, and a page holds a value). The invariant is inductive together with
`ListsTyped`, which adds that a slice starts at the start of the image: clipping
is not what keeps the accesses inside, since it is off behind the end of a
slice; the distance of an entry from its page is. `LoadStaysInImage` is the same
for the whole way of an image, from the first byte of its headers: the steps of
the mapping leave the relocation loops' state alone, and the access that faults
(`RelocationFaults`) is inside the image, like the ones that do not.

`MappingCorrect` is about the loop over the sections. `InOrder` says which
sections it has passed, `PassedAreCommitted` that their pages are there, and
`ContentsSoFar` what each cell holds at that point: the data of the last passed section that
has some for it, or the headers', or zero; by way of the buffer, where a file
ends inside a section's data, anything. `CellStep` moves that on by one
section, from what one round of the loop stores (`DirectStored`,
`IndirectStored`), and when all are passed the last one is the one `Declared`
names (`AllPassed`). `ReadsStayInFile` rests on `FaultsExplained`: a read that is
clipped by the end of the file stays inside, and one that wraps around
begins behind it. Sections may overlap here.

`RelocationCorrect` is about values. `Value` and `Power` are recursive, so what is
said of them for every number of digits needs induction. The library's theorems
about it take operators for parameters; `NumberFacts` has it for sets (`AllNumbers`:
a set with 0 in it, and with each number the next one, has them all), which
the provers can use, and derives it from the fact that a set of numbers has a
least one. In the same way it shows that the recursive functions exist
(`SumsExist`, `PowersExist`). With that: a value that is written and read again
is cut off to its digits (`ValueOfDigits`), the value of the first digits is the
whole one modulo their power (`ValueOfFirst`), and digits with one value are the
same (`SameDigits`). `EntryMoves` puts these together for one entry: whatever a
clipped read left in the local variable, the cells that are written hold what
they held plus `base_diff`, in as many digits as there are cells; and if
`base_diff` is zero, nothing changes.

`RelocationInv` is the inductive invariant of the two loops. `InPlace` says that
what is left to do is the end of the image's list, and that the slice is that of
the block the entries are from; `MovedSoFar` is `MovedAsListed` for the entries
applied so far (`Applied`), and everything else as it was mapped. Since no value
is in the headers' `image_base`, the difference that each entry reads again is the
first one (`PreferredStays`). An entry moves its own value once more, which is
counted (`OneMoreListed`, in a finite set: `ValuedFinite`), and of another one that
shares no cell with a different value it touches none. `NeutralAtPreferred` needs neither: entries may overlap, and lie on
`image_base`. For `LoadCorrect` the relocations start in what `MappingInv` says was
mapped (`StartKeepsRelocation`); `LoadInv` also has the types of memory and
buffer, which the steps of the mapping keep because they copy digits of the file,
of each other, or zeros (`CopiesTyped`).

### CodeGen

For any chunks, counts of parameters, targets and places. `SizesDefined` unfolds the
recursive sum `BlockSize` one chunk at a time, and `SizesAreOrdered` has by
induction that it grows with the chunks. The inductive invariant `CodeInv` is
`TypeOK`, `PlacedWhereTold`, and what the latter rests on: the location that
`CodeBlock::emit` adds up and the offset that the sink counts are both the size of
the chunks so far (`Counters`), memory is written from its start up to that
offset, and after a chunk threw not outside of it (`Filled`), and a block whose
end has an address leaves each chunk room (`Stages`). `AppendFits` is about one
append of the sink: with room, it is not clipped, and leaves the bytes below as
they were. The guard of `Measure` is what makes each location an address.

### SymbolLookup

For any modules, exports, imports, providers and depths of nesting. An address
is the pair of a module and a symbol, and the assumption that `Null`, `Absent` and
`Unasked` are none of those is what the names of model values mean.

`AnswersLive` alone says nothing about the modules between the one that was
asked and the one that answered. What keeps the latter loaded is a chain of
caches. Chains have no bound and may be circles, so `Reaches(m, t)` is defined
without counting: `t` is in every set that has what the cache of `m` has, and
with each module what its cache has. That gives the two facts needed, that a chain
can be extended and that a module at the end of one is loaded
(`ReachedIsLoaded`), without induction. `LookupInv` is the inductive invariant:

* `StackShape`: which call may be above which;
* `OwnersLive`, `CallsLive`: what clients, caches, answers and calls refer to is loaded;
* `WaitsOnce`: a cache that waits for a name has nothing under it, and waits once,
  so an answer replaces nothing and no chain is cut;
* `StackReaches`: a call that looks up on behalf of another one is in a module
  the other's module reaches, so that when the answer comes back through all of
  them it is reached from the lowest;
* `AnswersReached`, `ThunksReached`: what was answered is at the end of a chain.

The last three items hold until `reentered`. Steps are sorted by what they do to
the stack (`StepKinds`: asking, continuing, answering, importing, throwing), and
for each the parts are shown to hold for a stack that is cut and for one with a call
put on it (`Cut...`, `Put...`). A destructor cuts chains, but only of a module
no chain that counts goes through (`ReachedSurvives`).

`AnswersRepeat` needs more: two lookups of one symbol at different times,
through whatever forwarders, have the same answer. `ComesTo(m, s, r)` is the
result the entries of the caches determine, again as a least set, closed under
`FollowsFrom`. Forwarders may go in circles, and then nothing is
determined; but nothing is determined twice (`ComesToOne`). Entries are added and
never replaced, so what is determined stays (`EntriesKeepLookups`), and the
calls on the stack forward what they are waiting for (`StackForwards`). A cache may
be asked for a symbol that then comes to nothing (null, a refusal): that is
remembered like an address.

### ModuleProviders

For any names and objects and any relation `Asks`. `HandlesCounted` is about two
cardinalities, of the `SystemModule`s of a name and of the lookups on the stack
that hold a handle (`ModulesOf`, `LookupsOf`), and each kind of change has a
counting lemma (`PushCounts`, `ReturnCounts`, `MakeCounts`, `LastDropCounts`,
...). It is inductive with `LiveHaveNames` (those sets are finite) and
`EntriesAreLive`. `HeldIsLoaded` follows: a count is not zero. `OnePerName`
rests on three more: calls below the top are in DllMain and what is above them
was looked up there (`StackOfAsks`), a name that is being looked up and that
does not lead back to itself has no entry (`NoneYet`), and an entry is the one
object (`EntryIsTheOne`). "Leads back" is a least closed set here, too.

### ProcessHandles

For any processes, objects, handle values and places. None of the three
properties is inductive as it stands: they follow from a conjunction about the objects
that own a handle. Such an object has an open handle, of its process, with the right
to operate on memory, the same in its manager, and not lost (`ObjectsOwn`); no two
own the same one (`OneOwner`, which is what keeps a destructor from closing
another's handle); open handles are owned or lost. The object of a block is
there, moved from or not, and its manager still has the handle the block was
allocated with (`BlocksOwned`: neither a move nor the end of another object changes
it); the memory is there while the process runs, and no other block's
(`BlocksApart`). Each action has its lemma. Whoever owns the block's handle makes the
stale manager reach the block's process (`BackedReaches`); so where a
release throws, or reaches another process, the process has ended or nobody owns the
handle.

### What is only model-checked

Liveness (`LoadsSettle`, `DroppedModulesAreUnloaded`, `CallsEnd`) is out of this
prover's reach, as is everything about enabled actions. Every invariant and
every action property of a passing run is proved; the three properties of the runs
that find a violation are false.

## 6. Not modelled, and the plan

In the order in which they are to follow:

1. `ModuleProviders` composed with `SymbolLookup`: a provider in front of another,
   two layers of caches, `Serves` implemented by the weak map.
2. `CodeGen`: the effect of the generated code on registers and stack, nested blocks.

Not modelled:

* what the loader does with damaged headers after relocation: the peplus
  library, which parses them, is not in the repository;
* the place of a thunk, and its width: `write_le_value_into` writes a pointer of
  the loading process, eight bytes in a 64-bit build also for the four-byte
  thunks of a PE32 image;
* the module provider of a `LocalProcess`: declared, never defined, and so
  nothing is known of what it does (its pointer to the object it was made for is
  not changed when that object is moved);
* `create_process`: declared, not implemented; `BorrowedPEModule`: nothing
  creates one;
* TLS callbacks beyond their place in `Attach`;
* data races on a module's cache and on the static map: undefined behaviour;
  `get_module` is one step in `PELoader`, and `SymbolLookup` and
  `ModuleProviders` have one thread;
* stacks that end: forwarders in a circle make `find_symbol` call itself without
  end, and `CallsEnd` is checked with forwarders that are not.

## 7. Running it

    tlc -config PELoader_direct.cfg MCPELoader     # and the other .cfg files
    tlc -config ModuleLifecycle.cfg ModuleLifecycle
    tlc -config ImageContents.cfg MCImageContents
    tlc -config Relocation_slices.cfg MCRelocation
    tlc -config SymbolLookup.cfg MCSymbolLookup
    tlc -config ProcessHandles.cfg MCProcessHandles
    tlc -config CodeGen_blocks.cfg CodeGen
    tlc -config ModuleProviders_reentry.cfg MCModuleProviders
    tlapm ModuleLifecycleProofs.tla
    tlapm PELoaderProofs.tla
    tlapm NumberFacts.tla
    tlapm ImageContentsProofs.tla
    tlapm CodeGenProofs.tla
    tlapm SymbolLookupProofs.tla                   # takes some minutes
    tlapm ModuleProvidersProofs.tla
    tlapm ProcessHandlesProofs.tla
