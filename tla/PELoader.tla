------------------------------ MODULE PELoader ------------------------------
(***************************************************************************)
(* load_module for PE images, and the life of the module it returns.       *)
(*                                                                         *)
(* Any number of calls of load_module run at once in one process: from     *)
(* several threads, or from the DllMain of a module being loaded.  A load  *)
(* goes through the functions of pe/image.hpp one step each, may be        *)
(* abandoned by an exception wherever the code can throw, and otherwise    *)
(* ends in an OwnedPEModule, which lives until the last shared_ptr to it   *)
(* is dropped, by the client or by the ModuleCache of an importer.         *)
(*                                                                         *)
(* Contents of pages are left out; who owns them, what may be done with    *)
(* them, and when, is what this module is about.                           *)
(*                                                                         *)
(* A definition introduced by "Mutant:" is no part of the loader: it is    *)
(* the one after it with a bug, which a property has to notice.            *)
(***************************************************************************)
EXTENDS VirtualMemory, FiniteSets

CONSTANTS
    Loads,      \* calls of load_module, and the modules they return
    Names,      \* module names, as import descriptors and forwarders use them
    Images,     \* the PE images that are loaded
    Direct,     \* MemoryManager::allows_direct_addressing()
    Provides,   \* <<l, m>>: the provider given to l may answer with module m
    System,     \* a module of the operating system, always loaded
    NoModule,   \* the null shared_ptr
    Absent,     \* the ModuleCache has no entry under this name
    MaxTables   \* bound: registrations of an exception table at one address

(***************************************************************************)
(* An image is what the loader reads in its headers, in pages from its     *)
(* start: base is image_base, pdata the exception table (0: none), entry   *)
(* the entry point.  relocations is "none", "supported" or "unsupported":  *)
(* whether every block and entry of the relocation directory is one the    *)
(* code accepts.  A section holds raw pages of file data and size pages in *)
(* memory.                                                                 *)
(***************************************************************************)
Section == [va : Nat, size : Nat, raw : Nat, rights : SUBSET Right,
            discardable : BOOLEAN]

Image == [base : Page \cup {Null}, size : Nat \ {0}, headers : Nat \ {0},
          sections : SUBSET Section, imports : SUBSET Names,
          forwards : SUBSET Names, pdata : Nat, entry : Nat,
          relocations : {"none", "supported", "unsupported"},
          dynamic : BOOLEAN]

ASSUME ImagesAssumption == Images \subseteq Image /\ Images # {}

\* The sections of an image share no page (PE section alignment), have file
\* data for no more pages than they have memory, and start inside the image,
\* as the exception table and the entry point do.
ASSUME LayoutAssumption ==
    \A image \in Images :
        /\ image.pdata < image.size /\ image.entry < image.size
        /\ \A s \in image.sections : s.raw <= s.size /\ s.va < image.size
        /\ \A s, t \in image.sections :
              s # t => Span(s.va, s.size) \cap Span(t.va, t.size) = {}

ASSUME ModulesAssumption ==
    /\ Direct \in BOOLEAN
    /\ MaxTables \in Nat \ {0}
    /\ Provides \subseteq Loads \X Loads
    /\ Loads \cap {System, NoModule, Absent} = {}
    /\ System # NoModule /\ System # Absent /\ NoModule # Absent

VARIABLES
    pc,       \* where each load, or the destructor of its module, is
    img,      \* the image each load is given, chosen once
    base,     \* _mem_pointer of its OwnedMemoryBlocks
    blocks,   \* the OwnedMemoryBlocks that own the memory: load_pe_module's
              \* local image_mem, the module's _image_mem; one whose memory
              \* the other released does not count, see ReleaseAgain
    cache,    \* _module_entries of its ModuleCache
    held,     \* the client has a shared_ptr to the module
    dll,      \* what DllMain was last told: "detached", "attached" or, after
              \* it was left alone so by a failed make_shared, "abandoned";
              \* "refused" is what it answered
    nested,   \* the load whose thread runs the module's destructor
    region, access,   \* the page table of the process
    tables,   \* exception tables registered, per address
    lost,     \* of these, the ones a failed make_shared left behind
    fault     \* "none", what ended the process, or "foreign release": memory
              \* of another load was released, and nothing is said of what
              \* comes after it

vars == <<pc, img, base, blocks, cache, held, dll, nested, region, access,
          tables, lost, fault>>

Loading == {"allocate", "headers", "sections", "relocations", "imports",
            "discard", "register", "attach", "make_shared", "handover",
            "return", "unwind", "uncache", "unmake", "release again"}

Unloading == {"detach", "deregister", "dropcache", "unmap"}

Stage == {"idle", "loaded"} \cup Loading \cup Unloading

TypeOK ==
    /\ pc \in [Loads -> Stage]
    /\ img \in [Loads -> Images]
    /\ base \in [Loads -> Page \cup {Null}]
    /\ blocks \in [Loads -> SUBSET {"local", "module"}]
    /\ cache \in [Loads -> [Names -> Loads \cup {System, NoModule, Absent}]]
    /\ held \in [Loads -> BOOLEAN]
    /\ dll \in [Loads -> {"detached", "attached", "abandoned", "refused"}]
    /\ nested \in [Loads -> Loads]
    /\ region \in [Page -> Page \cup {Null}]
    /\ access \in [Page -> Protection]
    /\ tables \in [Page -> Nat]
    /\ lost \in [Page -> Nat]
    /\ fault \in {"none", "assertion", "access violation", "terminate",
                  "foreign release"}

Init ==
    /\ pc = [l \in Loads |-> "idle"]
    /\ img \in [Loads -> Images]
    /\ base = [l \in Loads |-> Null]
    /\ blocks = [l \in Loads |-> {}]
    /\ cache = [l \in Loads |-> [n \in Names |-> Absent]]
    /\ held = [l \in Loads |-> FALSE]
    /\ dll = [l \in Loads |-> "detached"]
    /\ nested = [l \in Loads |-> l]
    /\ region = [p \in Page |-> Null]
    /\ access = [p \in Page |-> NotCommitted]
    /\ tables = [p \in Page |-> 0]
    /\ lost = [p \in Page |-> 0]
    /\ fault = "none"

-----------------------------------------------------------------------------
(* Shorthands *)

At(l, stage) == pc[l] = stage /\ fault = "none"

Goto(l, stage) == pc' = [pc EXCEPT ![l] = stage]

memVars == <<region, access>>
moduleVars == <<img, base, blocks, held, dll>>

Extent(l) == Span(base[l], img[l].size)

SectionPages(l, s) == Span(base[l] + s.va, s.size)

EntryPage(l) == base[l] + img[l].entry

TablePage(l) == base[l] + img[l].pdata

HasTable(l) == Direct /\ img[l].pdata # 0

Executable(p) == p \in Page /\ access[p] # NotCommitted /\ "execute" \in access[p]

\* Mutant: caches do not count as references.
ReferencedByClient(m, holds, entries) == holds[m]

\* A shared_ptr to module m exists.
Referenced(m, holds, entries) ==
    holds[m] \/ \E l \in Loads, n \in Names : entries[l][n] = m

\* What the ModuleProvider of load l may answer: a module it can lock.
Answers(l) == {System} \cup
    {m \in Loads : <<l, m>> \in Provides /\ pc[m] = "loaded"}

\* The thread of l is inside the destructor of another module.
Busy(l) == \E m \in Loads : m # l /\ pc[m] \in Unloading /\ nested[m] = l

-----------------------------------------------------------------------------
(* load_module, load_pe_module, load_pe_image *)

LoadModule(l) ==
    /\ At(l, "idle")
    /\ Goto(l, "allocate")
    /\ UNCHANGED <<moduleVars, cache, nested, memVars, tables, lost, fault>>

\* The preferred address or, if the image has none, any the system picks.
Allocate(l, mem) ==
    /\ At(l, "allocate")
    /\ img[l].base \in {Null, mem}
    /\ CanReserve(region, mem, img[l].size)
    /\ region' = Reserve(region, mem, img[l].size)
    /\ base' = [base EXCEPT ![l] = mem]
    /\ blocks' = [blocks EXCEPT ![l] = {"local"}]
    /\ Goto(l, "headers")
    /\ UNCHANGED <<img, cache, held, dll, nested, access, tables, lost, fault>>

CopyHeaders(l) ==
    /\ At(l, "headers")
    /\ Direct => img[l].headers <= img[l].size
    /\ InOneRegion(region, base[l], img[l].headers)
    /\ access' = SetPages(access, Span(base[l], img[l].headers), ReadWrite)
    /\ Goto(l, "sections")
    /\ UNCHANGED <<moduleVars, cache, nested, region, tables, lost, fault>>

\* Mutant: sections are not checked against the image.
MapSectionsUnchecked(l) ==
    /\ At(l, "sections")
    /\ access' = SetPages(access,
                          UNION {SectionPages(l, s) : s \in img[l].sections},
                          ReadWrite)
    /\ Goto(l, "relocations")
    /\ UNCHANGED <<moduleVars, cache, nested, region, tables, lost, fault>>

MapSections(l) ==
    /\ At(l, "sections")
    /\ \A s \in img[l].sections :
          /\ Direct => img[l].size - s.va >= s.raw
          /\ InOneRegion(region, base[l] + s.va, s.size)
    /\ access' = SetPages(access,
                          UNION {SectionPages(l, s) : s \in img[l].sections},
                          ReadWrite)
    /\ Goto(l, "relocations")
    /\ UNCHANGED <<moduleVars, cache, nested, region, tables, lost, fault>>

\* Indirectly, the first block is copied into a local block of memory that is
\* reserved and never committed: the read throws.
Relocate(l) ==
    /\ At(l, "relocations")
    /\ img[l].relocations \in IF Direct THEN {"none", "supported"} ELSE {"none"}
    /\ Goto(l, "imports")
    /\ UNCHANGED <<moduleVars, cache, nested, memVars, tables, lost, fault>>

\* The next import descriptor whose module is not in the ModuleCache yet.
ResolveImport(l, n, m) ==
    /\ At(l, "imports")
    /\ n \in img[l].imports
    /\ cache[l][n] = Absent
    /\ m \in Answers(l)
    /\ cache' = [cache EXCEPT ![l][n] = m]
    /\ UNCHANGED <<pc, moduleVars, nested, memVars, tables, lost, fault>>

ApplyPermissions(l) ==
    /\ At(l, "imports")
    /\ \A n \in img[l].imports : cache[l][n] # Absent
    /\ \A s \in img[l].sections :
          CanProtect(region, access, base[l] + s.va, s.size)
    /\ access' = [p \in Page |->
          IF \E s \in img[l].sections : p \in SectionPages(l, s)
          THEN Win32Access((CHOOSE s \in img[l].sections :
                               p \in SectionPages(l, s)).rights)
          ELSE access[p]]
    /\ Goto(l, "discard")
    /\ UNCHANGED <<moduleVars, cache, nested, region, tables, lost, fault>>

\* Mutant: discardable sections stay.
KeepDiscardable(l) ==
    /\ At(l, "discard")
    /\ Goto(l, "register")
    /\ UNCHANGED <<moduleVars, cache, nested, memVars, tables, lost, fault>>

RemoveDiscardable(l) ==
    LET discarded == {s \in img[l].sections : s.discardable} IN
    /\ At(l, "discard")
    /\ \A s \in discarded : InOneRegion(region, base[l] + s.va, s.size)
    /\ access' = SetPages(access,
                          UNION {SectionPages(l, s) : s \in discarded},
                          NotCommitted)
    /\ Goto(l, "register")
    /\ UNCHANGED <<moduleVars, cache, nested, region, tables, lost, fault>>

-----------------------------------------------------------------------------
(* initialize_dll and the hand-over to the OwnedPEModule *)

RegisterTable(l) ==
    /\ At(l, "register")
    /\ IF HasTable(l)
       THEN /\ tables[TablePage(l)] < MaxTables
            /\ tables' = [tables EXCEPT ![TablePage(l)] = @ + 1]
       ELSE UNCHANGED tables
    /\ Goto(l, "attach")
    /\ UNCHANGED <<moduleVars, cache, nested, memVars, lost, fault>>

\* TLS callbacks and DllMain with DLL_PROCESS_ATTACH and, if DllMain agreed,
\* with DLL_THREAD_ATTACH.  load_pe_module ignores the answer.
Attach(l) ==
    /\ At(l, "attach")
    /\ Direct /\ img[l].dynamic /\ Executable(EntryPage(l))
    /\ \E answer \in {"attached", "refused"} : dll' = [dll EXCEPT ![l] = answer]
    /\ Goto(l, "make_shared")
    /\ UNCHANGED <<img, base, blocks, held, cache, nested, memVars, tables,
                   lost, fault>>

\* assert(image.type() == ImageType::Dynamic)
AttachAsserts(l) ==
    /\ At(l, "attach")
    /\ Direct /\ ~ img[l].dynamic
    /\ fault' = "assertion"
    /\ UNCHANGED <<pc, moduleVars, cache, nested, memVars, tables, lost>>

\* The entry point is called whatever it is: an image that has none gives the
\* address of its headers.
AttachFaults(l) ==
    /\ At(l, "attach")
    /\ Direct /\ img[l].dynamic /\ ~ Executable(EntryPage(l))
    /\ fault' = "access violation"
    /\ UNCHANGED <<pc, moduleVars, cache, nested, memVars, tables, lost>>

\* Without direct addressing initialize_dll does nothing more.
AttachIndirect(l) ==
    /\ At(l, "attach")
    /\ ~ Direct
    /\ Goto(l, "make_shared")
    /\ UNCHANGED <<moduleVars, cache, nested, memVars, tables, lost, fault>>

MakeShared(l) ==
    /\ At(l, "make_shared")
    /\ blocks' = [blocks EXCEPT ![l] = @ \cup {"module"}]
    /\ Goto(l, "handover")
    /\ UNCHANGED <<img, base, cache, held, dll, nested, memVars, tables, lost,
                   fault>>

\* Mutant: image_mem stays the owner too.
HandOverForgotten(l) ==
    /\ At(l, "handover")
    /\ Goto(l, "return")
    /\ UNCHANGED <<moduleVars, cache, nested, memVars, tables, lost, fault>>

\* image_mem.release()
HandOver(l) ==
    /\ At(l, "handover")
    /\ blocks' = [blocks EXCEPT ![l] = @ \ {"local"}]
    /\ Goto(l, "return")
    /\ UNCHANGED <<img, base, cache, held, dll, nested, memVars, tables, lost,
                   fault>>

\* ~MemoryBlock of block b: the memory is released if the block owns it; an
\* exception in a destructor ends the process.
Dispose(l, b) ==
    LET owner == b \in blocks[l]
        released == owner /\ CanRelease(region, base[l])
    IN  /\ blocks' = [blocks EXCEPT ![l] = @ \ {b}]
        /\ base' = IF released /\ blocks[l] = {b}
                   THEN [base EXCEPT ![l] = Null] ELSE base
        /\ region' = IF released THEN Release(region, base[l]) ELSE region
        /\ access' = IF released THEN Uncommit(region, access, base[l]) ELSE access
        /\ fault' = IF owner /\ ~ released THEN "terminate" ELSE fault

\* The locals of load_pe_module go out of scope; the client has the module.
Return(l) ==
    /\ At(l, "return")
    /\ Dispose(l, "local")
    /\ held' = [held EXCEPT ![l] = TRUE]
    /\ Goto(l, "loaded")
    /\ UNCHANGED <<img, cache, dll, nested, tables, lost>>

-----------------------------------------------------------------------------
(* Exceptions *)

\* A call of the system fails, the provider has no such module or throws, the
\* image is malformed.
Throw(l) ==
    /\ fault = "none"
    /\ pc[l] \in {"allocate", "headers", "sections", "relocations", "imports",
                  "discard", "register"}
    /\ Goto(l, "unwind")
    /\ UNCHANGED <<moduleVars, cache, nested, memVars, tables, lost, fault>>

\* What a load leaves behind whose make_shared fails: nothing undoes
\* initialize_dll.
LeavesDll(l) ==
    /\ lost' = IF HasTable(l) THEN [lost EXCEPT ![TablePage(l)] = @ + 1] ELSE lost
    /\ dll' = [dll EXCEPT ![l] = IF @ = "attached" THEN "abandoned" ELSE @]

\* make_shared finds no memory.
MakeSharedThrows(l) ==
    /\ At(l, "make_shared")
    /\ LeavesDll(l)
    /\ Goto(l, "unwind")
    /\ UNCHANGED <<img, base, blocks, cache, held, nested, memVars, tables, fault>>

\* The constructor of OwnedPEModule throws, as the move of a ModuleCache may,
\* after its OwnedMemoryBlock was made: the block releases the memory, and
\* image_mem is left with its address.
ConstructorThrows(l) ==
    LET released == CanRelease(region, base[l]) IN
    /\ At(l, "make_shared")
    /\ LeavesDll(l)
    /\ region' = IF released THEN Release(region, base[l]) ELSE region
    /\ access' = IF released THEN Uncommit(region, access, base[l]) ELSE access
    /\ fault' = IF released THEN fault ELSE "terminate"
    /\ blocks' = [blocks EXCEPT ![l] = {}]
    /\ Goto(l, "unmake")
    /\ UNCHANGED <<img, base, cache, held, nested, tables>>

\* After the cache, which the constructor had as its argument, image_mem goes:
\* it releases what is now at its address.
ReleaseAgain(l) ==
    LET released == CanRelease(region, base[l]) IN
    /\ At(l, "release again")
    /\ region' = IF released THEN Release(region, base[l]) ELSE region
    /\ access' = IF released THEN Uncommit(region, access, base[l]) ELSE access
    /\ fault' = IF released THEN "foreign release" ELSE "terminate"
    /\ UNCHANGED <<pc, moduleVars, cache, nested, tables, lost>>

\* Mutant: an exception leaves the memory behind.
UnwindLeaks(l) ==
    /\ At(l, "unwind")
    /\ blocks' = [blocks EXCEPT ![l] = {}]
    /\ Goto(l, "uncache")
    /\ UNCHANGED <<img, base, cache, held, dll, nested, memVars, tables, lost,
                   fault>>

\* Mutant: a load that failed starts again.
UnwindRetries(l) ==
    /\ At(l, "unwind")
    /\ Dispose(l, "local")
    /\ Goto(l, "allocate")
    /\ UNCHANGED <<img, cache, held, dll, nested, tables, lost>>

\* image_mem is destroyed first, module_cache after it.
Unwind(l) ==
    /\ At(l, "unwind")
    /\ Dispose(l, "local")
    /\ Goto(l, "uncache")
    /\ UNCHANGED <<img, cache, held, dll, nested, tables, lost>>

-----------------------------------------------------------------------------
(* The module while it is loaded *)

\* find_symbol meets a forwarder: the module it names, or the lack of one,
\* stays in the ModuleCache.
FindForwarded(l, n, m) ==
    /\ At(l, "loaded")
    /\ n \in img[l].forwards
    /\ cache[l][n] = Absent
    /\ m \in Answers(l) \cup {NoModule}
    /\ cache' = [cache EXCEPT ![l][n] = m]
    /\ UNCHANGED <<pc, moduleVars, nested, memVars, tables, lost, fault>>

\* Mutant: the destructor of the module does not call deinitialize_dll.
ClientDropSilently(l) ==
    /\ At(l, "loaded")
    /\ held[l]
    /\ held' = [held EXCEPT ![l] = FALSE]
    /\ IF Referenced(l, held', cache)
       THEN UNCHANGED pc
       ELSE Goto(l, "dropcache")
    /\ nested' = [nested EXCEPT ![l] = l]
    /\ UNCHANGED <<img, base, blocks, cache, dll, memVars, tables, lost, fault>>

\* The client drops its shared_ptr; the last one runs ~OwnedPEModule.
ClientDrop(l) ==
    /\ At(l, "loaded")
    /\ held[l]
    /\ held' = [held EXCEPT ![l] = FALSE]
    /\ IF Referenced(l, held', cache)
       THEN UNCHANGED pc
       ELSE Goto(l, "detach")
    /\ nested' = [nested EXCEPT ![l] = l]
    /\ UNCHANGED <<img, base, blocks, cache, dll, memVars, tables, lost, fault>>

-----------------------------------------------------------------------------
(* ~OwnedPEModule: deinitialize_dll, then the members in reverse order *)

\* DLL_THREAD_DETACH and DLL_PROCESS_DETACH, whatever DllMain answered before.
Detach(l) ==
    /\ At(l, "detach")
    /\ fault' = IF Direct /\ ~ Executable(EntryPage(l))
                THEN "access violation" ELSE fault
    /\ dll' = [dll EXCEPT ![l] = "detached"]
    /\ Goto(l, "deregister")
    /\ UNCHANGED <<img, base, blocks, held, cache, nested, memVars, tables, lost>>

\* Mutant: the exception table stays registered.
DeregisterForgotten(l) ==
    /\ At(l, "deregister")
    /\ Goto(l, "dropcache")
    /\ UNCHANGED <<moduleVars, cache, nested, memVars, tables, lost, fault>>

\* If RtlDeleteFunctionTable does not know the table, the destructor throws.
Deregister(l) ==
    LET known == HasTable(l) /\ tables[TablePage(l)] > 0 IN
    /\ At(l, "deregister")
    /\ tables' = IF known THEN [tables EXCEPT ![TablePage(l)] = @ - 1] ELSE tables
    /\ fault' = IF HasTable(l) /\ ~ known THEN "terminate" ELSE fault
    /\ Goto(l, "dropcache")
    /\ UNCHANGED <<moduleVars, cache, nested, memVars, lost>>

\* Mutant: the last reference goes without a destructor.
DropEntryForgets(l, n) ==
    /\ fault = "none"
    /\ pc[l] \in {"uncache", "dropcache", "unmake"}
    /\ ~ Busy(l)
    /\ cache[l][n] # Absent
    /\ cache' = [cache EXCEPT ![l][n] = Absent]
    /\ UNCHANGED <<pc, nested, moduleVars, memVars, tables, lost, fault>>

\* ~ModuleCache drops one of its shared_ptrs; if it was the last one to its
\* module, this thread runs that module's destructor before it goes on.
DropEntry(l, n) ==
    LET m == cache[l][n] IN
    /\ fault = "none"
    /\ pc[l] \in {"uncache", "dropcache", "unmake"}
    /\ ~ Busy(l)
    /\ m # Absent
    /\ cache' = [cache EXCEPT ![l][n] = Absent]
    /\ IF m \in Loads /\ ~ Referenced(m, held, cache')
       THEN Goto(m, "detach") /\ nested' = [nested EXCEPT ![m] = l]
       ELSE UNCHANGED <<pc, nested>>
    /\ UNCHANGED <<moduleVars, memVars, tables, lost, fault>>

CacheGone(l) ==
    /\ fault = "none"
    /\ ~ Busy(l)
    /\ \A n \in Names : cache[l][n] = Absent
    /\ \/ pc[l] = "uncache" /\ Goto(l, "idle")
       \/ pc[l] = "unmake" /\ Goto(l, "release again")
       \/ pc[l] = "dropcache" /\ Goto(l, "unmap")
    /\ UNCHANGED <<moduleVars, cache, nested, memVars, tables, lost, fault>>

Unmap(l) ==
    /\ At(l, "unmap")
    /\ Dispose(l, "module")
    /\ Goto(l, "idle")
    /\ nested' = [nested EXCEPT ![l] = l]
    /\ UNCHANGED <<img, cache, held, dll, tables, lost>>

-----------------------------------------------------------------------------

\* load_module until it returns or its exception reaches the caller.
LoadStep(l) ==
    \/ \E mem \in Page : Allocate(l, mem)
    \/ CopyHeaders(l) \/ MapSections(l) \/ Relocate(l)
    \/ \E n \in Names, m \in Answers(l) : ResolveImport(l, n, m)
    \/ ApplyPermissions(l) \/ RemoveDiscardable(l)
    \/ RegisterTable(l)
    \/ Attach(l) \/ AttachAsserts(l) \/ AttachFaults(l) \/ AttachIndirect(l)
    \/ MakeShared(l) \/ HandOver(l) \/ Return(l)
    \/ Throw(l) \/ MakeSharedThrows(l) \/ Unwind(l)
    \/ ConstructorThrows(l) \/ ReleaseAgain(l)

\* The destructors.
UnloadStep(l) ==
    \/ Detach(l) \/ Deregister(l)
    \/ \E n \in Names : DropEntry(l, n)
    \/ CacheGone(l) \/ Unmap(l)

Step(l) == LoadStep(l) \/ UnloadStep(l)

\* What the library is asked to do.
ClientStep(l) ==
    \/ LoadModule(l)
    \/ \E n \in Names, m \in Answers(l) \cup {NoModule} : FindForwarded(l, n, m)
    \/ ClientDrop(l)

Next == \E l \in Loads : Step(l) \/ ClientStep(l)

Spec == Init /\ [][Next]_vars

\* A thread that is inside load_module or a destructor runs on; nobody has to
\* load, use or drop a module.
Fairness == \A l \in Loads : WF_vars(Step(l))

FairSpec == Spec /\ Fairness

-----------------------------------------------------------------------------
(* Properties *)

\* What can end the process: initialize_dll calls what is no DllMain, since the
\* image is no DLL or its entry point is not in a page that can be executed; or
\* the constructor of OwnedPEModule threw, and image_mem releases memory that
\* the module's block has released. No other destructor throws or releases what
\* is not its own, be it of a MemoryBlock or of an OwnedPEModule, and DllMain of
\* a module that was loaded can be called when it is unloaded.
FaultsExplained ==
    /\ fault \in {"assertion", "access violation"} =>
          \E l \in Loads :
              /\ pc[l] = "attach"
              /\ ~ img[l].dynamic \/ ~ Executable(EntryPage(l))
    /\ fault \in {"terminate", "foreign release"} =>
          \E l \in Loads : pc[l] = "release again"

\* No load has released the memory of another one: what the properties below
\* say of memory they say up to that step.
Intact == fault # "foreign release"

\* invoke_dll_entry_point_direct asserts image.type() == ImageType::Dynamic;
\* nothing before it has looked at the type.
DllMainOnlyOfDlls == fault # "assertion"

\* Every reservation belongs to exactly one load, which will release it: it
\* starts at the load's base, has the extent of its image, and no two loads
\* share it (OwnedMemoryBlock, across the hand-over to the module and every
\* exception; a constructor that throws with two owners leaves an image_mem
\* that is none of them).
Owned ==
    /\ \A p \in Page :
          region[p] # Null => \E l \in Loads : blocks[l] # {} /\ base[l] = region[p]
    /\ \A l \in Loads :
          blocks[l] # {} => Extent(l) = {p \in Page : region[p] = base[l]}
    /\ \A l, k \in Loads :
          l # k /\ blocks[l] # {} /\ blocks[k] # {} => Extent(l) \cap Extent(k) = {}

MemoryOwned == Intact => Owned

\* A module is loaded as long as an importer may call into it: whatever a
\* ModuleCache holds has not even begun to be unloaded.
ImportsOutliveImporter ==
    \A l \in Loads, n \in Names :
        cache[l][n] \in Loads => pc[cache[l][n]] = "loaded"

\* A loaded module is held by somebody, who can drop it: none is forgotten by
\* load_module or by a ModuleCache.
NoForgottenModule ==
    \A m \in Loads : pc[m] = "loaded" => Referenced(m, held, cache)

\* The loads whose exception table the system knows.
Registered == {"attach", "make_shared", "handover", "return", "loaded",
               "detach", "deregister"}

\* The exception tables the system knows are those of the modules that are
\* there, each as often as it was registered, and those a failed make_shared
\* left behind.
TablesBacked ==
    \A p \in Page :
        tables[p] = lost[p] + Cardinality(
            {l \in Loads : /\ HasTable(l) /\ pc[l] \in Registered
                           /\ TablePage(l) = p})

\* From the moment it can be called until its memory is released, the pages of
\* a module are as its sections declare: discardable ones not committed, those
\* in no section committed only if they hold headers. A section that is not
\* readable is not accessible at all, whatever else it declares.
PagesAsDeclared ==
    \A l \in Loads :
        Intact /\ pc[l] \in Registered \cup {"register", "dropcache", "unmap"} =>
            \A p \in Extent(l) :
                \/ \E s \in img[l].sections :
                      /\ p \in SectionPages(l, s)
                      /\ access[p] = IF s.discardable THEN NotCommitted
                                     ELSE {r \in s.rights : "read" \in s.rights}
                \/ /\ \A s \in img[l].sections : p \notin SectionPages(l, s)
                   /\ access[p] = IF p \in Span(base[l], img[l].headers)
                                  THEN ReadWrite ELSE NotCommitted

\* A DLL that was told it is attached can be called until it is told otherwise,
\* and has all it imported: its DllMain comes before the release of imports and
\* of memory. One that a failed make_shared abandoned is never told, and loses
\* both.
AttachedIsCallable ==
    \A l \in Loads :
        Intact /\ dll[l] = "attached" =>
            /\ pc[l] # "idle" /\ Executable(EntryPage(l))
            /\ \A n \in img[l].imports : cache[l][n] # Absent

\* A load, or a destructor, changes no page of another module.
LeavesOthersAlone(l) ==
    pc'[l] = pc[l] =>
        \A p \in Page :
            blocks[l] # {} /\ region[p] = base[l] =>
                region'[p] = region[p] /\ access'[p] = access[p]

EachLeavesOthersAlone == \A l \in Loads : LeavesOthersAlone(l)

Isolation == [][Intact' => EachLeavesOthersAlone]_vars

\* A call of load_module comes to an end, whatever other loads do, unless the
\* process does before it.
LoadsSettle ==
    \A l \in Loads :
        pc[l] = "allocate" ~> pc[l] \in {"loaded", "idle"} \/ fault # "none"

\* Once no module is held by the client and no load is running, all of them are
\* unloaded, importers first, if they do not import each other in a circle.
\* While there are loads, importers can pass a module on among them for ever.
Quiet == \A l \in Loads : ~ held[l] /\ pc[l] \notin Loading

DroppedModulesAreUnloaded == <>[]Quiet => <>[](\A l \in Loads : pc[l] = "idle")

\* The state of ModuleLifecycle a state of the loader stands for.
LifecyclePhase ==
    [l \in Loads |-> CASE pc[l] = "idle" -> "absent"
                       [] pc[l] \in Loading -> "loading"
                       [] pc[l] = "loaded" -> "ready"
                       [] pc[l] \in Unloading -> "retiring"]

OwnersOf(mem) == {l \in Loads : blocks[l] # {} /\ base[l] = mem}

LifecycleSpace ==
    [p \in Page |-> IF OwnersOf(region[p]) = {} THEN NoModule
                    ELSE CHOOSE l \in Loads : l \in OwnersOf(region[p])]

LifecycleUses ==
    {use \in Loads \X Loads : \E n \in Names : cache[use[1]][n] = use[2]}

Lifecycle == INSTANCE ModuleLifecycle WITH
    Nobody <- NoModule,
    phase <- LifecyclePhase,
    space <- LifecycleSpace,
    uses <- LifecycleUses

\* Every step of the loader, but the release of another load's memory, is a step
\* of ModuleLifecycle or changes nothing in it: a module becomes ready with pages
\* of its own, is used only then, retires when nobody uses it, and leaves
\* nothing.
ImplementsLifecycle ==
    Lifecycle!Init /\ [][Intact' => Lifecycle!Next]_(Lifecycle!lifecycleVars)

=============================================================================
