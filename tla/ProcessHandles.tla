--------------------------- MODULE ProcessHandles ---------------------------
(***************************************************************************)
(* Processes other than the current one: the handles LocalProcess objects  *)
(* own, and the memory that OwnedMemoryBlocks own through them in a        *)
(* process that may exit when it likes.  A handle is a number, which the   *)
(* system uses again once it was closed; the object, its memory manager    *)
(* and a client may each still have it.                                    *)
(*                                                                         *)
(* open_process asks for fewer rights than the constructor of LocalProcess *)
(* needs.  A handle that was opened with all of them, by code inside of    *)
(* the library, is therefore an input of this module too: at this commit   *)
(* it is the only way to an object.                                        *)
(*                                                                         *)
(* A definition introduced by "Mutant:" is the one after it with a bug.    *)
(***************************************************************************)
EXTENDS FiniteSets

CONSTANTS
    Others,     \* processes other than the current one
    Handles,    \* the values of handles
    Objects,    \* LocalProcess objects
    Places,     \* where memory can be reserved in a process
    None,       \* no object; no block
    Null,       \* the null handle
    Closed      \* the handle is not in use

ASSUME HandlesAssumption ==
    /\ Null \notin Handles
    /\ None \notin [handle : Handles \cup {Null},
                    manager : Handles \cup {Null}, process : Others]
    /\ None \notin [object : Objects, handle : Handles, process : Others,
                    place : Places]
    /\ Closed \notin [process : Others, rights : SUBSET {"operate", "thread", "query"}]

VARIABLES
    running,    \* the processes that have not exited
    table,      \* of each handle: the process it is of, and the rights
    object,     \* of each LocalProcess: _handle, _memory_manager's _handle,
                \* and the process it was made for
    memory,     \* the places reserved in each process
    blocks,     \* OwnedMemoryBlocks: the object of their _memory_manager, and
                \* of the allocation the handle, the process and the place
    lost,       \* handles nobody will close
    failed      \* the block whose destructor ended the program, or released
                \* memory of another process: nothing is said of what comes
                \* after that

vars == <<running, table, object, memory, blocks, lost, failed>>

Rights == {"operate", "thread", "query"}

\* PROCESS_VM_OPERATION and PROCESS_CREATE_THREAD
AskedRights == {"operate", "thread"}

LocalProcess == [handle : Handles \cup {Null}, manager : Handles \cup {Null},
                 process : Others]

MemoryBlock == [object : Objects, handle : Handles, process : Others,
                place : Places]

TypeOK ==
    /\ running \subseteq Others
    /\ table \in [Handles -> [process : Others, rights : SUBSET Rights] \cup {Closed}]
    /\ object \in [Objects -> LocalProcess \cup {None}]
    /\ memory \in [Others -> SUBSET Places]
    /\ blocks \subseteq MemoryBlock
    /\ lost \subseteq Handles
    /\ failed \in MemoryBlock \cup {None}

Init ==
    /\ running = Others
    /\ table = [h \in Handles |-> Closed]
    /\ object = [o \in Objects |-> None]
    /\ memory = [p \in Others |-> {}]
    /\ blocks = {}
    /\ lost = {}
    /\ failed = None

-----------------------------------------------------------------------------
(* LocalProcess *)

\* OpenProcess, and a LocalProcess made of the handle.  Its constructor throws
\* when IsWow64Process2 may not query, when it does not know the machine, or
\* when there is no memory for it; no destructor runs then.
OpenProcess(p, h, rights, o) ==
    /\ p \in running /\ table[h] = Closed /\ object[o] = None
    /\ table' = [table EXCEPT ![h] = [process |-> p, rights |-> rights]]
    /\ \/ /\ "query" \in rights
          /\ object' = [object EXCEPT ![o] =
                           [handle |-> h, manager |-> h, process |-> p]]
          /\ UNCHANGED lost
       \/ /\ lost' = lost \cup {h}
          /\ UNCHANGED object
    /\ UNCHANGED <<running, memory, blocks, failed>>

InUse(o) == \E b \in blocks : b.object = o

\* Mutant: the object that was moved from keeps its handle.
MovedAndKept(from) == from

\* Mutant: the manager of the object that was moved from is reset, too.
MovedWhole(from) == [from EXCEPT !.handle = Null, !.manager = Null]

\* Mutant: it is left with what is neither a handle nor null.
MovedInvalid(from) == [from EXCEPT !.handle = Closed]

MovedFrom(from) == [from EXCEPT !.handle = Null]

\* The object that was moved from, be it once or more often, is still there, and
\* the blocks that refer to its manager use it.
Move(o, q) ==
    /\ object[o] # None /\ object[q] = None
    /\ object' = [object EXCEPT
                     ![o] = MovedFrom(object[o]),
                     ![q] = [object[o] EXCEPT !.manager = object[o].handle]]
    /\ UNCHANGED <<running, table, memory, blocks, lost, failed>>

\* Mutant: the handle is left open.
HandleKept(o) == table

\* The handle table after ~LocalProcess.
CloseHandle(o) ==
    IF object[o].handle # Null
    THEN [table EXCEPT ![object[o].handle] = Closed]
    ELSE table

\* The client destroys an object to whose manager no memory block refers.
Destroy(o) ==
    /\ object[o] # None /\ ~InUse(o)
    /\ table' = CloseHandle(o)
    /\ object' = [object EXCEPT ![o] = None]
    /\ UNCHANGED <<running, memory, blocks, lost, failed>>

-----------------------------------------------------------------------------
(* LocalProcessMemory, and the blocks of memory *)

\* What VirtualAllocEx and VirtualFreeEx need of the handle.
Reaches(h, p) ==
    /\ h # Null /\ table[h] # Closed
    /\ table[h].process = p /\ "operate" \in table[h].rights
    /\ p \in running

\* Through the manager of an object, whatever the object was made for: its
\* handle may have been closed, and used again for another process. Where no
\* process is reached, allocate throws, and there is no block.
Allocate(o, p, place) ==
    /\ object[o] # None
    /\ Reaches(object[o].manager, p)
    /\ place \notin memory[p]
    /\ memory' = [memory EXCEPT ![p] = @ \cup {place}]
    /\ blocks' = blocks \cup {[object |-> o, handle |-> object[o].manager,
                               process |-> p, place |-> place]}
    /\ UNCHANGED <<running, table, object, lost, failed>>

\* ~MemoryBlock: the memory of the process the manager reaches now.
Release(b, p) ==
    /\ b \in blocks
    /\ Reaches(object[b.object].manager, p)
    /\ b.place \in memory[p]
    /\ memory' = [memory EXCEPT ![p] = @ \ {b.place}]
    /\ blocks' = blocks \ {b}
    /\ failed' = IF p = b.process THEN failed ELSE b
    /\ UNCHANGED <<running, table, object, lost>>

\* release throws inside of a destructor: std::terminate.
ReleaseThrows(b) ==
    /\ b \in blocks
    /\ \A p \in Others : Reaches(object[b.object].manager, p) => b.place \notin memory[p]
    /\ failed' = b
    /\ UNCHANGED <<running, table, object, memory, blocks, lost>>

\* The process ends, and its memory with it.
Exit(p) ==
    /\ p \in running
    /\ running' = running \ {p}
    /\ memory' = [memory EXCEPT ![p] = {}]
    /\ UNCHANGED <<table, object, blocks, lost, failed>>

Next ==
    /\ failed = None
    /\ \/ \E p \in Others, h \in Handles, rights \in {AskedRights, Rights}, o \in Objects :
             OpenProcess(p, h, rights, o)
       \/ \E o, q \in Objects : Move(o, q)
       \/ \E o \in Objects : Destroy(o)
       \/ \E o \in Objects, p \in Others, place \in Places : Allocate(o, p, place)
       \/ \E b \in blocks, p \in Others : Release(b, p)
       \/ \E b \in blocks : ReleaseThrows(b)
       \/ \E p \in Others : Exit(p)

Spec == Init /\ [][Next]_vars

-----------------------------------------------------------------------------
(* Properties *)

\* The objects that would close this handle.
OwnersOf(h) == {o \in Objects : object[o] # None /\ object[o].handle = h}

\* A handle that is open will be closed once: it has one owner, of its own
\* process, or it is one that a constructor lost when it threw.  A handle that
\* is closed has none, so no destructor ever closes a handle the system has
\* given to somebody else in the meantime.
HandlesOwned ==
    \A h \in Handles :
        IF table[h] = Closed \/ h \in lost
        THEN OwnersOf(h) = {}
        ELSE \E o \in Objects : /\ OwnersOf(h) = {o}
                                /\ object[o].process = table[h].process

\* Some LocalProcess of the process that block b is in owns the handle it was
\* allocated through: the one it was allocated with, one that was moved from it,
\* or one that was given the same handle later.
Backed(b) ==
    \E o \in Objects : /\ object[o] # None /\ object[o].handle = b.handle
                       /\ object[o].process = b.process

\* As long as that is so, and its process runs, a block can be released: the
\* manager it refers to reaches that process, although the object of the manager
\* may have been moved from, and handles are closed and used again; and the
\* memory is there. No two blocks ever have the same memory.
BlocksReachTheirProcess ==
    \A b \in blocks :
        /\ object[b.object] # None
        /\ failed = None /\ Backed(b) /\ b.process \in running =>
              /\ Reaches(object[b.object].manager, b.process)
              /\ b.place \in memory[b.process]
        /\ \A c \in blocks : c.process = b.process /\ c.place = b.place => c = b

\* The release of a block fails, which ends the program, or meets the memory of
\* another process, only after the end of its own process or after the
\* destruction of the last LocalProcess that owned its handle. A block does not
\* keep that one alive: it refers to the manager of the object it was allocated
\* with, and that object may have been moved from.
FailuresExplained ==
    failed # None => failed.process \notin running \/ ~Backed(failed)

=============================================================================
