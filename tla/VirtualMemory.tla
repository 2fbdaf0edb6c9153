--------------------------- MODULE VirtualMemory ---------------------------
(***************************************************************************)
(* The address space a MemoryManager hands out, page by page, as           *)
(* CurrentProcessMemory and LocalProcessMemory obtain it from VirtualAlloc *)
(* and its relatives.  A page table is a pair of functions on Page:        *)
(*                                                                         *)
(*   region[p]  the first page of the reservation p belongs to, or Null    *)
(*   access[p]  what may be done with p, or NotCommitted                   *)
(*                                                                         *)
(* The operators are the effect of each call and, under Can..., the        *)
(* condition without which the call fails and the manager throws.          *)
(*                                                                         *)
(* A definition introduced by "Mutant:" is the one after it with a bug.    *)
(***************************************************************************)
EXTENDS Integers

CONSTANT LastPage   \* the number of the last page of the address space

ASSUME LastPageAssumption == LastPage \in Nat \ {0}

Page == 1 .. LastPage

Null == 0   \* the null pointer: no reservation, or no preferred address

Span(mem, size) == mem .. (mem + size - 1)

(***************************************************************************)
(* Page protections.  A committed page has a set of rights, {} being       *)
(* PAGE_NOACCESS; NotCommitted is no set of rights.                        *)
(***************************************************************************)
Right == {"read", "write", "execute"}

NotCommitted == {"reserved"}

ReadWrite == {"read", "write"}

Protection == (SUBSET Right) \cup {NotCommitted}

\* memory_access_to_win32: without ReadAccess the page becomes inaccessible,
\* whatever else was asked for.
Win32Access(rights) == IF "read" \in rights THEN rights ELSE {}

-----------------------------------------------------------------------------

\* VirtualAlloc(mem, size, MEM_RESERVE, PAGE_NOACCESS)
CanReserve(region, mem, size) ==
    /\ Span(mem, size) \subseteq Page
    /\ \A p \in Span(mem, size) : region[p] = Null

Reserve(region, mem, size) ==
    [p \in Page |-> IF p \in Span(mem, size) THEN mem ELSE region[p]]

\* VirtualFree(mem, 0, MEM_RELEASE): mem has to be what VirtualAlloc returned.
CanRelease(region, mem) == mem \in Page /\ region[mem] = mem

Release(region, mem) ==
    [p \in Page |-> IF region[p] = mem THEN Null ELSE region[p]]

\* Mutant: a released page is marked as free in its protection.
UncommitToFree(region, access, mem) ==
    [p \in Page |-> IF region[p] = mem THEN {"free"} ELSE access[p]]

\* A released page keeps no protection.
Uncommit(region, access, mem) ==
    [p \in Page |-> IF region[p] = mem THEN NotCommitted ELSE access[p]]

\* VirtualAlloc(mem, size, MEM_COMMIT, PAGE_READWRITE) and VirtualFree(mem,
\* size, MEM_DECOMMIT): a non-empty range inside one reservation.
InOneRegion(region, mem, size) ==
    /\ size > 0
    /\ Span(mem, size) \subseteq Page
    /\ region[mem] # Null
    /\ \A p \in Span(mem, size) : region[p] = region[mem]

\* VirtualProtect(mem, size, ...): every page of the range committed.
CanProtect(region, access, mem, size) ==
    /\ InOneRegion(region, mem, size)
    /\ \A p \in Span(mem, size) : access[p] # NotCommitted

SetPages(access, pages, protection) ==
    [p \in Page |-> IF p \in pages THEN protection ELSE access[p]]

=============================================================================
