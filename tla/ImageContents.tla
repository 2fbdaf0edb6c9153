--------------------------- MODULE ImageContents ---------------------------
(***************************************************************************)
(* What is in the memory of an image: the headers and the sections, which  *)
(* load_pe_image copies from a MappedFile, and Relocation after them.  The *)
(* file may be shorter than its headers say.  image.contents is what they  *)
(* declare, so the properties of Relocation are about both parts together. *)
(*                                                                         *)
(* A memory manager that allows direct addressing reads the file into the  *)
(* image; through another one the data goes by way of a buffer, which all  *)
(* sections share, and no relocation is ever made.                         *)
(***************************************************************************)
EXTENDS Relocation

FileSize(i) == Cardinality(DOMAIN i.file)

\* The sections that have data in the file for this cell.
SourcesOf(i, c) ==
    {k \in DOMAIN i.sections :
        LET s == i.sections[k] IN
        c \in s.va .. (s.va + s.rsize - 1) /\ s.raw + c - s.va < FileSize(i)}

\* What the headers of image i declare of its cells: data where the file has
\* it, the last section's when there are several, and otherwise zero.
Declared(i) ==
    [c \in 0 .. (i.size - 1) |->
        IF SourcesOf(i, c) # {}
        THEN LET s == i.sections[Max(SourcesOf(i, c))] IN i.file[s.raw + c - s.va]
        ELSE IF c < i.headers /\ c < FileSize(i) THEN i.file[c] ELSE 0]

\* va, vsize: virtual_address and virtual_size; raw, rsize: pointer_to_raw_data
\* and size_of_raw_data.
Section == [va : 0 .. (SizeLimit - 1), vsize : 0 .. (SizeLimit - 1),
            raw : 0 .. (SizeLimit - 1), rsize : 0 .. (SizeLimit - 1)]

ASSUME FilesAssumption ==
    \A i \in Images :
        /\ \E n \in 0 .. (SizeLimit - 1) : i.file \in [0 .. (n - 1) -> Digit]
        /\ i.headers \in 0 .. (SizeLimit - 1)
        /\ i.sections \in Seq(Section)
        /\ i.contents = Declared(i)

VARIABLES
    direct,    \* allows_direct_addressing(), of the manager
    left,      \* the sections the loop has not come to
    buffer,    \* rdata_buf
    committed, \* the cells whose pages are committed
    fetched    \* the places read from the file

mappingVars == <<direct, left, buffer, committed, fetched>>

ContentsTypeOK ==
    /\ TypeOK
    /\ direct \in BOOLEAN
    /\ left \in Seq(Section)
    /\ buffer \in [0 .. (Cardinality(DOMAIN buffer) - 1) -> Digit]
    /\ committed \subseteq Cells
    /\ fetched \subseteq Nat

Zeros(size) == [i \in 0 .. (size - 1) |-> 0]

ContentsInit ==
    /\ image \in Images
    /\ base \in Bases
    /\ mem = Zeros(image.size)
    /\ todo = image.blocks
    /\ entries = <<>>
    /\ slice = NoSlice
    /\ touched = {}
    /\ stage = "headers"
    /\ direct \in BOOLEAN
    /\ left = image.sections
    /\ buffer = Zeros(0)
    /\ committed = {}
    /\ fetched = {}

-----------------------------------------------------------------------------
(* The file and the memory *)

\* Mutant: what is left of the file does not matter.
FileCellsUnclipped(offset, size) == offset .. (offset + size - 1)

\* MappedFile::read: the places it copies from.
FileCells(offset, size) ==
    offset .. (offset + Clipped(FileSize(image), offset, size) - 1)

\* Behind the end of the file there is nothing that may be read.
InFile(offset, size) == FileCells(offset, size) \subseteq DOMAIN image.file

\* The buffer with the bytes of a read at its start; a read that was cut short
\* leaves the rest as it was.
ReadInto(into, offset, size) ==
    [i \in DOMAIN into |->
        IF offset + i \in FileCells(offset, size) \cap DOMAIN image.file
        THEN image.file[offset + i] ELSE into[i]]

\* commit: of the pages of the image, and of at least one.
CanCommit(first, size) == size > 0 /\ first + size <= image.size

PagesOf(first, size) ==
    {c \in Cells : c \div PageSize \in
        (first \div PageSize) .. ((first + size - 1) \div PageSize)}

\* The bytes from offset on, at these cells of the memory.
Store(bytes, first) ==
    mem' = [c \in Cells |-> IF c - first \in DOMAIN bytes THEN bytes[c - first]
                                                          ELSE mem[c]]

Stop(how) ==
    /\ stage' = how
    /\ UNCHANGED <<image, base, mem, todo, entries, slice, touched, mappingVars>>

\* The data of a range of the image was copied.
Copied(bytes, first, committedNow, read) ==
    /\ Store(bytes, first)
    /\ committed' = committedNow
    /\ fetched' = fetched \cup read
    /\ UNCHANGED <<image, base, todo, entries, slice, touched, direct>>

-----------------------------------------------------------------------------
(* copy_pe_image_headers *)

HeadersRefused ==
    /\ stage = "headers"
    /\ ~CanCommit(0, image.headers)
    /\ Stop("refused")

CopyHeaders ==
    /\ stage = "headers"
    /\ CanCommit(0, image.headers)
    /\ Copied(ReadInto(Zeros(image.headers), 0, image.headers), 0,
              PagesOf(0, image.headers), FileCells(0, image.headers))
    /\ stage' = "sections"
    /\ UNCHANGED <<left, buffer>>

-----------------------------------------------------------------------------
(* map_pe_image_sections *)

\* Mutant: data is looked for where it goes in memory.
VirtualPlace(s) == s.va

FilePlace(s) == s.raw

CommittedWith(s) == committed \cup PagesOf(s.va, s.vsize)

\* "Invalid section header"; and commit may throw.
SectionRefused ==
    /\ stage = "sections" /\ left # <<>>
    /\ LET s == Head(left) IN
       \/ direct /\ (image.size - s.va) % SizeLimit < s.rsize
       \/ (direct \/ InFile(FilePlace(s), s.rsize)) /\ ~CanCommit(s.va, s.vsize)
    /\ Stop("refused")

Accepted(s) ==
    /\ direct => (image.size - s.va) % SizeLimit >= s.rsize
    /\ CanCommit(s.va, s.vsize)

\* The read leaves the file, or memory that is committed.
SectionFaults ==
    /\ stage = "sections" /\ left # <<>>
    /\ LET s == Head(left)
           n == Cardinality(FileCells(FilePlace(s), s.rsize))
       IN  \/ ~InFile(FilePlace(s), s.rsize) /\ (direct => Accepted(s))
           \/ /\ direct /\ Accepted(s)
              /\ ~(s.va .. (s.va + n - 1) \subseteq CommittedWith(s))
    /\ Stop("faulted")

MapSectionDirect ==
    /\ stage = "sections" /\ direct /\ left # <<>>
    /\ LET s == Head(left)
           read == FileCells(FilePlace(s), s.rsize)
           bytes == ReadInto(Zeros(Cardinality(read)), FilePlace(s), s.rsize)
       IN  /\ Accepted(s)
           /\ InFile(FilePlace(s), s.rsize)
           /\ s.va .. (s.va + Cardinality(read) - 1) \subseteq CommittedWith(s)
           /\ Copied(bytes, s.va, CommittedWith(s), read)
    /\ left' = Tail(left)
    /\ UNCHANGED <<buffer, stage>>

\* rdata_buf after resize.
Resized(bytes, size) ==
    [i \in 0 .. (size - 1) |-> IF i \in DOMAIN bytes THEN bytes[i] ELSE 0]

\* Its first bytes, as many as are left of the image.
WrittenOf(bytes, s) ==
    Resized(bytes, Clipped(image.size, s.va, Cardinality(DOMAIN bytes)))

BufferOf(s) == ReadInto(Resized(buffer, s.rsize), FilePlace(s), s.rsize)

MapSectionIndirect ==
    /\ stage = "sections" /\ ~direct /\ left # <<>>
    /\ LET s == Head(left)
           read == FileCells(FilePlace(s), s.rsize)
           bytes == WrittenOf(BufferOf(s), s)
       IN  /\ Accepted(s)
           /\ InFile(FilePlace(s), s.rsize)
           /\ {s.va + i : i \in DOMAIN bytes} \subseteq CommittedWith(s)
           /\ Copied(bytes, s.va, CommittedWith(s), read)
           /\ buffer' = BufferOf(s)
    /\ left' = Tail(left)
    /\ UNCHANGED stage

\* WriteProcessMemory does not write to pages that are not committed.
WriteRefused ==
    /\ stage = "sections" /\ ~direct /\ left # <<>>
    /\ LET s == Head(left) IN
       /\ Accepted(s) /\ InFile(FilePlace(s), s.rsize)
       /\ ~({s.va + i : i \in DOMAIN WrittenOf(BufferOf(s), s)} \subseteq CommittedWith(s))
    /\ Stop("refused")

-----------------------------------------------------------------------------
(* apply_pe_image_relocations *)

StartRelocating ==
    /\ stage = "sections" /\ left = <<>> /\ direct
    /\ Stop("relocating")

\* copy_into_local_memory reads into memory that is reserved and no more, and
\* throws for the first block.
RelocateIndirect ==
    /\ stage = "sections" /\ left = <<>> /\ ~direct
    /\ Stop(IF image.blocks = <<>> THEN "mapped" ELSE "refused")

TouchesCommitted ==
    stage = "relocating" /\ entries # <<>> /\ Head(entries).kind \in {"highlow", "dir64"}
        => ReadCells(Head(entries)) \subseteq committed

RelocationFaults ==
    /\ ~TouchesCommitted
    /\ touched' = touched \cup ReadCells(Head(entries))
    /\ stage' = "faulted"
    /\ UNCHANGED <<image, base, mem, todo, entries, slice, mappingVars>>

Relocate ==
    /\ TouchesCommitted
    /\ Next
    /\ UNCHANGED mappingVars

ContentsNext ==
    \/ HeadersRefused \/ CopyHeaders
    \/ SectionRefused \/ SectionFaults
    \/ MapSectionDirect \/ MapSectionIndirect \/ WriteRefused
    \/ StartRelocating \/ RelocateIndirect
    \/ RelocationFaults \/ Relocate

ContentsSpec == ContentsInit /\ [][ContentsNext]_<<vars, mappingVars>>

-----------------------------------------------------------------------------
(* Properties *)

\* The cells of sections that the file is too short for.
CutOff ==
    {c \in Cells : \E k \in DOMAIN image.sections :
        LET s == image.sections[k] IN
        c \in s.va .. (s.va + s.rsize - 1) /\ s.raw + c - s.va >= FileSize(image)}

\* Once it is mapped, and before anything is relocated, the image is what its
\* headers declare, whatever the order, the sizes and the clipping of copies.
\* By way of the buffer a section that was cut off has something else at its
\* end: the data of the section before it.
MappedAsDeclared ==
    stage \in {"relocating", "mapped"} /\ touched = {} =>
        \A c \in Cells : mem[c] = image.contents[c] \/ (~direct /\ c \in CutOff)

WellFormed ==
    \A k \in DOMAIN image.sections :
        LET s == image.sections[k] IN
        /\ s.raw <= FileSize(image)
        /\ s.rsize > 0 => \E j \in 1 .. k :
              s.va .. (s.va + s.rsize - 1) \subseteq
                  PagesOf(image.sections[j].va, image.sections[j].vsize)

\* A file may end anywhere inside the data of its sections: nothing faults
\* while its sections are mapped, unless the data of one of them begins behind
\* the end or is longer than the pages it is for; and no read leaves the file.
ReadsStayInFile ==
    /\ fetched \subseteq DOMAIN image.file
    /\ stage = "faulted" /\ left # <<>> => ~WellFormed

=============================================================================
