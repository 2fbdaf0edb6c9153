----------------------------- MODULE Relocation -----------------------------
(***************************************************************************)
(* apply_pe_image_relocations_direct: what the relocation directory of an  *)
(* image does to the contents of its memory, with the MemoryBlocks it goes *)
(* through.  PELoader!Relocate is this whole module in one step.           *)
(*                                                                         *)
(* Memory is a sequence of cells, numbered from the start of the image,    *)
(* which hold digits of base Radix.  A value is little-endian; one of      *)
(* REL_BASED_HIGHLOW has HighLow cells (bytes: 4), one of REL_BASED_DIR64  *)
(* and an address have Dir64 (bytes: 8).  Sizes and offsets are counted    *)
(* modulo SizeLimit, as size_t counts modulo 2^32 or 2^64.                 *)
(*                                                                         *)
(* Here the image has been mapped; ImageContents has the steps before, too *)
(* and the stages that go with them.                                       *)
(*                                                                         *)
(* A definition introduced by "Mutant:" is the one after it with a bug.    *)
(***************************************************************************)
EXTENDS Integers, Sequences, FiniteSets, FiniteSetsExt

CONSTANTS
    Radix,       \* values of a cell
    HighLow,     \* cells of a 32-bit value
    Dir64,       \* cells of a 64-bit value and of an address
    PageSize,    \* cells a block of the relocation directory is about
    SizeLimit,   \* 1 + the largest size_t
    BaseField,   \* the cell where the headers have image_base
    Images,      \* the images that are relocated, as they were mapped
    Bases        \* the addresses they may be loaded at

Digit == 0 .. (Radix - 1)

\* How many values so many cells have.
Power[n \in Nat] == IF n = 0 THEN 1 ELSE Radix * Power[n - 1]

AddressLimit == Power[Dir64]

Kind == {"absolute", "highlow", "dir64", "other"}

\* A RelocationEntry: its type, and its address less that of its block.
Entry == [kind : Kind, offset : 0 .. (PageSize - 1)]

\* A BaseRelocation: virtual_address, size_of_block and the entries.
Block == [va : 0 .. (SizeLimit - 1), size : 0 .. (SizeLimit - 1),
          entries : Seq(Entry)]

ASSUME SizesAssumption ==
    /\ {Radix, HighLow, Dir64, PageSize, SizeLimit} \subseteq Nat \ {0}
    /\ Radix > 1 /\ HighLow <= Dir64
    /\ BaseField \in Nat /\ BaseField + Dir64 <= PageSize
    /\ Bases \subseteq 0 .. (AddressLimit - 1)

\* An image has its headers and at least one section, on pages of their own.
ASSUME ImagesAssumption ==
    \A image \in Images :
        /\ image.size \in (2 * PageSize) .. (SizeLimit - 1)
        /\ image.blocks \in Seq(Block)
        /\ image.contents \in [0 .. (image.size - 1) -> Digit]

VARIABLES
    image,     \* the image, chosen once
    base,      \* where it was loaded: image_mem.data()
    mem,       \* the contents of its memory
    todo,      \* the blocks the outer loop has not come to
    entries,   \* the entries of the block the inner loop has not come to
    slice,     \* relblock_slice: its first cell, its size, the offset asked
    touched,   \* the cells read or written so far
    stage      \* how far the load has come

vars == <<image, base, mem, todo, entries, slice, touched, stage>>

Cells == 0 .. (image.size - 1)

RelocationStages == {"relocating", "done", "thrown"}

MappingStages == {"headers", "sections", "mapped", "refused", "faulted"}

NoSlice == [start |-> 0, size |-> 0, offset |-> 0]

TypeOK ==
    /\ image.contents \in [Cells -> Digit]
    /\ base \in Bases
    /\ mem \in [Cells -> Digit]
    /\ todo \in Seq(Block)
    /\ entries \in Seq(Entry)
    /\ slice \in [start : Nat, size : 0 .. (SizeLimit - 1),
                  offset : 0 .. (SizeLimit - 1)]
    /\ touched \subseteq Nat
    /\ stage \in RelocationStages \cup MappingStages

Init ==
    /\ image \in Images
    /\ base \in Bases
    /\ mem = image.contents
    /\ todo = image.blocks
    /\ entries = <<>>
    /\ slice = NoSlice
    /\ touched = {}
    /\ stage = "relocating"

-----------------------------------------------------------------------------
(* Values in memory *)

Least(m, n) == IF m < n THEN m ELSE n

\* The value of the first width digits, the least one first.
Value(digits, width) ==
    LET upTo[n \in Nat] ==
            IF n = 0 THEN 0 ELSE upTo[n - 1] + digits[n - 1] * Power[n - 1]
    IN  upTo[width]

\* Mutant: the last digit is not cut off.
DigitsUncut(value, width) ==
    [i \in 0 .. (width - 1) |-> value \div Power[i]]

\* The digits of a value; what exceeds them is cut off.
Digits(value, width) ==
    [i \in 0 .. (width - 1) |-> (value \div Power[i]) % Radix]

DigitsAt(contents, cell, width) ==
    [i \in 0 .. (width - 1) |-> contents[cell + i]]

\* image.optional_header().image_base, read from the mapped headers each time.
PreferredBase(contents) ==
    Value(DigitsAt(contents, BaseField, Dir64), Dir64)

\* Mutant: the difference the other way round.
BaseDiffReversed(contents) == PreferredBase(contents) - base

\* base_diff, a ptrdiff_t.
BaseDiff(contents) == base - PreferredBase(contents)

Width(kind) == IF kind = "highlow" THEN HighLow ELSE Dir64

\* bytes_to_read and bytes_to_write: what is left of a block after an offset;
\* an offset behind its end leaves nearly everything, by wrapping around.
Clipped(of, offset, size) == Least((of - offset) % SizeLimit, size)

-----------------------------------------------------------------------------
(* The two loops *)

\* The condition under which get_memory_block_slice does not throw.
HasSlice(block) == (block.va + block.size) % SizeLimit < image.size

\* Mutant: the slice is where its offset says, and nothing else is mended.
SliceAtOffset(block) ==
    [start |-> block.va,
     size |-> Clipped(image.size, block.va, block.size),
     offset |-> block.va]

\* get_memory_block_slice, whose result is made of mem_block.data().
Slice(block) ==
    [start |-> 0,
     size |-> Clipped(image.size, block.va, block.size),
     offset |-> block.va]

NextBlock ==
    /\ stage = "relocating" /\ entries = <<>> /\ todo # <<>>
    /\ HasSlice(Head(todo))
    /\ slice' = Slice(Head(todo))
    /\ entries' = Head(todo).entries
    /\ todo' = Tail(todo)
    /\ UNCHANGED <<image, base, mem, touched, stage>>

RejectBlock ==
    /\ stage = "relocating" /\ entries = <<>> /\ todo # <<>>
    /\ ~ HasSlice(Head(todo))
    /\ stage' = "thrown"
    /\ UNCHANGED <<image, base, mem, todo, entries, slice, touched>>

FirstCell(entry) == slice.start + entry.offset

\* MemoryBlock::read: the cells that are copied into a value.
ReadCells(entry) ==
    FirstCell(entry) .. (FirstCell(entry)
        + Clipped(slice.size, entry.offset, Width(entry.kind)) - 1)

\* Mutant: the whole value is written.
WrittenWhole(entry) ==
    FirstCell(entry) .. (FirstCell(entry) + Width(entry.kind) - 1)

\* MemoryBlock::write
WrittenCells(entry) ==
    FirstCell(entry) .. (FirstCell(entry)
        + Clipped(slice.size, entry.offset, Width(entry.kind)) - 1)

\* modify_le_value_at.  What the read does not fill of the local value is
\* whatever was there: rest.
ModifyValue(entry, rest) ==
    LET first == FirstCell(entry)
        width == Width(entry.kind)
        value == [i \in 0 .. (width - 1) |->
                     IF first + i \in ReadCells(entry) \cap Cells
                     THEN mem[first + i] ELSE rest[i]]
        moved == (Value(value, width) + BaseDiff(mem)) % Power[width]
    IN  mem' = [c \in Cells |-> IF c \in WrittenCells(entry)
                                THEN Digits(moved, width)[c - first] ELSE mem[c]]

ApplyEntry ==
    /\ stage = "relocating" /\ entries # <<>>
    /\ Head(entries).kind \in {"highlow", "dir64"}
    /\ \E rest \in [0 .. (Width(Head(entries).kind) - 1) -> Digit] :
          ModifyValue(Head(entries), rest)
    /\ touched' = touched \cup ReadCells(Head(entries))
                       \cup WrittenCells(Head(entries))
    /\ entries' = Tail(entries)
    /\ UNCHANGED <<image, base, todo, slice, stage>>

SkipEntry ==
    /\ stage = "relocating" /\ entries # <<>>
    /\ Head(entries).kind = "absolute"
    /\ entries' = Tail(entries)
    /\ UNCHANGED <<image, base, mem, todo, slice, touched, stage>>

RejectEntry ==
    /\ stage = "relocating" /\ entries # <<>>
    /\ Head(entries).kind = "other"
    /\ stage' = "thrown"
    /\ UNCHANGED <<image, base, mem, todo, entries, slice, touched>>

Finish ==
    /\ stage = "relocating" /\ entries = <<>> /\ todo = <<>>
    /\ stage' = "done"
    /\ UNCHANGED <<image, base, mem, todo, entries, slice, touched>>

Next == \/ NextBlock \/ RejectBlock
        \/ ApplyEntry \/ SkipEntry \/ RejectEntry
        \/ Finish

Spec == Init /\ [][Next]_vars

-----------------------------------------------------------------------------
(* Properties *)

\* An image at its preferred address keeps every cell: neither a value cut in
\* two by the end of a slice, nor what an unfilled local variable holds, nor
\* a type that throws half-way shows in it.
NeutralAtPreferred ==
    base = PreferredBase(image.contents) /\ stage \in RelocationStages
        => mem = image.contents

\* No relocation reads or writes outside the image, although an offset behind
\* the end of a slice switches clipping off.
StaysInImage == touched \subseteq Cells

\* The entries of the image with a value, by block and place in the block.
Valued ==
    {p \in UNION {{<<i, j>> : j \in DOMAIN image.blocks[i].entries} :
                  i \in DOMAIN image.blocks} :
        image.blocks[p[1]].entries[p[2]].kind \in {"highlow", "dir64"}}

\* The cells an entry's value is at: where the slice of its block shows its
\* offset, up to the end of the slice.
CellsOf(p) ==
    LET block == image.blocks[p[1]]
        entry == block.entries[p[2]]
        shown == Slice(block)
        first == shown.start + entry.offset
    IN  first .. (first + Clipped(shown.size, entry.offset, Width(entry.kind)) - 1)

PreferredCells == BaseField .. (BaseField + Dir64 - 1)

BaseIsUnlisted == \A p \in Valued : CellsOf(p) \cap PreferredCells = {}

\* No other entry has a part of this one's value.
Whole(p) ==
    \A q \in Valued : CellsOf(q) = CellsOf(p) \/ CellsOf(q) \cap CellsOf(p) = {}

\* The entries, among these, with the same value as this one.
SameValue(p, among) == {q \in among : CellsOf(q) = CellsOf(p)}

\* The value in a range of cells.
Held(contents, range) ==
    IF range = {} THEN 0
    ELSE Value(DigitsAt(contents, Min(range), Cardinality(range)),
               Cardinality(range))

\* When the loops end, each value was moved by the difference of the addresses
\* as often as it was listed, in as many digits as it has, and what was not
\* listed is unchanged: whatever the order, the clipping, and the headers, from
\* which the preferred address is read again for each entry, unless an entry is
\* about that. A value that shares some cells with another one is excepted.
\* Where the slice of a block shows it is not what this is about, but
\* SlicesAreRanges: slices that all start where the image does show values of
\* different blocks at the same cells, and those values move more than once.
MovedAsListed ==
    stage = "done" /\ BaseIsUnlisted =>
        /\ \A p \in Valued : Whole(p) =>
              Held(mem, CellsOf(p)) =
                  (Held(image.contents, CellsOf(p))
                      + Cardinality(SameValue(p, Valued))
                            * (base - PreferredBase(image.contents)))
                      % Power[Cardinality(CellsOf(p))]
        /\ \A c \in Cells \ UNION {CellsOf(p) : p \in Valued} :
              mem[c] = image.contents[c]

\* "Memory range not withing block": what get_memory_block_slice does not
\* refuse is the range it was asked for.
SlicesAreRanges == slice.start = slice.offset

=============================================================================
