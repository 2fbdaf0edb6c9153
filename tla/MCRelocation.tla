---------------------------- MODULE MCRelocation ----------------------------
(***************************************************************************)
(* Images for Relocation: two pages of eight cells of one bit, addresses   *)
(* and 64-bit values of four bits, 32-bit values of two.                   *)
(***************************************************************************)
EXTENDS Relocation

\* image_base is in cells 1 .. 4 and has the value 0 or 5; the other cells
\* are all ones, or alternate.
MCContents ==
    {[c \in 0 .. 15 |-> IF c \in 1 .. 4 THEN (b \div 2 ^ (c - 1)) % 2
                        ELSE IF ones THEN 1 ELSE c % 2] :
     b \in {0, 5}, ones \in BOOLEAN}

MCBlock(va, size, list) == [va |-> va, size |-> size, entries |-> list]

\* One block of up to two entries, of any type but the last one anywhere in
\* the page: its slice as long as the page, ending inside an entry, empty,
\* reaching the end of the image, behind it, or there again by overflow.
MCOneBlock ==
    {<<MCBlock(r[1], r[2], <<e, f>>)>> :
        r \in {<<0, 8>>, <<8, 3>>, <<8, 0>>, <<8, 8>>, <<20, 15>>},
        e \in {[kind |-> k, offset |-> o] :
                  k \in {"absolute", "highlow", "dir64"}, o \in {0, 2, 5, 7}},
        f \in {[kind |-> k, offset |-> o] :
                  k \in {"highlow", "dir64", "other"}, o \in 0 .. 7}}

\* Two blocks, for two pages, the second one with entries or without.
MCTwoBlocks ==
    {<<MCBlock(0, 8, <<[kind |-> k, offset |-> o]>>), MCBlock(8, 4, list)>> :
        k \in {"highlow", "dir64"}, o \in {0, 5, 7},
        list \in {<<>>} \cup {<<[kind |-> "highlow", offset |-> p]>> : p \in 0 .. 7}}

MCImages ==
    {[size |-> 16, blocks |-> b, contents |-> c] :
        b \in {<<>>} \cup MCOneBlock \cup MCTwoBlocks, c \in MCContents}

MCFewImages ==
    {[size |-> 16, blocks |-> b, contents |-> c] :
        b \in MCTwoBlocks, c \in MCContents}

=============================================================================
