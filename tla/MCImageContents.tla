-------------------------- MODULE MCImageContents --------------------------
(* The images of MCRelocation, in files that map to them as they are; and    *)
(* images of three pages with two sections of all sorts.                     *)
EXTENDS ImageContents, MCRelocation

MCSection(va, vsize, raw, rsize) ==
    [va |-> va, vsize |-> vsize, raw |-> raw, rsize |-> rsize]

\* One section, as long as a page, at the same place in file and image.
MCPlain(i) ==
    [size |-> i.size, blocks |-> i.blocks, contents |-> i.contents,
     file |-> i.contents, headers |-> 8, sections |-> <<MCSection(8, 8, 8, 8)>>]

\* Files of 16 bytes, with image_base in cells 1 .. 4.
MCFiles == {[c \in 0 .. 15 |-> IF c \in 1 .. 4 THEN (5 \div 2 ^ (c - 1)) % 2 ELSE f[c % 4]] :
            f \in {[i \in 0 .. 3 |-> IF i < 2 THEN 1 ELSE 0], [i \in 0 .. 3 |-> 1]}}

\* Data within the file, cut off, at its end and behind it; less and more than
\* its pages, or none; sections in the image, at its end and behind it.
MCFirstSections ==
    {MCSection(va, vsize, raw, rsize) :
        va \in {8, 16, 28}, vsize \in {0, 3, 8}, raw \in {8, 12, 16, 20}, rsize \in {0, 4, 12}}

MCSecondSections ==
    {MCSection(va, 8, raw, rsize) : va \in {8, 16}, raw \in {6, 12}, rsize \in {3, 8}}

MCMapped(i) ==
    [size |-> i.size, blocks |-> i.blocks, headers |-> i.headers, file |-> i.file,
     sections |-> i.sections, contents |-> Declared(i)]

MCUnusual ==
    {MCMapped([size |-> 24, blocks |-> b, headers |-> h, file |-> f,
               sections |-> <<s, t>>]) :
        b \in {<<>>, <<MCBlock(8, 10, <<[kind |-> "dir64", offset |-> 6]>>)>>},
        h \in {6}, f \in MCFiles, s \in MCFirstSections, t \in MCSecondSections}
    \cup
    {MCMapped([size |-> 24, blocks |-> <<>>, headers |-> h, file |-> f,
               sections |-> <<MCSection(8, 8, 8, 8)>>]) :
        h \in {0, 3, 12, 18, 30}, f \in MCFiles}

MCFileImages == {MCPlain(i) : i \in MCImages} \cup MCUnusual
=============================================================================
