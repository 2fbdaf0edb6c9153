------------------------ MODULE ImageContentsProofs ------------------------
(***************************************************************************)
(* An image is mapped from a file as its headers declare, reading nothing  *)
(* but the file; the relocations after that stay inside its memory, move   *)
(* each value they list by the difference of the addresses, as often as    *)
(* they list it, and change nothing else: whatever the file's size, its    *)
(* headers, its sections and its relocation directory are.  The relocations*)
(* alone, on memory that is all there, are Relocation's specification; they*)
(* come first, with the facts about values and digits that they rest on.   *)
(***************************************************************************)
EXTENDS ImageContents, FiniteSetTheorems, NumberFacts

LEMMA SizesTyped ==
    /\ SizeLimit \in Nat \ {0} /\ PageSize \in Nat \ {0}
    /\ Dir64 \in Nat \ {0} /\ HighLow \in Nat \ {0}
    /\ HighLow <= Dir64 /\ Dir64 <= PageSize
  BY SizesAssumption

\* What a slice has left after an offset is a number, and no more than asked.
LEMMA ClippedBounded ==
    ASSUME NEW of \in Int, NEW offset \in Int, NEW size \in Nat
    PROVE  Clipped(of, offset, size) \in 0 .. size
  <1>1. (of - offset) % SizeLimit \in Nat
    BY SizesTyped
  <1> QED
    BY <1>1 DEF Clipped, Least

LEMMA WidthBounded ==
    ASSUME NEW kind
    PROVE  Width(kind) \in 1 .. Dir64
  BY SizesTyped DEF Width

\* What is left to do is made of blocks and entries, and the slice is at the
\* start of the image.
ListsTyped ==
    /\ image \in Images
    /\ todo \in Seq(Block)
    /\ entries \in Seq(Entry)
    /\ slice.start = 0
    /\ slice.size \in Nat

\* An entry the code meets reads and writes inside the image: it is no further
\* than a page from the start, and an image has two.
LEMMA EntryInImage ==
    ASSUME ListsTyped, NEW entry \in Entry
    PROVE  /\ ReadCells(entry) \subseteq Cells
           /\ WrittenCells(entry) \subseteq Cells
  <1> DEFINE length == Clipped(slice.size, entry.offset, Width(entry.kind))
  <1>1. entry.offset \in 0 .. (PageSize - 1)
    BY DEF Entry
  <1>2. length \in Nat /\ length <= Dir64
    <2>1. Width(entry.kind) \in Nat /\ Width(entry.kind) <= Dir64
      BY WidthBounded, SizesTyped
    <2>2. length \in 0 .. Width(entry.kind)
      <3>1. entry.offset \in Int /\ slice.size \in Int
        BY <1>1, SizesTyped DEF ListsTyped
      <3> QED
        BY <3>1, <2>1, ClippedBounded
    <2> QED
      BY <2>1, <2>2, SizesTyped
  <1>3. image.size \in Nat /\ image.size >= 2 * PageSize /\ Dir64 <= PageSize
    BY ImagesAssumption, SizesTyped DEF ListsTyped
  <1>4. FirstCell(entry) = entry.offset
    BY <1>1, SizesTyped DEF FirstCell, ListsTyped
  <1> HIDE DEF length
  <1>5. FirstCell(entry) .. (FirstCell(entry) + length - 1) \subseteq Cells
    BY <1>1, <1>2, <1>3, <1>4, SizesTyped DEF Cells
  <1> QED
    BY <1>5 DEF length, ReadCells, WrittenCells

\* ListsTyped and StaysInImage are kept by every step.
LEMMA StepStaysInImage ==
    ASSUME ListsTyped, StaysInImage, [Next]_vars
    PROVE  (ListsTyped /\ StaysInImage)'
  <1> USE DEF ListsTyped, StaysInImage, Cells
  <1>1. CASE NextBlock
    <2>1. Head(todo) \in Block /\ Tail(todo) \in Seq(Block)
      BY <1>1 DEF NextBlock
    <2>2. Slice(Head(todo)).start = 0 /\ Slice(Head(todo)).size \in Nat
      <3>1. image.size \in Int /\ Head(todo).va \in Int /\ Head(todo).size \in Nat
        BY <2>1, ImagesAssumption, SizesTyped DEF Block
      <3>2. Clipped(image.size, Head(todo).va, Head(todo).size)
                \in 0 .. Head(todo).size
        BY <3>1, ClippedBounded
      <3> QED
        BY <3>1, <3>2 DEF Slice
    <2>3. Head(todo).entries \in Seq(Entry)
      BY <2>1 DEF Block
    <2> QED
      BY <1>1, <2>1, <2>2, <2>3 DEF NextBlock
  <1>2. CASE RejectBlock
    BY <1>2 DEF RejectBlock
  <1>3. CASE ApplyEntry
    <2>1. Head(entries) \in Entry /\ Tail(entries) \in Seq(Entry)
      BY <1>3 DEF ApplyEntry
    <2>2. ReadCells(Head(entries)) \cup WrittenCells(Head(entries)) \subseteq Cells
      BY <2>1, EntryInImage
    <2> QED
      BY <1>3, <2>1, <2>2 DEF ApplyEntry
  <1>4. CASE SkipEntry
    BY <1>4 DEF SkipEntry
  <1>5. CASE RejectEntry
    BY <1>5 DEF RejectEntry
  <1>6. CASE Finish
    BY <1>6 DEF Finish
  <1>7. CASE UNCHANGED vars
    BY <1>7 DEF vars
  <1> QED
    BY <1>1, <1>2, <1>3, <1>4, <1>5, <1>6, <1>7 DEF Next

\* Whatever its relocation directory says, an image is relocated without a
\* read or a write outside its memory.
THEOREM RelocationStaysInImage == Spec => []StaysInImage
  <1>1. Init => ListsTyped /\ StaysInImage
    BY ImagesAssumption DEF Init, ListsTyped, StaysInImage, NoSlice
  <1>2. ListsTyped /\ StaysInImage /\ [Next]_vars => (ListsTyped /\ StaysInImage)'
    BY StepStaysInImage
  <1> QED
    BY <1>1, <1>2, PTL DEF Spec

-----------------------------------------------------------------------------
(* Digits and values *)

LEMMA RadixTyped == Radix \in Nat \ {0} /\ Radix > 1
  BY SizesAssumption

LEMMA PowerDefined ==
    /\ Power[0] = 1
    /\ \A n \in Nat : Power[n + 1] = Radix * Power[n]
<1>1. \E g : g = [n \in Nat |-> IF n = 0 THEN 1 ELSE Radix * g[n - 1]]
  BY PowersExist
<1>2. Power = [n \in Nat |-> IF n = 0 THEN 1 ELSE Radix * Power[n - 1]]
  BY <1>1 DEF Power
<1>3. \A n \in Nat : n + 1 \in Nat /\ n + 1 # 0 /\ (n + 1) - 1 = n
  OBVIOUS
<1> HIDE DEF Power
<1> QED
  BY <1>2, <1>3

LEMMA PowersTyped == \A n \in Nat : Power[n] \in Nat \ {0}
<1> DEFINE S == {n \in Nat : Power[n] \in Nat \ {0}}
<1>1. 0 \in S
  BY PowerDefined
<1>2. ASSUME NEW n \in Nat, n \in S
      PROVE  n + 1 \in S
  <2>1. Power[n + 1] = Radix * Power[n] /\ Power[n] \in Nat \ {0}
    BY <1>2, PowerDefined
  <2>2. Radix * Power[n] \in Nat \ {0}
    BY <2>1, RadixTyped
  <2> QED
    BY <2>1, <2>2
<1> HIDE DEF S
<1>3. Nat \subseteq S
  BY <1>1, <1>2, AllNumbers
<1> QED
  BY <1>3 DEF S

\* The powers divide each other.
LEMMA PowersDivide ==
    ASSUME NEW k \in Nat, NEW n \in Nat
    PROVE  \E c \in Nat \ {0} : Power[k + n] = Power[k] * c
<1> DEFINE S == {m \in Nat : \E c \in Nat \ {0} : Power[k + m] = Power[k] * c}
<1>1. 0 \in S
  <2>1. k + 0 = k /\ Power[k] = Power[k] * 1
    BY PowersTyped
  <2> QED
    BY <2>1
<1>2. ASSUME NEW m \in Nat, m \in S
      PROVE  m + 1 \in S
  <2>1. PICK c \in Nat \ {0} : Power[k + m] = Power[k] * c
    BY <1>2
  <2>2. k + m \in Nat /\ k + (m + 1) = (k + m) + 1
    OBVIOUS
  <2>3. Power[k + (m + 1)] = Radix * (Power[k] * c)
    BY <2>1, <2>2, PowerDefined
  <2>4. Radix * (Power[k] * c) = Power[k] * (Radix * c) /\ Radix * c \in Nat \ {0}
    BY RadixTyped, PowersTyped
  <2> QED
    BY <2>3, <2>4
<1> HIDE DEF S
<1>3. Nat \subseteq S
  BY <1>1, <1>2, AllNumbers
<1> QED
  BY <1>3 DEF S

LEMMA ValueDefined ==
    ASSUME NEW digits
    PROVE  /\ Value(digits, 0) = 0
           /\ \A n \in Nat :
                 Value(digits, n + 1) = Value(digits, n) + digits[n] * Power[n]
<1> DEFINE t == [n \in Nat |-> digits[n - 1] * Power[n - 1]]
           upTo == CHOOSE g : g = [n \in Nat |->
                       IF n = 0 THEN 0 ELSE g[n - 1] + digits[n - 1] * Power[n - 1]]
<1>1. PICK g : g = [n \in Nat |-> IF n = 0 THEN 0 ELSE g[n - 1] + t[n]]
  BY SumsExist
<1>2. g = [n \in Nat |-> IF n = 0 THEN 0 ELSE g[n - 1] + digits[n - 1] * Power[n - 1]]
  BY <1>1
<1>3. upTo = [n \in Nat |-> IF n = 0 THEN 0
                            ELSE upTo[n - 1] + digits[n - 1] * Power[n - 1]]
  BY <1>2
<1>4. \A n : Value(digits, n) = upTo[n]
  BY DEF Value
<1>5. \A n \in Nat : n + 1 \in Nat /\ n + 1 # 0 /\ (n + 1) - 1 = n
  OBVIOUS
<1> HIDE DEF upTo
<1>6. upTo[0] = 0
  BY <1>3
<1>7. ASSUME NEW n \in Nat
      PROVE  upTo[n + 1] = upTo[n] + digits[n] * Power[n]
  BY <1>3, <1>5
<1> QED
  BY <1>4, <1>6, <1>7

\* So many digits have a value below the power.
LEMMA ValueTyped ==
    ASSUME NEW digits, NEW n \in Nat, \A i \in 0 .. n - 1 : digits[i] \in Digit
    PROVE  Value(digits, n) \in 0 .. (Power[n] - 1)
<1> DEFINE S == {m \in Nat : m <= n => Value(digits, m) \in 0 .. (Power[m] - 1)}
<1>1. 0 \in S
  BY ValueDefined, PowerDefined
<1>2. ASSUME NEW m \in Nat, m \in S
      PROVE  m + 1 \in S
  <2> SUFFICES ASSUME m + 1 <= n
               PROVE  Value(digits, m + 1) \in 0 .. (Power[m + 1] - 1)
    OBVIOUS
  <2> DEFINE P == Power[m]
             v == Value(digits, m)
             d == digits[m]
  <2>1. /\ P \in Nat \ {0} /\ v \in 0 .. (P - 1) /\ d \in 0 .. (Radix - 1)
        /\ Power[m + 1] = Radix * P
        /\ Value(digits, m + 1) = v + d * P
    <3>1. m \in 0 .. n - 1 /\ m <= n
      OBVIOUS
    <3> QED
      BY <1>2, <3>1, PowersTyped, PowerDefined, ValueDefined DEF Digit
  <2> HIDE DEF P, v, d
  <2>2. d * P \in Nat /\ d * P <= (Radix - 1) * P /\ (Radix - 1) * P = Radix * P - P
    BY <2>1, RadixTyped
  <2>3. Radix * P \in Nat
    BY <2>1, RadixTyped
  <2>4. v + d * P \in 0 .. (Radix * P - 1)
    BY <2>1, <2>2, <2>3
  <2> QED
    BY <2>1, <2>4
<1> HIDE DEF S
<1>3. Nat \subseteq S
  BY <1>1, <1>2, AllNumbers
<1> QED
  BY <1>3 DEF S

\* The value of the first digits is that of all, in so many digits.
LEMMA ValueOfFirst ==
    ASSUME NEW digits, NEW k \in Nat, NEW n \in Nat, k <= n,
           \A i \in 0 .. n - 1 : digits[i] \in Digit
    PROVE  Value(digits, n) % Power[k] = Value(digits, k)
<1> DEFINE S == {m \in Nat : k + m <= n => Value(digits, k + m) % Power[k] = Value(digits, k)}
<1>1. 0 \in S
  <2>1. Value(digits, k) \in 0 .. (Power[k] - 1)
    BY ValueTyped
  <2>2. Power[k] \in Nat \ {0} /\ k + 0 = k
    BY PowersTyped
  <2>3. Value(digits, k) % Power[k] = Value(digits, k)
    BY <2>1, <2>2
  <2> QED
    BY <2>2, <2>3
<1>2. ASSUME NEW m \in Nat, m \in S
      PROVE  m + 1 \in S
  <2> SUFFICES ASSUME k + (m + 1) <= n
               PROVE  Value(digits, k + (m + 1)) % Power[k] = Value(digits, k)
    OBVIOUS
  <2>1. k + m \in Nat /\ k + (m + 1) = (k + m) + 1 /\ k + m <= n /\ k + m \in 0 .. n - 1
    OBVIOUS
  <2>2. PICK c \in Nat \ {0} : Power[k + m] = Power[k] * c
    BY PowersDivide
  <2> DEFINE v == Value(digits, k + m)
             d == digits[k + m]
             P == Power[k]
  <2>3. v \in Int /\ d \in Nat /\ P \in Nat \ {0}
    <3>1. v \in 0 .. (Power[k + m] - 1)
      BY <2>1, ValueTyped
    <3> QED
      BY <2>1, <3>1, PowersTyped, RadixTyped DEF Digit
  <2>4. Value(digits, k + (m + 1)) = v + d * (P * c)
    BY <2>1, <2>2, ValueDefined
  <2>5. v % P = Value(digits, k)
    BY <1>2, <2>1
  <2> HIDE DEF v, d, P
  <2>6. d * (P * c) = P * (d * c) /\ d * c \in Int
    BY <2>2, <2>3
  <2>7. (v + P * (d * c)) % P = v % P
    BY <2>3, <2>6, ModShift
  <2> QED
    BY <2>4, <2>5, <2>6, <2>7 DEF P
<1> HIDE DEF S
<1>3. Nat \subseteq S
  BY <1>1, <1>2, AllNumbers
<1>4. n - k \in Nat /\ k + (n - k) = n
  OBVIOUS
<1> QED
  BY <1>3, <1>4 DEF S

\* Only the digits count.
LEMMA ValueOfSame ==
    ASSUME NEW d, NEW e, NEW n \in Nat, \A i \in 0 .. n - 1 : d[i] = e[i]
    PROVE  Value(d, n) = Value(e, n)
<1> DEFINE S == {m \in Nat : m <= n => Value(d, m) = Value(e, m)}
<1>1. 0 \in S
  BY ValueDefined
<1>2. ASSUME NEW m \in Nat, m \in S
      PROVE  m + 1 \in S
  <2> SUFFICES ASSUME m + 1 <= n
               PROVE  Value(d, m + 1) = Value(e, m + 1)
    OBVIOUS
  <2>1. m \in 0 .. n - 1 /\ m <= n
    OBVIOUS
  <2> QED
    BY <1>2, <2>1, ValueDefined
<1> HIDE DEF S
<1>3. Nat \subseteq S
  BY <1>1, <1>2, AllNumbers
<1> QED
  BY <1>3 DEF S

LEMMA DigitsTyped ==
    ASSUME NEW v \in Int, NEW n \in Nat
    PROVE  \A i \in 0 .. n - 1 : Digits(v, n)[i] \in Digit
<1> SUFFICES ASSUME NEW i \in 0 .. n - 1
             PROVE  Digits(v, n)[i] \in Digit
  OBVIOUS
<1>1. Power[i] \in Nat \ {0}
  BY PowersTyped
<1>2. v \div Power[i] \in Int
  BY <1>1, DivMod
<1>3. (v \div Power[i]) % Radix \in 0 .. (Radix - 1)
  BY <1>2, RadixTyped, DivMod
<1> QED
  BY <1>3 DEF Digits, Digit

\* Writing a value and reading it cuts it off.
LEMMA ValueOfDigits ==
    ASSUME NEW v \in Int, NEW n \in Nat
    PROVE  Value(Digits(v, n), n) = v % Power[n]
<1> DEFINE d == Digits(v, n)
           S == {m \in Nat : m <= n => Value(d, m) = v % Power[m]}
<1>1. 0 \in S
  <2>1. v % 1 = 0
    OBVIOUS
  <2> QED
    BY <2>1, ValueDefined, PowerDefined
<1>2. ASSUME NEW m \in Nat, m \in S
      PROVE  m + 1 \in S
  <2> SUFFICES ASSUME m + 1 <= n
               PROVE  Value(d, m + 1) = v % Power[m + 1]
    OBVIOUS
  <2> DEFINE P == Power[m]
  <2>1. P \in Nat \ {0} /\ Power[m + 1] = Radix * P
    BY PowersTyped, PowerDefined
  <2>2. d[m] = (v \div P) % Radix
    BY DEF Digits
  <2>3. Value(d, m + 1) = Value(d, m) + d[m] * P
    BY ValueDefined
  <2>4. Value(d, m) = v % P
    BY <1>2
  <2> HIDE DEF P, d
  <2>5. v % (P * Radix) = (v % P) + P * ((v \div P) % Radix)
    BY <2>1, RadixTyped, ModOfProduct
  <2>6. P * Radix = Radix * P
    BY <2>1, RadixTyped
  <2>7. (v \div P) % Radix \in Int
    BY <2>1, RadixTyped, DivMod
  <2>8. P * ((v \div P) % Radix) = ((v \div P) % Radix) * P
    BY <2>1, <2>7
  <2> QED
    BY <2>1, <2>2, <2>3, <2>4, <2>5, <2>6, <2>8
<1> HIDE DEF S
<1>3. Nat \subseteq S
  BY <1>1, <1>2, AllNumbers
<1> QED
  BY <1>3 DEF S

\* Digits with the same value are the same.
LEMMA SameDigits ==
    ASSUME NEW d, NEW e, NEW n \in Nat,
           \A i \in 0 .. n - 1 : d[i] \in Digit /\ e[i] \in Digit,
           Value(d, n) = Value(e, n)
    PROVE  \A i \in 0 .. n - 1 : d[i] = e[i]
<1> SUFFICES ASSUME NEW i \in 0 .. n - 1
             PROVE  d[i] = e[i]
  OBVIOUS
<1>1. i \in Nat /\ i + 1 \in Nat /\ i + 1 <= n /\ i <= n
  OBVIOUS
<1>2. Value(d, i + 1) = Value(e, i + 1) /\ Value(d, i) = Value(e, i)
  BY <1>1, ValueOfFirst
<1> DEFINE P == Power[i]
           v == Value(d, i)
<1>3. Value(d, i + 1) = v + d[i] * P /\ Value(e, i + 1) = v + e[i] * P
  BY <1>1, <1>2, ValueDefined
<1>4. P \in Nat \ {0} /\ d[i] \in Nat /\ e[i] \in Nat
  BY <1>1, PowersTyped, RadixTyped DEF Digit
<1>5. v \in Int
  <2>1. v \in 0 .. (P - 1)
    BY <1>1, ValueTyped
  <2> QED
    BY <2>1
<1> HIDE DEF P, v
<1>6. d[i] * P = e[i] * P
  <2>1. d[i] * P \in Int /\ e[i] * P \in Int
    BY <1>4
  <2> QED
    BY <1>2, <1>3, <1>5, <2>1
<1> QED
  BY <1>4, <1>6

-----------------------------------------------------------------------------
(* One entry *)

\* The value in a range of cells, empty or not.
LEMMA HeldInRange ==
    ASSUME NEW contents, NEW o \in Nat, NEW k \in Nat
    PROVE  /\ Held(contents, o .. (o + k - 1)) = Value(DigitsAt(contents, o, k), k)
           /\ Cardinality(o .. (o + k - 1)) = k
<1> DEFINE R == o .. (o + k - 1)
<1>1. Cardinality(R) = k
  <2>1. CASE k = 0
    <3>1. R = {}
      BY <2>1
    <3> QED
      BY <2>1, <3>1, FS_EmptySet
  <2>2. CASE k > 0
    <3>1. Cardinality(R) = (o + k - 1) - o + 1
      BY <2>2, FS_Interval
    <3> QED
      BY <3>1
  <2> QED
    BY <2>1, <2>2
<1>2. CASE k = 0
  <2>1. R = {}
    BY <1>2
  <2>2. Value(DigitsAt(contents, o, k), 0) = 0
    BY ValueDefined
  <2> QED
    BY <1>1, <1>2, <2>1, <2>2 DEF Held
<1>3. CASE k > 0
  <2>1. o \in R /\ \A c \in R : o <= c
    BY <1>3
  <2>2. \A m \in R : (\A c \in R : m <= c) => m = o
    BY <2>1
  <2>3. Min(R) = o
    BY <2>1, <2>2 DEF Min
  <2>4. R # {}
    BY <2>1
  <2> QED
    BY <1>1, <2>3, <2>4 DEF Held
<1> QED
  BY <1>2, <1>3, <1>1

\* Where it is the same, so is the value.
LEMMA HeldStays ==
    ASSUME NEW R, NEW o \in Nat, NEW k \in Nat, R = o .. (o + k - 1)
    PROVE  \A f, g : (\A c \in R : f[c] = g[c]) => Held(f, R) = Held(g, R)
<1> TAKE f, g
<1> HAVE \A c \in R : f[c] = g[c]
<1>1. \A i \in 0 .. k - 1 : DigitsAt(f, o, k)[i] = DigitsAt(g, o, k)[i]
  <2> SUFFICES ASSUME NEW i \in 0 .. k - 1
               PROVE  f[o + i] = g[o + i]
    BY DEF DigitsAt
  <2>1. o + i \in R
    OBVIOUS
  <2> QED
    BY <2>1
<1>2. Value(DigitsAt(f, o, k), k) = Value(DigitsAt(g, o, k), k)
  BY <1>1, ValueOfSame
<1> QED
  BY <1>2, HeldInRange

ContentsTyped == image \in Images /\ base \in Bases /\ mem \in [Cells -> Digit]

\* The difference of the addresses is a number.
LEMMA BaseDiffTyped ==
    ASSUME ContentsTyped, NEW contents \in [Cells -> Digit]
    PROVE  /\ BaseDiff(contents) \in Int /\ PreferredBase(contents) \in Int
           /\ PreferredCells \subseteq Cells
<1>1. /\ BaseField \in Nat /\ BaseField + Dir64 <= PageSize /\ Dir64 \in Nat
      /\ PageSize \in Nat /\ image.size \in Nat /\ image.size >= 2 * PageSize
  BY SizesAssumption, SizesTyped, ImagesAssumption DEF ContentsTyped
<1>2. PreferredCells \subseteq Cells
  BY <1>1 DEF PreferredCells, Cells
<1>3. \A i \in 0 .. Dir64 - 1 : DigitsAt(contents, BaseField, Dir64)[i] \in Digit
  <2> SUFFICES ASSUME NEW i \in 0 .. Dir64 - 1
               PROVE  contents[BaseField + i] \in Digit
    BY DEF DigitsAt
  <2>1. BaseField + i \in PreferredCells
    BY <1>1 DEF PreferredCells
  <2> QED
    BY <1>2, <2>1
<1>4. PreferredBase(contents) \in 0 .. (Power[Dir64] - 1)
  BY <1>1, <1>3, ValueTyped DEF PreferredBase
<1>5. base \in Int
  <2>1. Power[Dir64] \in Nat
    BY <1>1, PowersTyped
  <2> QED
    BY <2>1, SizesAssumption DEF ContentsTyped, AddressLimit
<1> QED
  BY <1>2, <1>4, <1>5 DEF BaseDiff

\* What a relocation does to the memory: the value in the cells it is about
\* moves by the difference, in as many digits as there are cells, whatever the
\* rest of the local variable was.
LEMMA EntryMoves ==
    ASSUME ContentsTyped, UNCHANGED image, NEW entry, NEW rest,
           rest \in [0 .. (Width(entry.kind) - 1) -> Digit],
           ModifyValue(entry, rest),
           NEW o \in Nat, NEW k \in Nat, FirstCell(entry) = o,
           k <= Width(entry.kind),
           ReadCells(entry) = o .. (o + k - 1), WrittenCells(entry) = o .. (o + k - 1),
           o .. (o + k - 1) \subseteq Cells
    PROVE  /\ mem' \in [Cells -> Digit]
           /\ \A c \in Cells \ o .. (o + k - 1) : mem'[c] = mem[c]
           /\ Held(mem', o .. (o + k - 1)) =
                 (Held(mem, o .. (o + k - 1)) + BaseDiff(mem)) % Power[k]
           /\ BaseDiff(mem) = 0 => mem' = mem
<1> DEFINE R == o .. (o + k - 1)
           w == Width(entry.kind)
           value == [i \in 0 .. (w - 1) |-> IF o + i \in R \cap Cells
                                            THEN mem[o + i] ELSE rest[i]]
           diff == BaseDiff(mem)
           moved == (Value(value, w) + diff) % Power[w]
           d == Digits(moved, w)
<1>1. w \in Nat /\ k <= w
  BY WidthBounded, SizesTyped
<1>2. diff \in Int
  BY BaseDiffTyped DEF ContentsTyped
<1>3. mem' = [c \in Cells |-> IF c \in R THEN d[c - o] ELSE mem[c]]
  BY DEF ModifyValue
<1>4. \A i \in 0 .. w - 1 : value[i] \in Digit
  BY DEF ContentsTyped
<1>5. Value(value, w) \in 0 .. (Power[w] - 1) /\ Power[w] \in Nat \ {0}
      /\ Power[k] \in Nat \ {0}
  BY <1>1, <1>4, ValueTyped, PowersTyped
<1>6. \A i \in 0 .. k - 1 : o + i \in R /\ o + i \in Cells /\ (o + i) - o = i /\ i \in 0 .. w - 1
  <2> SUFFICES ASSUME NEW i \in 0 .. k - 1
               PROVE  o + i \in R /\ (o + i) - o = i /\ i \in 0 .. w - 1
    OBVIOUS
  <2> QED
    BY <1>1
<1>7. \A i \in 0 .. k - 1 : value[i] = mem[o + i]
  BY <1>6
<1> HIDE DEF value
<1>8. moved \in Int
  <2>1. Value(value, w) + diff \in Int
    BY <1>2, <1>5
  <2> HIDE DEF diff
  <2> QED
    BY <1>5, <2>1, DivMod
<1> HIDE DEF diff, moved
<1>9. \A i \in 0 .. w - 1 : d[i] \in Digit
  BY <1>1, <1>8, DigitsTyped
<1> HIDE DEF d
<1>10. ASSUME NEW c \in R
       PROVE  c - o \in 0 .. k - 1 /\ c - o \in 0 .. w - 1 /\ o + (c - o) = c
  BY <1>1
<1>11. mem' \in [Cells -> Digit]
  <2>1. \A c \in Cells : (IF c \in R THEN d[c - o] ELSE mem[c]) \in Digit
    BY <1>9, <1>10 DEF ContentsTyped
  <2> HIDE DEF R
  <2> QED
    BY <1>3, <2>1
<1>12. \A i \in 0 .. k - 1 : mem'[o + i] = d[i]
  <2> HIDE DEF R
  <2> QED
    BY <1>3, <1>6
<1>13. Value(DigitsAt(mem, o, k), k) = Value(value, k)
  <2>1. \A i \in 0 .. k - 1 : DigitsAt(mem, o, k)[i] = value[i]
    BY <1>7 DEF DigitsAt
  <2> QED
    BY <2>1, ValueOfSame
<1>14. Value(DigitsAt(mem', o, k), k) = Value(d, k)
  <2>1. \A i \in 0 .. k - 1 : DigitsAt(mem', o, k)[i] = d[i]
    BY <1>12 DEF DigitsAt
  <2> QED
    BY <2>1, ValueOfSame
<1>15. Value(d, k) = (Value(value, k) + diff) % Power[k]
  <2> DEFINE x == Value(value, w) + diff
  <2>1. x \in Int
    BY <1>2, <1>5
  <2>2. Value(d, w) = moved % Power[w]
    BY <1>1, <1>8, ValueOfDigits DEF d
  <2>3. Value(d, k) = Value(d, w) % Power[k]
    BY <1>1, <1>9, ValueOfFirst
  <2>4. w - k \in Nat /\ k + (w - k) = w
    BY <1>1
  <2>5. PICK c \in Nat \ {0} : Power[w] = Power[k] * c
    BY <2>4, PowersDivide
  <2> HIDE DEF x
  <2>6. moved % Power[w] = moved
    <3>1. moved \in 0 .. (Power[w] - 1)
      BY <1>5, <2>1, DivMod DEF moved, x
    <3> QED
      BY <1>5, <3>1
  <2>7. moved = x % Power[w]
    BY DEF moved, x
  <2>8. (x % (Power[k] * c)) % Power[k] = x % Power[k]
    BY <1>5, <2>1, ModOfProduct
  <2>9. Value(value, w) % Power[k] = Value(value, k)
    BY <1>1, <1>4, ValueOfFirst
  <2>10. ((Value(value, w) % Power[k]) + diff) % Power[k] = x % Power[k]
    <3>1. Value(value, w) \in Int
      BY <1>5
    <3> QED
      BY <1>2, <1>5, <3>1, ModOfSum DEF x
  <2> QED
    BY <2>2, <2>3, <2>5, <2>6, <2>7, <2>8, <2>9, <2>10
<1>16. ASSUME diff = 0
       PROVE  mem' = mem
  <2>1. moved = Value(value, w)
    BY <1>5, <1>16 DEF moved
  <2>2. Value(d, w) = Value(value, w)
    <3>1. Value(d, w) = moved % Power[w]
      BY <1>1, <1>8, ValueOfDigits DEF d
    <3> QED
      BY <1>5, <2>1, <3>1
  <2>3. \A i \in 0 .. w - 1 : d[i] = value[i]
    BY <1>1, <1>4, <1>9, <2>2, SameDigits
  <2>4. ASSUME NEW c \in Cells
        PROVE  mem'[c] = mem[c]
    <3>1. CASE c \in R
      <4>1. d[c - o] = mem[c]
        BY <1>7, <1>10, <2>3, <3>1
      <4> HIDE DEF R
      <4> QED
        BY <1>3, <3>1, <4>1
    <3>2. CASE c \notin R
      BY <1>3, <3>2
    <3> QED
      BY <3>1, <3>2
  <2> QED
    BY <1>11, <2>4 DEF ContentsTyped
<1>17. \A c \in Cells \ R : mem'[c] = mem[c]
  BY <1>3
<1> QED
  BY <1>11, <1>13, <1>14, <1>15, <1>16, <1>17, HeldInRange DEF diff

-----------------------------------------------------------------------------
(* How far the loops have come *)

\* The blocks the outer loop has taken, and the entries of the last one that
\* the inner loop is through with.
Taken == Len(image.blocks) - Len(todo)

Through == Len(image.blocks[Taken].entries) - Len(entries)

\* What is left to do is the end of what there was, and the slice is that of
\* the block the entries are from.
InPlace ==
    /\ Taken \in Nat
    /\ \A i \in 1 .. Len(todo) : todo[i] = image.blocks[Taken + i]
    /\ Taken = 0 => entries = <<>>
    /\ Taken > 0 =>
          /\ slice = Slice(image.blocks[Taken])
          /\ Through \in Nat
          /\ \A i \in 1 .. Len(entries) :
                entries[i] = image.blocks[Taken].entries[Through + i]
    /\ stage = "done" => todo = <<>> /\ entries = <<>>

\* The entries with a value that were applied.
Applied ==
    {p \in Valued : p[1] < Taken \/ (p[1] = Taken /\ p[2] <= Through)}

\* A value has moved once for each of them that it was listed by, and nothing
\* else has changed.
MovedSoFar ==
    BaseIsUnlisted =>
        /\ \A p \in Valued : Whole(p) =>
              Held(mem, CellsOf(p)) =
                  (Held(image.contents, CellsOf(p))
                      + Cardinality(SameValue(p, Applied)) * BaseDiff(image.contents))
                      % Power[Cardinality(CellsOf(p))]
        /\ \A c \in Cells :
              (\A p \in Applied : c \notin CellsOf(p)) => mem[c] = image.contents[c]

\* The inductive invariant of the loops.
RelocationInv ==
    /\ ContentsTyped
    /\ todo \in Seq(Block) /\ entries \in Seq(Entry)
    /\ InPlace
    /\ stage \in RelocationStages => NeutralAtPreferred /\ MovedSoFar

\* The relocation directory of an image is made of blocks and entries.
LEMMA BlocksTyped ==
    ASSUME image \in Images
    PROVE  /\ image.blocks \in Seq(Block)
           /\ Len(image.blocks) \in Nat /\ DOMAIN image.blocks = 1 .. Len(image.blocks)
           /\ \A i \in DOMAIN image.blocks :
                 LET block == image.blocks[i] IN
                 /\ block \in Block
                 /\ block.va \in Nat /\ block.size \in Nat
                 /\ block.size < SizeLimit /\ block.va < SizeLimit
                 /\ block.entries \in Seq(Entry)
                 /\ Len(block.entries) \in Nat
                 /\ DOMAIN block.entries = 1 .. Len(block.entries)
                 /\ \A j \in DOMAIN block.entries :
                       /\ block.entries[j] \in Entry
                       /\ block.entries[j].offset \in Nat
                       /\ block.entries[j].offset < PageSize
<1>1. image.blocks \in Seq(Block)
  BY ImagesAssumption
<1>2. /\ Len(image.blocks) \in Nat /\ DOMAIN image.blocks = 1 .. Len(image.blocks)
      /\ \A i \in DOMAIN image.blocks : image.blocks[i] \in Block
  BY <1>1
<1>3. ASSUME NEW block \in Block
      PROVE  /\ block.va \in Nat /\ block.size \in Nat
             /\ block.size < SizeLimit /\ block.va < SizeLimit
             /\ block.entries \in Seq(Entry)
  BY SizesTyped DEF Block
<1>4. ASSUME NEW list \in Seq(Entry)
      PROVE  /\ Len(list) \in Nat /\ DOMAIN list = 1 .. Len(list)
             /\ \A j \in DOMAIN list : list[j] \in Entry
  OBVIOUS
<1>5. ASSUME NEW entry \in Entry
      PROVE  entry.offset \in Nat /\ entry.offset < PageSize
  BY SizesTyped DEF Entry
<1> QED
  BY <1>1, <1>2, <1>3, <1>4, <1>5

\* The entries with a value, by their places.
LEMMA ValuedPlaces ==
    /\ \A p \in Valued : /\ p[1] \in DOMAIN image.blocks
                         /\ p[2] \in DOMAIN image.blocks[p[1]].entries
                         /\ p = <<p[1], p[2]>>
                         /\ image.blocks[p[1]].entries[p[2]].kind \in {"highlow", "dir64"}
    /\ \A i \in DOMAIN image.blocks : \A j \in DOMAIN image.blocks[i].entries :
          <<i, j>> \in Valued
              <=> image.blocks[i].entries[j].kind \in {"highlow", "dir64"}
<1>1. ASSUME NEW p \in Valued
      PROVE  /\ p[1] \in DOMAIN image.blocks
             /\ p[2] \in DOMAIN image.blocks[p[1]].entries
             /\ p = <<p[1], p[2]>>
             /\ image.blocks[p[1]].entries[p[2]].kind \in {"highlow", "dir64"}
  <2>1. PICK i \in DOMAIN image.blocks : \E j \in DOMAIN image.blocks[i].entries : p = <<i, j>>
    BY DEF Valued
  <2>2. PICK j \in DOMAIN image.blocks[i].entries : p = <<i, j>>
    BY <2>1
  <2>3. image.blocks[p[1]].entries[p[2]].kind \in {"highlow", "dir64"}
    BY DEF Valued
  <2> QED
    BY <2>2, <2>3
<1>2. ASSUME NEW i \in DOMAIN image.blocks, NEW j \in DOMAIN image.blocks[i].entries
      PROVE  <<i, j>> \in Valued
                 <=> image.blocks[i].entries[j].kind \in {"highlow", "dir64"}
  BY DEF Valued
<1> QED
  BY <1>1, <1>2

\* What an entry reads and writes while its block's slice is there.
LEMMA CellsOfEntry ==
    ASSUME image \in Images,
           NEW i \in DOMAIN image.blocks, NEW j \in DOMAIN image.blocks[i].entries
    PROVE  LET block == image.blocks[i]
               entry == block.entries[j]
               size == Clipped(image.size, block.va, block.size)
               k == Clipped(size, entry.offset, Width(entry.kind))
           IN  /\ size \in Nat /\ size < SizeLimit
               /\ entry.offset \in Nat /\ k \in Nat /\ k <= Width(entry.kind)
               /\ CellsOf(<<i, j>>) = entry.offset .. (entry.offset + k - 1)
               /\ CellsOf(<<i, j>>) \subseteq Cells
               /\ slice = Slice(block) =>
                     /\ FirstCell(entry) = entry.offset
                     /\ ReadCells(entry) = CellsOf(<<i, j>>)
                     /\ WrittenCells(entry) = CellsOf(<<i, j>>)
<1> DEFINE block == image.blocks[i]
           entry == block.entries[j]
           size == Clipped(image.size, block.va, block.size)
           k == Clipped(size, entry.offset, Width(entry.kind))
<1>1. /\ block.va \in Nat /\ block.size \in Nat /\ block.size < SizeLimit
      /\ entry.offset \in Nat /\ entry.offset < PageSize
  BY BlocksTyped
<1>2. image.size \in Nat /\ image.size >= 2 * PageSize
  BY ImagesAssumption, SizesTyped
<1>3. size \in Nat /\ size < SizeLimit
  <2>1. image.size \in Int /\ block.va \in Int /\ block.size \in Nat
    BY <1>1, <1>2
  <2>2. size \in 0 .. block.size
    BY <2>1, ClippedBounded
  <2> HIDE DEF size
  <2> QED
    BY <2>2, <1>1, SizesTyped
<1>4. Width(entry.kind) \in Nat /\ Width(entry.kind) <= Dir64
  BY WidthBounded, SizesTyped
<1>5. k \in Nat /\ k <= Width(entry.kind)
  <2>1. size \in Int /\ entry.offset \in Int
    BY <1>1, <1>3
  <2> HIDE DEF size
  <2>2. k \in 0 .. Width(entry.kind)
    BY <2>1, <1>4, ClippedBounded
  <2> HIDE DEF k
  <2> QED
    BY <2>2, <1>4
<1>6. CellsOf(<<i, j>>) = entry.offset .. (entry.offset + k - 1)
  <2>1. Slice(block).start = 0 /\ Slice(block).size = size
    BY DEF Slice
  <2>2. CellsOf(<<i, j>>) = (0 + entry.offset) .. (0 + entry.offset + k - 1)
    BY <2>1 DEF CellsOf
  <2> QED
    BY <1>1, <2>2
<1>7. CellsOf(<<i, j>>) \subseteq Cells
  <2> HIDE DEF k, entry
  <2> QED
    BY <1>1, <1>2, <1>4, <1>5, <1>6, SizesTyped DEF Cells
<1>8. ASSUME slice = Slice(block)
      PROVE  /\ FirstCell(entry) = entry.offset
             /\ ReadCells(entry) = CellsOf(<<i, j>>)
             /\ WrittenCells(entry) = CellsOf(<<i, j>>)
  <2>1. slice.start = 0 /\ slice.size = size
    BY <1>8 DEF Slice
  <2>2. FirstCell(entry) = entry.offset
    BY <1>1, <2>1 DEF FirstCell
  <2> QED
    BY <1>6, <2>1, <2>2 DEF ReadCells, WrittenCells
<1> QED
  BY <1>1, <1>3, <1>5, <1>6, <1>7, <1>8

\* The entry the inner loop comes to is the next one of the block it is in.
LEMMA NextEntry ==
    ASSUME RelocationInv, entries # <<>>
    PROVE  /\ Taken \in DOMAIN image.blocks
           /\ Through \in Nat /\ Through + 1 \in DOMAIN image.blocks[Taken].entries
           /\ Head(entries) = image.blocks[Taken].entries[Through + 1]
           /\ Head(entries) \in Entry
           /\ slice = Slice(image.blocks[Taken])
           /\ Tail(entries) \in Seq(Entry)
           /\ Len(Tail(entries)) = Len(entries) - 1
           /\ \A i \in 1 .. Len(Tail(entries)) : Tail(entries)[i] = entries[i + 1]
<1>1. entries \in Seq(Entry) /\ todo \in Seq(Block) /\ image \in Images /\ InPlace
  BY DEF RelocationInv, ContentsTyped
<1>2. /\ Len(entries) \in Nat \ {0} /\ Head(entries) = entries[1]
      /\ Head(entries) \in Entry
      /\ Tail(entries) \in Seq(Entry)
      /\ Len(Tail(entries)) = Len(entries) - 1
      /\ \A i \in 1 .. Len(Tail(entries)) : Tail(entries)[i] = entries[i + 1]
  BY <1>1
<1>3. Len(todo) \in Nat
  BY <1>1
<1>4. Taken \in DOMAIN image.blocks /\ Taken > 0
  <2>1. Taken \in Nat /\ Taken # 0
    BY <1>1 DEF InPlace
  <2>2. Taken <= Len(image.blocks)
    BY <1>1, <1>3, BlocksTyped DEF Taken
  <2> QED
    BY <1>1, <2>1, <2>2, BlocksTyped
<1>5. /\ slice = Slice(image.blocks[Taken]) /\ Through \in Nat
      /\ \A i \in 1 .. Len(entries) :
            entries[i] = image.blocks[Taken].entries[Through + i]
  BY <1>1, <1>4 DEF InPlace
<1>6. /\ Len(image.blocks[Taken].entries) \in Nat
      /\ DOMAIN image.blocks[Taken].entries = 1 .. Len(image.blocks[Taken].entries)
  BY <1>1, <1>4, BlocksTyped
<1>7. Through + 1 \in DOMAIN image.blocks[Taken].entries
  BY <1>2, <1>5, <1>6 DEF Through
<1>8. Head(entries) = image.blocks[Taken].entries[Through + 1]
  BY <1>2, <1>5
<1> QED
  BY <1>2, <1>4, <1>5, <1>7, <1>8

\* The next block, likewise.
LEMMA NextOfBlocks ==
    ASSUME RelocationInv, todo # <<>>
    PROVE  /\ Taken \in Nat /\ Taken + 1 \in DOMAIN image.blocks
           /\ Head(todo) = image.blocks[Taken + 1]
           /\ Tail(todo) \in Seq(Block)
           /\ Len(Tail(todo)) = Len(todo) - 1
           /\ \A i \in 1 .. Len(Tail(todo)) : Tail(todo)[i] = todo[i + 1]
<1>1. todo \in Seq(Block) /\ image \in Images /\ InPlace
  BY DEF RelocationInv, ContentsTyped
<1>2. /\ Len(todo) \in Nat \ {0} /\ Head(todo) = todo[1]
      /\ Tail(todo) \in Seq(Block)
      /\ Len(Tail(todo)) = Len(todo) - 1
      /\ \A i \in 1 .. Len(Tail(todo)) : Tail(todo)[i] = todo[i + 1]
  BY <1>1
<1>3. Taken \in Nat /\ \A i \in 1 .. Len(todo) : todo[i] = image.blocks[Taken + i]
  BY <1>1 DEF InPlace
<1>4. Taken + 1 \in DOMAIN image.blocks
  BY <1>1, <1>2, <1>3, BlocksTyped DEF Taken
<1> QED
  BY <1>2, <1>3, <1>4

\* What follows from the image alone.
LEMMA ImageKept ==
    ASSUME UNCHANGED image
    PROVE  /\ Cells' = Cells /\ Valued' = Valued
           /\ BaseIsUnlisted' <=> BaseIsUnlisted
           /\ \A p : CellsOf(p)' = CellsOf(p)
           /\ \A p : Whole(p)' <=> Whole(p)
<1>1. Cells' = Cells /\ Valued' = Valued /\ PreferredCells' = PreferredCells
  BY DEF Cells, Valued, PreferredCells
<1>2. \A p : CellsOf(p)' = CellsOf(p)
  BY DEF CellsOf, Slice, Clipped
<1>3. BaseIsUnlisted' <=> BaseIsUnlisted
  BY <1>1, <1>2 DEF BaseIsUnlisted
<1>4. \A p : Whole(p)' <=> Whole(p)
  BY <1>1, <1>2 DEF Whole
<1> QED
  BY <1>1, <1>2, <1>3, <1>4

\* While no entry is applied and the memory stays, so do the properties of it.
LEMMA NothingMoves ==
    ASSUME RelocationInv, UNCHANGED <<image, base, mem>>,
           stage \in RelocationStages \/ stage' \notin RelocationStages,
           Applied' = Applied
    PROVE  stage' \in RelocationStages => (NeutralAtPreferred /\ MovedSoFar)'
<1> SUFFICES ASSUME stage' \in RelocationStages
             PROVE  NeutralAtPreferred' /\ MovedSoFar'
  OBVIOUS
<1>1. NeutralAtPreferred /\ MovedSoFar
  BY DEF RelocationInv
<1>2. /\ Cells' = Cells /\ Valued' = Valued
      /\ BaseIsUnlisted' <=> BaseIsUnlisted
      /\ \A p : CellsOf(p)' = CellsOf(p)
      /\ \A p : Whole(p)' <=> Whole(p)
  BY ImageKept
<1>3. NeutralAtPreferred'
  BY <1>1 DEF NeutralAtPreferred, RelocationInv, PreferredBase
<1>4. \A p : SameValue(p, Applied)' = SameValue(p, Applied)
  BY <1>2 DEF SameValue
<1>5. BaseDiff(image.contents)' = BaseDiff(image.contents)
  BY DEF BaseDiff, PreferredBase
<1>6. MovedSoFar'
  BY <1>1, <1>2, <1>4, <1>5 DEF MovedSoFar, Held
<1> QED
  BY <1>3, <1>6

\* Only the stage changes, if anything.
LEMMA StageKeepsRelocation ==
    ASSUME RelocationInv, UNCHANGED <<image, base, mem, todo, entries, slice>>,
           stage \in RelocationStages \/ stage' \notin RelocationStages,
           stage' = "done" => todo = <<>> /\ entries = <<>>
    PROVE  RelocationInv'
<1>1. Taken' = Taken /\ Through' = Through
  BY DEF Taken, Through
<1>2. InPlace'
  BY <1>1 DEF RelocationInv, InPlace, Slice, Clipped
<1>3. Applied' = Applied
  BY <1>1, ImageKept DEF Applied
<1>4. ContentsTyped' /\ todo' \in Seq(Block) /\ entries' \in Seq(Entry)
  BY ImageKept DEF RelocationInv, ContentsTyped
<1> QED
  BY <1>2, <1>3, <1>4, NothingMoves DEF RelocationInv

LEMMA BlockKeepsRelocation ==
    ASSUME RelocationInv, NextBlock
    PROVE  RelocationInv'
<1> DEFINE block == image.blocks[Taken + 1]
<1>1. /\ stage = "relocating" /\ stage' = "relocating" /\ entries = <<>> /\ todo # <<>>
      /\ slice' = Slice(Head(todo)) /\ entries' = Head(todo).entries
      /\ todo' = Tail(todo) /\ UNCHANGED <<image, base, mem>>
  BY DEF NextBlock
<1>2. /\ Taken \in Nat /\ Taken + 1 \in DOMAIN image.blocks
      /\ Head(todo) = block
      /\ Tail(todo) \in Seq(Block) /\ Len(Tail(todo)) = Len(todo) - 1
      /\ \A i \in 1 .. Len(Tail(todo)) : Tail(todo)[i] = todo[i + 1]
  BY <1>1, NextOfBlocks
<1>3. /\ image \in Images /\ todo \in Seq(Block) /\ Len(todo) \in Nat
      /\ Len(image.blocks) \in Nat
      /\ \A i \in 1 .. Len(todo) : todo[i] = image.blocks[Taken + i]
  BY BlocksTyped DEF RelocationInv, InPlace, ContentsTyped
<1>4. Taken' = Taken + 1
  BY <1>1, <1>2, <1>3 DEF Taken
<1>5. /\ block.entries \in Seq(Entry) /\ Len(block.entries) \in Nat
      /\ DOMAIN block.entries = 1 .. Len(block.entries)
  BY <1>2, <1>3, BlocksTyped
<1>6. Through' = 0
  BY <1>1, <1>2, <1>4, <1>5 DEF Through
<1>7. InPlace'
  <2>1. ASSUME NEW i \in 1 .. Len(Tail(todo))
        PROVE  Tail(todo)[i] = image.blocks[(Taken + 1) + i]
    <3>1. i + 1 \in 1 .. Len(todo) /\ Taken + (i + 1) = (Taken + 1) + i
      BY <1>2, <1>3
    <3> QED
      BY <1>2, <1>3, <3>1
  <2>2. \A i \in 1 .. Len(block.entries) : 0 + i = i
    BY <1>5
  <2>3. (slice = Slice(image.blocks[Taken]))'
    BY <1>1, <1>2, <1>4 DEF Slice, Clipped
  <2>4. Taken' \in Nat /\ Taken' # 0
    BY <1>2, <1>4
  <2> QED
    BY <1>1, <1>2, <1>4, <1>6, <2>1, <2>2, <2>3, <2>4 DEF InPlace
<1>8. Applied' = Applied
  <2>1. Valued' = Valued
    BY <1>1, ImageKept
  <2>2. ASSUME NEW p \in Valued
        PROVE  (p[1] < Taken + 1 \/ (p[1] = Taken + 1 /\ p[2] <= 0))
                   <=> (p[1] < Taken \/ (p[1] = Taken /\ p[2] <= Through))
    <3>1. /\ p[1] \in DOMAIN image.blocks
          /\ p[2] \in DOMAIN image.blocks[p[1]].entries
      BY ValuedPlaces
    <3>2. /\ p[1] \in Nat /\ p[2] \in Nat /\ p[2] > 0
          /\ p[2] <= Len(image.blocks[p[1]].entries)
          /\ Len(image.blocks[p[1]].entries) \in Nat
      BY <1>3, <3>1, BlocksTyped
    <3>3. p[1] = Taken => p[2] <= Through
      <4>1. Len(entries) = 0
        BY <1>1
      <4> QED
        BY <3>2, <4>1 DEF Through
    <3> QED
      BY <1>2, <3>2, <3>3
  <2> QED
    BY <1>4, <1>6, <2>1, <2>2 DEF Applied
<1>9. ContentsTyped' /\ todo' \in Seq(Block) /\ entries' \in Seq(Entry)
  BY <1>1, <1>2, <1>5, ImageKept DEF RelocationInv, ContentsTyped
<1>10. stage \in RelocationStages
  BY <1>1 DEF RelocationStages
<1> QED
  BY <1>1, <1>7, <1>8, <1>9, <1>10, NothingMoves DEF RelocationInv

\* The inner loop goes on to the next entry.
LEMMA EntryTaken ==
    ASSUME RelocationInv, entries # <<>>, entries' = Tail(entries),
           UNCHANGED <<image, todo, slice>>, stage' = "relocating"
    PROVE  /\ Taken' = Taken /\ Through' = Through + 1 /\ InPlace'
           /\ Applied' = Applied \cup
                 {q \in Valued : q = <<Taken, Through + 1>>}
<1>1. /\ Taken \in DOMAIN image.blocks
      /\ Through \in Nat /\ Through + 1 \in DOMAIN image.blocks[Taken].entries
      /\ slice = Slice(image.blocks[Taken])
      /\ Len(Tail(entries)) = Len(entries) - 1
      /\ \A i \in 1 .. Len(Tail(entries)) : Tail(entries)[i] = entries[i + 1]
  BY NextEntry
<1>2. Taken' = Taken /\ Taken \in Nat /\ Taken > 0
  BY <1>1, BlocksTyped DEF Taken, RelocationInv, ContentsTyped
<1>3. entries \in Seq(Entry) /\ Len(entries) \in Nat
  BY DEF RelocationInv
<1>4. image \in Images
  BY DEF RelocationInv, ContentsTyped
<1>5. Through' = Through + 1
  <2>1. Len(image.blocks[Taken].entries) \in Nat
    BY <1>1, <1>4, BlocksTyped
  <2> QED
    BY <1>1, <1>2, <1>3, <2>1 DEF Through
<1>6. InPlace'
  <2>1. \A i \in 1 .. Len(entries) : entries[i] = image.blocks[Taken].entries[Through + i]
    BY <1>2 DEF RelocationInv, InPlace
  <2>2. ASSUME NEW i \in 1 .. Len(Tail(entries))
        PROVE  Tail(entries)[i] = image.blocks[Taken].entries[(Through + 1) + i]
    <3>1. i + 1 \in 1 .. Len(entries) /\ Through + (i + 1) = (Through + 1) + i
      BY <1>1, <1>3
    <3> QED
      BY <1>1, <2>1, <3>1
  <2>3. Slice(image.blocks[Taken])' = Slice(image.blocks[Taken])
    BY <1>2 DEF Slice, Clipped
  <2>4. (\A i \in 1 .. Len(todo) : todo[i] = image.blocks[Taken + i])'
    BY <1>2 DEF RelocationInv, InPlace
  <2>5. Through + 1 \in Nat
    BY <1>1
  <2> QED
    BY <1>1, <1>2, <1>5, <2>2, <2>3, <2>4, <2>5 DEF InPlace
<1>7. Applied' = Applied \cup {q \in Valued : q = <<Taken, Through + 1>>}
  <2>1. Valued' = Valued
    BY ImageKept
  <2>2. ASSUME NEW p \in Valued
        PROVE  (p[1] < Taken \/ (p[1] = Taken /\ p[2] <= Through + 1))
                   <=> \/ p[1] < Taken \/ (p[1] = Taken /\ p[2] <= Through)
                       \/ p = <<Taken, Through + 1>>
    <3>1. /\ p[1] \in DOMAIN image.blocks
          /\ p[2] \in DOMAIN image.blocks[p[1]].entries
          /\ p = <<p[1], p[2]>>
      BY ValuedPlaces
    <3>2. p[1] \in Nat /\ p[2] \in Nat
      BY <1>4, <3>1, BlocksTyped
    <3>3. p = <<Taken, Through + 1>> <=> p[1] = Taken /\ p[2] = Through + 1
      BY <3>1
    <3> QED
      BY <1>1, <1>2, <3>2, <3>3
  <2> QED
    BY <1>2, <1>5, <2>1, <2>2 DEF Applied
<1> QED
  BY <1>2, <1>5, <1>6, <1>7

\* One that is not about a value.
LEMMA SkipKeepsRelocation ==
    ASSUME RelocationInv, SkipEntry
    PROVE  RelocationInv'
<1>1. /\ stage = "relocating" /\ stage' = "relocating" /\ entries # <<>>
      /\ Head(entries).kind = "absolute" /\ entries' = Tail(entries)
      /\ UNCHANGED <<image, base, mem, todo, slice>>
  BY DEF SkipEntry
<1>2. <<Taken, Through + 1>> \notin Valued
  <2>1. Head(entries).kind \notin {"highlow", "dir64"}
    BY <1>1
  <2> QED
    BY <1>1, <2>1, NextEntry, ValuedPlaces
<1>3. Applied' = Applied /\ InPlace'
  BY <1>1, <1>2, EntryTaken
<1>4. ContentsTyped' /\ todo' \in Seq(Block) /\ entries' \in Seq(Entry)
  BY <1>1, NextEntry, ImageKept DEF RelocationInv, ContentsTyped
<1>5. stage \in RelocationStages
  BY <1>1 DEF RelocationStages
<1> QED
  BY <1>1, <1>3, <1>4, <1>5, NothingMoves DEF RelocationInv

\* The preferred address is what is in its cells.
LEMMA PreferredStays ==
    ASSUME NEW f, NEW g, \A c \in PreferredCells : f[c] = g[c]
    PROVE  PreferredBase(f) = PreferredBase(g)
<1>1. BaseField \in Nat /\ Dir64 \in Nat
  BY SizesAssumption, SizesTyped
<1>2. ASSUME NEW i \in 0 .. Dir64 - 1
      PROVE  DigitsAt(f, BaseField, Dir64)[i] = DigitsAt(g, BaseField, Dir64)[i]
  <2>1. BaseField + i \in PreferredCells
    BY <1>1 DEF PreferredCells
  <2> QED
    BY <2>1 DEF DigitsAt
<1> QED
  BY <1>1, <1>2, ValueOfSame DEF PreferredBase

\* The value an entry is about, in the memory as it was mapped, is a number of as
\* many digits as it has cells.
LEMMA StartTyped ==
    ASSUME image \in Images, image.contents \in [Cells -> Digit], NEW p \in Valued
    PROVE  /\ Power[Cardinality(CellsOf(p))] \in Nat \ {0}
           /\ Held(image.contents, CellsOf(p)) \in 0 .. (Power[Cardinality(CellsOf(p))] - 1)
<1>1. /\ p[1] \in DOMAIN image.blocks
      /\ p[2] \in DOMAIN image.blocks[p[1]].entries
      /\ p = <<p[1], p[2]>>
  BY ValuedPlaces
<1>2. PICK o \in Nat, k \in Nat : CellsOf(p) = o .. (o + k - 1)
  BY <1>1, CellsOfEntry
<1>3. CellsOf(p) \subseteq Cells
  BY <1>1, CellsOfEntry
<1>4. ASSUME NEW i \in 0 .. k - 1
      PROVE  DigitsAt(image.contents, o, k)[i] \in Digit
  <2>1. o + i \in CellsOf(p)
    BY <1>2
  <2> QED
    BY <1>3, <2>1 DEF DigitsAt
<1>5. Value(DigitsAt(image.contents, o, k), k) \in 0 .. (Power[k] - 1)
  BY <1>4, ValueTyped
<1> QED
  BY <1>2, <1>5, HeldInRange, PowersTyped

LEMMA ImageFinite ==
    ASSUME NEW f, NEW S, IsFiniteSet(S)
    PROVE  IsFiniteSet({f[x] : x \in S})
<1> DEFINE g == [x \in S |-> f[x]]
           T == {f[x] : x \in S}
<1>1. g \in Surjection(S, T)
  BY DEF Surjection
<1> QED
  BY <1>1, FS_Surjection

\* An image lists finitely many values.
LEMMA ValuedFinite ==
    ASSUME image \in Images
    PROVE  IsFiniteSet(Valued)
<1> DEFINE most == Len(image.blocks)
           listOf == [i \in 1 .. most |->
                         {<<i, j>> : j \in DOMAIN image.blocks[i].entries}]
           lists == {listOf[i] : i \in 1 .. most}
<1>1. most \in Nat /\ DOMAIN image.blocks = 1 .. most
  BY BlocksTyped
<1>2. IsFiniteSet(1 .. most)
  BY <1>1, FS_Interval
<1>3. IsFiniteSet(lists)
  BY <1>2, ImageFinite
<1>4. ASSUME NEW i \in 1 .. most
      PROVE  IsFiniteSet(listOf[i])
  <2> DEFINE n == Len(image.blocks[i].entries)
             place == [j \in 1 .. n |-> <<i, j>>]
  <2>1. n \in Nat /\ DOMAIN image.blocks[i].entries = 1 .. n
    BY <1>1, BlocksTyped
  <2>2. IsFiniteSet(1 .. n)
    <3> HIDE DEF n
    <3> QED
      BY <2>1, FS_Interval
  <2>3. IsFiniteSet({place[j] : j \in 1 .. n})
    BY <2>2, ImageFinite
  <2>4. {place[j] : j \in 1 .. n} = listOf[i]
    BY <2>1
  <2> QED
    BY <2>3, <2>4
<1>5. IsFiniteSet(UNION lists)
  <2>1. \A T \in lists : IsFiniteSet(T)
    BY <1>4
  <2> HIDE DEF lists
  <2> QED
    BY <1>3, <2>1, FS_UNION
<1>6. Valued \subseteq UNION lists
  BY <1>1 DEF Valued
<1> QED
  BY <1>5, <1>6, FS_Subset

\* With one more entry applied, its value has moved once more, and no other.
LEMMA OneMoreListed ==
    ASSUME image \in Images, NEW some \in SUBSET Valued, NEW q, q \notin some, NEW p
    PROVE  /\ Cardinality(SameValue(p, some)) \in Nat
           /\ Cardinality(SameValue(p, some \cup {q})) =
                 IF CellsOf(p) = CellsOf(q)
                 THEN Cardinality(SameValue(p, some)) + 1
                 ELSE Cardinality(SameValue(p, some))
<1>1. SameValue(p, some) \subseteq Valued /\ q \notin SameValue(p, some)
  BY DEF SameValue
<1>2. IsFiniteSet(SameValue(p, some))
  BY <1>1, ValuedFinite, FS_Subset
<1>3. SameValue(p, some \cup {q}) =
          IF CellsOf(p) = CellsOf(q) THEN SameValue(p, some) \cup {q}
                                     ELSE SameValue(p, some)
  BY DEF SameValue
<1> QED
  BY <1>1, <1>2, <1>3, FS_AddElement, FS_CardinalityType

LEMMA OnceMore ==
    ASSUME NEW s \in Int, NEW n \in Nat, NEW d \in Int
    PROVE  s + n * d \in Int /\ (s + n * d) + d = s + (n + 1) * d
  OBVIOUS

\* And one that is.
LEMMA ApplyKeepsRelocation ==
    ASSUME RelocationInv, ApplyEntry
    PROVE  RelocationInv'
<1> DEFINE q == <<Taken, Through + 1>>
           entry == Head(entries)
           block == image.blocks[Taken]
           o == entry.offset
           k == Clipped(Clipped(image.size, block.va, block.size), o, Width(entry.kind))
           diff == base - PreferredBase(image.contents)
<1>1. /\ stage = "relocating" /\ stage' = "relocating" /\ entries # <<>>
      /\ entry.kind \in {"highlow", "dir64"} /\ entries' = Tail(entries)
      /\ UNCHANGED <<image, base, todo, slice>>
  BY DEF ApplyEntry
<1>2. /\ Taken \in DOMAIN image.blocks /\ Through \in Nat
      /\ Through + 1 \in DOMAIN block.entries
      /\ entry = block.entries[Through + 1]
      /\ slice = Slice(block) /\ Tail(entries) \in Seq(Entry)
  BY <1>1, NextEntry
<1>3. q \in Valued
  BY <1>1, <1>2, ValuedPlaces
<1>4. ContentsTyped /\ image \in Images
  BY DEF RelocationInv, ContentsTyped
<1>5. /\ o \in Nat /\ k \in Nat /\ k <= Width(entry.kind)
      /\ CellsOf(q) = o .. (o + k - 1) /\ CellsOf(q) \subseteq Cells
      /\ FirstCell(entry) = o
      /\ ReadCells(entry) = CellsOf(q) /\ WrittenCells(entry) = CellsOf(q)
  BY <1>2, <1>4, CellsOfEntry
<1>6. PICK rest \in [0 .. (Width(entry.kind) - 1) -> Digit] : ModifyValue(entry, rest)
  BY DEF ApplyEntry
<1>7. /\ mem' \in [Cells -> Digit]
      /\ \A c \in Cells \ CellsOf(q) : mem'[c] = mem[c]
      /\ Held(mem', CellsOf(q)) = (Held(mem, CellsOf(q)) + BaseDiff(mem)) % Power[k]
      /\ BaseDiff(mem) = 0 => mem' = mem
  <2> HIDE DEF q, k, entry
  <2> QED
    BY <1>1, <1>4, <1>5, <1>6, EntryMoves DEF entry
<1>8. NeutralAtPreferred /\ MovedSoFar /\ stage \in RelocationStages
  BY <1>1 DEF RelocationInv, RelocationStages
<1>9. image.contents \in [Cells -> Digit]
  BY <1>4, ImagesAssumption DEF Cells
<1>10. /\ PreferredBase(image.contents) \in Int /\ base \in Int
       /\ PreferredCells \subseteq Cells
  <2>1. PreferredBase(image.contents) \in Int /\ PreferredCells \subseteq Cells
    BY <1>4, <1>9, BaseDiffTyped
  <2>2. AddressLimit \in Nat
    BY SizesTyped, PowersTyped DEF AddressLimit
  <2> QED
    BY <1>4, <2>1, <2>2, SizesAssumption DEF ContentsTyped
<1>11. NeutralAtPreferred'
  <2> SUFFICES ASSUME base = PreferredBase(image.contents)
               PROVE  mem' = image.contents
    BY <1>1 DEF NeutralAtPreferred, PreferredBase
  <2>1. mem = image.contents
    BY <1>8 DEF NeutralAtPreferred
  <2>2. BaseDiff(mem) = 0
    BY <1>10, <2>1 DEF BaseDiff
  <2> QED
    BY <1>7, <2>1, <2>2
<1> HIDE DEF entry, block, o, k
<1>12. /\ Applied' = Applied \cup {q} /\ q \notin Applied /\ Applied \subseteq Valued
       /\ InPlace'
  <2>1. Applied' = Applied \cup {q} /\ InPlace'
    BY <1>1, <1>3, EntryTaken
  <2>2. Through \in Nat /\ Taken \in Nat
    BY <1>2, <1>4, BlocksTyped
  <2>3. q \notin Applied
    <3>1. ~(Taken < Taken) /\ ~(Through + 1 <= Through)
      BY <2>2
    <3>2. q[1] = Taken /\ q[2] = Through + 1
      OBVIOUS
    <3> QED
      BY <3>1, <3>2 DEF Applied
  <2> QED
    BY <2>1, <2>3 DEF Applied
<1> HIDE DEF q
<1>13. MovedSoFar'
  <2> DEFINE listed(p) == Cardinality(SameValue(p, Applied))
             start(p) == Held(image.contents, CellsOf(p))
             range(p) == Power[Cardinality(CellsOf(p))]
  <2> SUFFICES ASSUME BaseIsUnlisted
               PROVE  /\ \A p \in Valued : Whole(p) =>
                            Held(mem', CellsOf(p)) =
                                (start(p)
                                    + Cardinality(SameValue(p, Applied \cup {q})) * diff)
                                    % range(p)
                      /\ \A c \in Cells :
                            (\A p \in Applied \cup {q} : c \notin CellsOf(p))
                                => mem'[c] = image.contents[c]
    BY <1>1, <1>12, ImageKept DEF MovedSoFar, BaseDiff, PreferredBase, Held, SameValue
  <2>1. /\ \A p \in Valued : Whole(p) =>
              Held(mem, CellsOf(p)) = (start(p) + listed(p) * diff) % range(p)
        /\ \A c \in Cells :
              (\A p \in Applied : c \notin CellsOf(p)) => mem[c] = image.contents[c]
    BY <1>8 DEF MovedSoFar, BaseDiff
  <2>2. BaseDiff(mem) = diff
    <3>1. \A p \in Applied : CellsOf(p) \cap PreferredCells = {}
      BY <1>12 DEF BaseIsUnlisted
    <3>2. \A c \in PreferredCells : mem[c] = image.contents[c]
      BY <1>10, <2>1, <3>1
    <3> QED
      BY <3>2, PreferredStays DEF BaseDiff
  <2>3. ASSUME NEW p \in Valued
        PROVE  /\ start(p) \in Int /\ listed(p) \in Nat /\ range(p) \in Nat \ {0}
               /\ Cardinality(SameValue(p, Applied \cup {q})) =
                     IF CellsOf(p) = CellsOf(q) THEN listed(p) + 1 ELSE listed(p)
    BY <1>4, <1>9, <1>12, StartTyped, OneMoreListed
  <2>4. ASSUME NEW p \in Valued, Whole(p), CellsOf(p) = CellsOf(q)
        PROVE  Held(mem', CellsOf(p)) = (start(p) + (listed(p) + 1) * diff) % range(p)
    <3>1. Cardinality(CellsOf(p)) = k
      BY <1>5, <2>4, HeldInRange
    <3>2. Held(mem', CellsOf(p)) =
              (((start(p) + listed(p) * diff) % range(p)) + diff) % range(p)
      BY <1>7, <2>1, <2>2, <2>4, <3>1
    <3>3. (start(p) + listed(p) * diff) + diff = start(p) + (listed(p) + 1) * diff
      BY <1>10, <2>3, OnceMore
    <3>4. start(p) + listed(p) * diff \in Int
      BY <1>10, <2>3, OnceMore
    <3> HIDE DEF listed, start, range, diff
    <3>5. diff \in Int
      BY <1>10 DEF diff
    <3>6. (((start(p) + listed(p) * diff) % range(p)) + diff) % range(p)
              = ((start(p) + listed(p) * diff) + diff) % range(p)
      BY <2>3, <3>4, <3>5, ModOfSum
    <3> QED
      BY <3>2, <3>3, <3>6
  <2>5. ASSUME NEW p \in Valued, Whole(p), CellsOf(p) # CellsOf(q)
        PROVE  Held(mem', CellsOf(p)) = (start(p) + listed(p) * diff) % range(p)
    <3>1. CellsOf(q) \cap CellsOf(p) = {}
      BY <1>3, <2>5 DEF Whole
    <3>2. /\ p[1] \in DOMAIN image.blocks
          /\ p[2] \in DOMAIN image.blocks[p[1]].entries
          /\ p = <<p[1], p[2]>>
      BY ValuedPlaces
    <3>3. PICK a \in Nat, n \in Nat : CellsOf(p) = a .. (a + n - 1)
      BY <1>4, <3>2, CellsOfEntry
    <3>4. CellsOf(p) \subseteq Cells
      BY <1>4, <3>2, CellsOfEntry
    <3>5. \A c \in CellsOf(p) : mem'[c] = mem[c]
      BY <1>7, <3>1, <3>4
    <3>6. Held(mem', CellsOf(p)) = Held(mem, CellsOf(p))
      BY <3>3, <3>5, HeldStays
    <3> QED
      BY <2>1, <2>5, <3>6
  <2>6. ASSUME NEW c \in Cells, \A p \in Applied \cup {q} : c \notin CellsOf(p)
        PROVE  mem'[c] = image.contents[c]
    BY <1>7, <2>1, <2>6
  <2> HIDE DEF listed, start, range, diff
  <2> QED
    BY <2>3, <2>4, <2>5, <2>6
<1>14. ContentsTyped' /\ todo' \in Seq(Block) /\ entries' \in Seq(Entry)
  BY <1>1, <1>2, <1>7, ImageKept DEF RelocationInv, ContentsTyped
<1> QED
  BY <1>11, <1>12, <1>13, <1>14 DEF RelocationInv

LEMMA NextKeepsRelocation ==
    ASSUME RelocationInv, Next
    PROVE  RelocationInv'
<1>1. CASE NextBlock
  BY <1>1, BlockKeepsRelocation
<1>2. CASE RejectBlock
  BY <1>2, StageKeepsRelocation DEF RejectBlock, RelocationStages
<1>3. CASE ApplyEntry
  BY <1>3, ApplyKeepsRelocation
<1>4. CASE SkipEntry
  BY <1>4, SkipKeepsRelocation
<1>5. CASE RejectEntry
  BY <1>5, StageKeepsRelocation DEF RejectEntry, RelocationStages
<1>6. CASE Finish
  BY <1>6, StageKeepsRelocation DEF Finish, RelocationStages
<1> QED
  BY <1>1, <1>2, <1>3, <1>4, <1>5, <1>6 DEF Next

\* When the loops are through, every entry was applied.
LEMMA AllApplied ==
    ASSUME RelocationInv
    PROVE  NeutralAtPreferred /\ MovedAsListed
<1>1. NeutralAtPreferred
  BY DEF RelocationInv, NeutralAtPreferred
<1>2. ASSUME stage = "done"
      PROVE  Applied = Valued /\ MovedSoFar
  <2>1. /\ todo = <<>> /\ entries = <<>> /\ image \in Images
        /\ stage \in RelocationStages
    BY <1>2 DEF RelocationInv, InPlace, ContentsTyped, RelocationStages
  <2>2. Len(todo) = 0 /\ Len(entries) = 0
    BY <2>1
  <2>3. Taken = Len(image.blocks) /\ Len(image.blocks) \in Nat
    BY <2>1, <2>2, BlocksTyped DEF Taken
  <2>4. ASSUME NEW p \in Valued
        PROVE  p[1] < Taken \/ (p[1] = Taken /\ p[2] <= Through)
    <3>1. /\ p[1] \in DOMAIN image.blocks
          /\ p[2] \in DOMAIN image.blocks[p[1]].entries
      BY ValuedPlaces
    <3>2. /\ p[1] \in 1 .. Len(image.blocks)
          /\ p[2] \in 1 .. Len(image.blocks[p[1]].entries)
          /\ Len(image.blocks[p[1]].entries) \in Nat
      BY <2>1, <3>1, BlocksTyped
    <3> QED
      BY <2>2, <2>3, <3>2 DEF Through
  <2> QED
    BY <2>1, <2>4 DEF Applied, RelocationInv
<1>3. MovedAsListed
  BY <1>2 DEF MovedAsListed, MovedSoFar, BaseDiff
<1> QED
  BY <1>1, <1>3

\* Before the first block.
LEMMA NothingApplied ==
    ASSUME image \in Images, base \in Bases, mem \in [Cells -> Digit],
           todo = image.blocks, entries = <<>>, stage # "done",
           stage \in RelocationStages => mem = image.contents
    PROVE  RelocationInv
<1>1. Len(todo) = Len(image.blocks) /\ Len(image.blocks) \in Nat
  BY BlocksTyped
<1>2. Taken = 0
  BY <1>1 DEF Taken
<1>3. InPlace
  <2>1. \A i \in 1 .. Len(todo) : 0 + i = i
    BY <1>1
  <2> QED
    BY <1>2, <2>1 DEF InPlace
<1>4. Applied = {}
  <2>1. ASSUME NEW p \in Valued
        PROVE  p[1] \in Nat /\ p[1] > 0
    BY ValuedPlaces, BlocksTyped
  <2> QED
    BY <1>2, <2>1 DEF Applied
<1>5. ASSUME stage \in RelocationStages
      PROVE  NeutralAtPreferred /\ MovedSoFar
  <2>1. mem = image.contents
    BY <1>5
  <2>2. ASSUME NEW p \in Valued
        PROVE  Held(mem, CellsOf(p)) =
                   (Held(image.contents, CellsOf(p))
                       + Cardinality(SameValue(p, Applied)) * BaseDiff(image.contents))
                       % Power[Cardinality(CellsOf(p))]
    <3>1. SameValue(p, Applied) = {}
      BY <1>4 DEF SameValue
    <3>2. Cardinality(SameValue(p, Applied)) = 0
      BY <3>1, FS_EmptySet
    <3>3. BaseDiff(image.contents) \in Int
      BY <2>1, BaseDiffTyped DEF ContentsTyped
    <3>4. /\ Power[Cardinality(CellsOf(p))] \in Nat \ {0}
          /\ Held(mem, CellsOf(p)) \in 0 .. (Power[Cardinality(CellsOf(p))] - 1)
      BY <2>1, StartTyped
    <3> QED
      BY <2>1, <3>2, <3>3, <3>4
  <2> QED
    BY <2>1, <2>2 DEF NeutralAtPreferred, MovedSoFar
<1>6. todo \in Seq(Block) /\ entries \in Seq(Entry)
  BY BlocksTyped
<1> QED
  BY <1>3, <1>5, <1>6 DEF RelocationInv, ContentsTyped

\* The relocations move every value they list by the difference of the addresses,
\* as often as they list it, and leave an image alone that is where it prefers
\* to be.
THEOREM RelocationCorrect == Spec => [](NeutralAtPreferred /\ MovedAsListed)
<1>1. Init => RelocationInv
  <2> SUFFICES ASSUME Init PROVE RelocationInv
    OBVIOUS
  <2>1. image.contents \in [Cells -> Digit]
    BY ImagesAssumption DEF Init, Cells
  <2> QED
    BY <2>1, NothingApplied DEF Init
<1>2. RelocationInv /\ [Next]_vars => RelocationInv'
  <2>1. CASE UNCHANGED vars
    BY <2>1, StageKeepsRelocation DEF vars, RelocationInv, InPlace
  <2> QED
    BY <2>1, NextKeepsRelocation
<1>3. RelocationInv => NeutralAtPreferred /\ MovedAsListed
  BY AllApplied
<1> QED
  BY <1>1, <1>2, <1>3, PTL DEF Spec

-----------------------------------------------------------------------------
(* The whole way of an image *)

IInv == ListsTyped /\ StaysInImage

\* A step that leaves alone all that relocations go by.
LEMMA MappingKeepsIInv ==
    ASSUME IInv, UNCHANGED <<image, todo, entries, slice, touched>>
    PROVE  IInv'
  BY DEF IInv, ListsTyped, StaysInImage, Cells

\* The access that faults is inside the image, too.
LEMMA FaultKeepsIInv ==
    ASSUME IInv, RelocationFaults
    PROVE  IInv'
  <1>1. entries # <<>> /\ entries \in Seq(Entry)
    BY DEF IInv, ListsTyped, RelocationFaults, TouchesCommitted
  <1>2. Head(entries) \in Entry
    BY <1>1
  <1>3. ReadCells(Head(entries)) \subseteq Cells
    BY <1>2, EntryInImage DEF IInv
  <1>4. /\ UNCHANGED <<image, todo, entries, slice>>
        /\ touched' = touched \cup ReadCells(Head(entries))
    BY DEF RelocationFaults
  <1>5. ListsTyped' /\ Cells' = Cells
    BY <1>4 DEF IInv, ListsTyped, Cells
  <1> QED
    BY <1>3, <1>4, <1>5 DEF IInv, StaysInImage

LEMMA ContentsStepKeepsIInv ==
    ASSUME IInv, [ContentsNext]_<<vars, mappingVars>>
    PROVE  IInv'
  <1>1. CASE Relocate
    BY <1>1, StepStaysInImage DEF IInv, Relocate
  <1>2. CASE RelocationFaults
    BY <1>2, FaultKeepsIInv
  <1>3. CASE \/ HeadersRefused \/ CopyHeaders \/ SectionRefused \/ SectionFaults
             \/ MapSectionDirect \/ MapSectionIndirect \/ WriteRefused
             \/ StartRelocating \/ RelocateIndirect
    BY <1>3, MappingKeepsIInv
       DEF HeadersRefused, CopyHeaders, SectionRefused, SectionFaults,
           MapSectionDirect, MapSectionIndirect, WriteRefused,
           StartRelocating, RelocateIndirect, Copied, Stop
  <1>4. CASE UNCHANGED <<vars, mappingVars>>
    BY <1>4, MappingKeepsIInv DEF vars
  <1> QED
    BY <1>1, <1>2, <1>3, <1>4 DEF ContentsNext

\* From the first byte of its headers on, no relocation of an image reads or
\* writes outside of its memory.
THEOREM LoadStaysInImage == ContentsSpec => []StaysInImage
  <1>1. ContentsInit => IInv
    BY ImagesAssumption DEF ContentsInit, IInv, ListsTyped, StaysInImage, NoSlice
  <1>2. IInv /\ [ContentsNext]_<<vars, mappingVars>> => IInv'
    BY ContentsStepKeepsIInv
  <1>3. IInv => StaysInImage
    BY DEF IInv
  <1> QED
    BY <1>1, <1>2, <1>3, PTL DEF ContentsSpec

-----------------------------------------------------------------------------
(* Reading the file *)

\* Sizes and differences that did not wrap around.
LEMMA NoWrap ==
    ASSUME NEW x \in Int, 0 <= x, x < SizeLimit
    PROVE  x % SizeLimit = x
  BY SizesTyped

\* One that did is not zero.
LEMMA Wraps ==
    ASSUME NEW x \in Int, x < 0, -SizeLimit < x
    PROVE  x % SizeLimit = x + SizeLimit
  BY SizesTyped

\* An interval from a number on has as many members as it is long.
LEMMA IntervalSize ==
    ASSUME NEW a \in Int, NEW n \in Nat
    PROVE  Cardinality(a .. (a + n - 1)) = n
  BY FS_Interval

\* The places of a file are numbered from zero.
LEMMA FileTyped ==
    ASSUME image \in Images
    PROVE  /\ FileSize(image) \in Nat /\ FileSize(image) < SizeLimit
           /\ DOMAIN image.file = 0 .. (FileSize(image) - 1)
  <1>1. PICK n \in 0 .. (SizeLimit - 1) : image.file \in [0 .. (n - 1) -> Digit]
    BY FilesAssumption
  <1>2. DOMAIN image.file = 0 .. (n - 1) /\ n \in Nat /\ n < SizeLimit
    BY <1>1, SizesTyped
  <1>3. FileSize(image) = n
    BY <1>2, IntervalSize DEF FileSize
  <1> QED
    BY <1>2, <1>3

\* What is read from an offset in the file is in the file: all that was asked
\* for, or all there is.
LEMMA ReadInFile ==
    ASSUME image \in Images,
           NEW offset \in 0 .. (SizeLimit - 1), NEW size \in 0 .. (SizeLimit - 1),
           offset <= FileSize(image)
    PROVE  /\ FileCells(offset, size) =
                  offset .. (offset + Least(FileSize(image) - offset, size) - 1)
           /\ InFile(offset, size)
  <1>1. /\ FileSize(image) - offset \in Int
        /\ 0 <= FileSize(image) - offset /\ FileSize(image) - offset < SizeLimit
    BY FileTyped, SizesTyped
  <1>2. Clipped(FileSize(image), offset, size) = Least(FileSize(image) - offset, size)
    BY <1>1, NoWrap DEF Clipped
  <1>3. FileCells(offset, size) =
            offset .. (offset + Least(FileSize(image) - offset, size) - 1)
    BY <1>2 DEF FileCells
  <1> QED
    BY <1>3, FileTyped, SizesTyped DEF InFile, Least

\* And what is read from behind its end is not, if it is anything.
LEMMA ReadBehindFile ==
    ASSUME image \in Images,
           NEW offset \in 0 .. (SizeLimit - 1), NEW size \in 0 .. (SizeLimit - 1),
           InFile(offset, size), size > 0
    PROVE  offset <= FileSize(image)
  <1> SUFFICES ASSUME offset > FileSize(image)
               PROVE  FALSE
    BY FileTyped, SizesTyped
  <1> DEFINE left_ == (FileSize(image) - offset) % SizeLimit
  <1>1. /\ FileSize(image) - offset \in Int
        /\ FileSize(image) - offset < 0 /\ -SizeLimit < FileSize(image) - offset
    BY FileTyped, SizesTyped
  <1>2. left_ = FileSize(image) - offset + SizeLimit
    BY <1>1, Wraps
  <1>3. left_ \in Nat /\ left_ > 0
    BY <1>1, <1>2, SizesTyped
  <1> HIDE DEF left_
  <1>4. Least(left_, size) \in Nat /\ Least(left_, size) > 0
    BY <1>3, SizesTyped DEF Least
  <1>5. Clipped(FileSize(image), offset, size) = Least(left_, size)
    BY DEF Clipped, left_
  <1>6. offset \in FileCells(offset, size)
    BY <1>4, <1>5, SizesTyped DEF FileCells
  <1> QED
    BY <1>6, FileTyped, SizesTyped DEF InFile

\* A section has data in the file for a cell.
HasData(s, c) ==
    c \in s.va .. (s.va + s.rsize - 1) /\ s.raw + c - s.va < FileSize(image)

\* What the data of a section is read to: all of it that is in the file.
LEMMA SectionRead ==
    ASSUME image \in Images, NEW s \in Section, InFile(s.raw, s.rsize)
    PROVE  \E n \in Nat :
              /\ n <= s.rsize
              /\ Cardinality(FileCells(s.raw, s.rsize)) = n
              /\ FileCells(s.raw, s.rsize) = s.raw .. (s.raw + n - 1)
              /\ \A c \in Int : HasData(s, c) <=> c - s.va \in 0 .. (n - 1)
  <1>1. /\ s.raw \in 0 .. (SizeLimit - 1) /\ s.rsize \in 0 .. (SizeLimit - 1)
        /\ s.va \in 0 .. (SizeLimit - 1)
    BY DEF Section
  <1>2. CASE s.raw <= FileSize(image)
    <2> DEFINE n == Least(FileSize(image) - s.raw, s.rsize)
    <2>1. /\ n \in Nat /\ n <= s.rsize /\ n <= FileSize(image) - s.raw
          /\ (n = s.rsize \/ n = FileSize(image) - s.raw)
      BY <1>1, <1>2, FileTyped, SizesTyped DEF Least
    <2>2. FileCells(s.raw, s.rsize) = s.raw .. (s.raw + n - 1)
      BY <1>1, <1>2, ReadInFile
    <2> HIDE DEF n
    <2>3. Cardinality(FileCells(s.raw, s.rsize)) = n
      <3>1. s.raw \in Int
        BY <1>1, SizesTyped
      <3>2. Cardinality(s.raw .. (s.raw + n - 1)) = n
        BY <2>1, <3>1, IntervalSize
      <3> QED
        BY <2>2, <3>2
    <2>4. \A c \in Int : HasData(s, c) <=> c - s.va \in 0 .. (n - 1)
      <3>1. /\ s.raw \in Int /\ s.rsize \in Int /\ s.va \in Int
            /\ FileSize(image) \in Int
        BY <1>1, FileTyped, SizesTyped
      <3> QED
        BY <2>1, <3>1 DEF HasData
    <2> QED
      BY <2>1, <2>2, <2>3, <2>4
  <1>3. CASE s.raw > FileSize(image)
    <2>1. s.rsize = 0
      BY <1>1, <1>3, ReadBehindFile, FileTyped, SizesTyped
    <2>2. Clipped(FileSize(image), s.raw, s.rsize) \in 0 .. 0
      <3>1. FileSize(image) \in Int /\ s.raw \in Int
        BY <1>1, FileTyped, SizesTyped
      <3>2. Clipped(FileSize(image), s.raw, 0) \in 0 .. 0
        BY <3>1, ClippedBounded
      <3> QED
        BY <2>1, <3>2
    <2>3. FileCells(s.raw, s.rsize) = s.raw .. (s.raw + 0 - 1)
      BY <2>2 DEF FileCells
    <2>4. Cardinality(FileCells(s.raw, s.rsize)) = 0
      BY <1>1, <2>3, IntervalSize
    <2>5. \A c \in Int : HasData(s, c) <=> c - s.va \in 0 .. (0 - 1)
      BY <1>1, <2>1 DEF HasData
    <2> QED
      BY <1>1, <2>3, <2>4, <2>5
  <1> QED
    BY <1>1, <1>2, <1>3, FileTyped, SizesTyped

-----------------------------------------------------------------------------
(* What a copy leaves in the memory *)

\* The headers are copied as far as the file has them; the rest stays zero.
LEMMA HeadersStored ==
    ASSUME image \in Images, CopyHeaders, \A c \in Cells : mem[c] = 0
    PROVE  /\ \A c \in Cells :
                 mem'[c] = IF c < image.headers /\ c < FileSize(image)
                           THEN image.file[c] ELSE 0
           /\ FileCells(0, image.headers) \subseteq DOMAIN image.file
  <1> DEFINE h == image.headers
             f == FileSize(image)
             bytes == ReadInto(Zeros(h), 0, h)
  <1>1. h \in 0 .. (SizeLimit - 1) /\ h \in Nat /\ image.size \in Nat
    BY FilesAssumption, ImagesAssumption, SizesTyped
  <1>2. 0 \in 0 .. (SizeLimit - 1) /\ f \in Nat /\ DOMAIN image.file = 0 .. (f - 1)
    BY FileTyped, SizesTyped
  <1>3. FileCells(0, h) = 0 .. (0 + Least(f - 0, h) - 1) /\ InFile(0, h)
    BY <1>1, <1>2, ReadInFile
  <1>4. FileCells(0, h) = 0 .. (Least(f, h) - 1)
    BY <1>1, <1>2, <1>3 DEF Least
  <1>5. DOMAIN bytes = 0 .. (h - 1)
    BY DEF ReadInto, Zeros
  <1>6. \A i \in 0 .. (h - 1) :
            bytes[i] = IF i < f THEN image.file[i] ELSE 0
    BY <1>1, <1>2, <1>4 DEF ReadInto, Zeros, Least
  <1>7. mem' = [c \in Cells |-> IF c - 0 \in DOMAIN bytes THEN bytes[c - 0]
                                                      ELSE mem[c]]
    BY DEF CopyHeaders, Copied, Store
  <1> HIDE DEF bytes, h, f
  <1>8. ASSUME NEW c \in Cells
        PROVE  mem'[c] = IF c < h /\ c < f THEN image.file[c] ELSE 0
    <2>1. c \in Nat /\ c - 0 = c /\ mem[c] = 0
      BY <1>1 DEF Cells
    <2>2. mem'[c] = IF c \in 0 .. (h - 1) THEN bytes[c] ELSE 0
      BY <1>5, <1>7, <2>1
    <2> QED
      BY <1>1, <1>2, <1>6, <2>1, <2>2
  <1> QED
    BY <1>3, <1>8 DEF InFile, h, f

\* The sections to come are sections, and so is the next one.
LEMMA NextSection ==
    ASSUME left \in Seq(Section), left # <<>>
    PROVE  /\ Head(left) \in Section /\ Tail(left) \in Seq(Section)
           /\ Len(left) \in Nat \ {0} /\ Len(Tail(left)) = Len(left) - 1
           /\ left[1] = Head(left)
           /\ \A i \in 1 .. (Len(left) - 1) : Tail(left)[i] = left[i + 1]
  <1> HIDE DEF Section
  <1> QED
    OBVIOUS

\* Into an image that can be addressed, the data goes that the file has.
LEMMA DirectStored ==
    ASSUME image \in Images, left \in Seq(Section), MapSectionDirect
    PROVE  LET s == Head(left)
           IN  /\ \A c \in Cells :
                     mem'[c] = IF HasData(s, c) THEN image.file[s.raw + c - s.va]
                                                ELSE mem[c]
               /\ committed' = CommittedWith(s)
               /\ fetched' = fetched \cup FileCells(s.raw, s.rsize)
               /\ InFile(s.raw, s.rsize)
  <1> DEFINE s == Head(left)
             bytes == ReadInto(Zeros(Cardinality(FileCells(s.raw, s.rsize))),
                               s.raw, s.rsize)
  <1>1. s \in Section /\ s.va \in Int /\ s.raw \in Int
    BY NextSection, SizesTyped DEF MapSectionDirect, Section
  <1>2. /\ InFile(s.raw, s.rsize)
        /\ committed' = CommittedWith(s)
        /\ fetched' = fetched \cup FileCells(s.raw, s.rsize)
        /\ mem' = [c \in Cells |-> IF c - s.va \in DOMAIN bytes
                                   THEN bytes[c - s.va] ELSE mem[c]]
    BY DEF MapSectionDirect, FilePlace, Copied, Store
  <1>3. PICK n \in Nat :
            /\ Cardinality(FileCells(s.raw, s.rsize)) = n
            /\ FileCells(s.raw, s.rsize) = s.raw .. (s.raw + n - 1)
            /\ \A c \in Int : HasData(s, c) <=> c - s.va \in 0 .. (n - 1)
    BY <1>1, <1>2, SectionRead
  <1>4. /\ DOMAIN bytes = 0 .. (n - 1)
        /\ \A i \in 0 .. (n - 1) : bytes[i] = image.file[s.raw + i]
    <2>1. bytes = [i \in 0 .. (n - 1) |->
                     IF s.raw + i \in FileCells(s.raw, s.rsize) \cap DOMAIN image.file
                     THEN image.file[s.raw + i] ELSE Zeros(n)[i]]
      BY <1>3 DEF ReadInto, Zeros
    <2>2. \A i \in 0 .. (n - 1) :
              s.raw + i \in FileCells(s.raw, s.rsize) \cap DOMAIN image.file
      BY <1>1, <1>2, <1>3 DEF InFile
    <2> HIDE DEF bytes
    <2> QED
      BY <2>1, <2>2
  <1> HIDE DEF bytes, s
  <1>5. ASSUME NEW c \in Cells
        PROVE  mem'[c] = IF HasData(s, c) THEN image.file[s.raw + c - s.va]
                                          ELSE mem[c]
    <2>1. c \in Int /\ s.raw + (c - s.va) = s.raw + c - s.va
      BY <1>1, ImagesAssumption, SizesTyped DEF Cells
    <2>2. CASE HasData(s, c)
      BY <1>2, <1>3, <1>4, <2>1, <2>2
    <2>3. CASE ~HasData(s, c)
      BY <1>2, <1>3, <1>4, <2>1, <2>3
    <2> QED
      BY <2>2, <2>3
  <1> QED
    BY <1>2, <1>5 DEF s

\* By way of the buffer all cells of a section are written, those the file has
\* no data for with what the buffer had: they are cut off.
LEMMA IndirectStored ==
    ASSUME image \in Images, left \in Seq(Section), MapSectionIndirect
    PROVE  LET s == Head(left)
           IN  /\ \A c \in Cells :
                     /\ HasData(s, c) => mem'[c] = image.file[s.raw + c - s.va]
                     /\ c \notin s.va .. (s.va + s.rsize - 1) => mem'[c] = mem[c]
               /\ committed' = CommittedWith(s)
               /\ fetched' = fetched \cup FileCells(s.raw, s.rsize)
               /\ InFile(s.raw, s.rsize)
  <1> DEFINE s == Head(left)
             buf == BufferOf(s)
             bytes == WrittenOf(buf, s)
             w == Clipped(image.size, s.va, s.rsize)
  <1>1. /\ s \in Section /\ s.va \in Nat /\ s.raw \in Int
        /\ s.rsize \in Nat /\ s.vsize \in Nat
    BY NextSection, SizesTyped DEF MapSectionIndirect, Section
  <1>2. /\ InFile(s.raw, s.rsize) /\ Accepted(s)
        /\ committed' = CommittedWith(s)
        /\ fetched' = fetched \cup FileCells(s.raw, s.rsize)
        /\ mem' = [c \in Cells |-> IF c - s.va \in DOMAIN bytes
                                   THEN bytes[c - s.va] ELSE mem[c]]
    BY DEF MapSectionIndirect, FilePlace, Copied, Store
  <1>3. PICK n \in Nat :
            /\ n <= s.rsize
            /\ FileCells(s.raw, s.rsize) = s.raw .. (s.raw + n - 1)
            /\ \A c \in Int : HasData(s, c) <=> c - s.va \in 0 .. (n - 1)
    BY <1>1, <1>2, SectionRead
  <1>4. /\ DOMAIN buf = 0 .. (s.rsize - 1)
        /\ \A i \in 0 .. (n - 1) : buf[i] = image.file[s.raw + i]
    <2>1. DOMAIN Resized(buffer, s.rsize) = 0 .. (s.rsize - 1)
      BY DEF Resized
    <2>2. buf = [i \in 0 .. (s.rsize - 1) |->
                   IF s.raw + i \in FileCells(s.raw, s.rsize) \cap DOMAIN image.file
                   THEN image.file[s.raw + i] ELSE Resized(buffer, s.rsize)[i]]
      BY <2>1 DEF BufferOf, ReadInto, FilePlace
    <2>3. \A i \in 0 .. (n - 1) :
              /\ s.raw + i \in FileCells(s.raw, s.rsize) \cap DOMAIN image.file
              /\ i \in 0 .. (s.rsize - 1)
      BY <1>1, <1>2, <1>3 DEF InFile
    <2> HIDE DEF buf
    <2> QED
      BY <2>2, <2>3
  <1>5. Cardinality(DOMAIN buf) = s.rsize
    <2>1. s.rsize - 1 \in Int
      BY <1>1
    <2>2. Cardinality(0 .. (s.rsize - 1)) =
              IF 0 > s.rsize - 1 THEN 0 ELSE s.rsize - 1 - 0 + 1
      BY <2>1, FS_Interval
    <2> QED
      BY <1>1, <1>4, <2>2
  <1>6. /\ w \in Nat /\ w <= s.rsize
        /\ (w = s.rsize \/ w = image.size - s.va)
    <2>1. /\ image.size \in Nat /\ image.size < SizeLimit
          /\ s.va < image.size
      BY <1>1, <1>2, ImagesAssumption, SizesTyped DEF Accepted, CanCommit
    <2>2. /\ image.size - s.va \in Int /\ 0 <= image.size - s.va
          /\ image.size - s.va < SizeLimit
      BY <1>1, <2>1, SizesTyped
    <2>3. (image.size - s.va) % SizeLimit = image.size - s.va
      BY <2>2, NoWrap
    <2> QED
      BY <1>1, <2>2, <2>3 DEF Clipped, Least
  <1>7. /\ DOMAIN bytes = 0 .. (w - 1)
        /\ \A i \in 0 .. (w - 1) : bytes[i] = buf[i]
    <2>1. bytes = [i \in 0 .. (w - 1) |-> IF i \in DOMAIN buf THEN buf[i] ELSE 0]
      BY <1>5 DEF WrittenOf, Resized
    <2>2. \A i \in 0 .. (w - 1) : i \in DOMAIN buf
      BY <1>1, <1>4, <1>6
    <2> HIDE DEF bytes, buf, w
    <2> QED
      BY <2>1, <2>2
  <1> HIDE DEF bytes, buf, w, s
  <1>8. ASSUME NEW c \in Cells
        PROVE  /\ HasData(s, c) => mem'[c] = image.file[s.raw + c - s.va]
               /\ c \notin s.va .. (s.va + s.rsize - 1) => mem'[c] = mem[c]
    <2>1. /\ c \in Int /\ c < image.size /\ image.size \in Int
          /\ s.raw + (c - s.va) = s.raw + c - s.va
      BY <1>1, ImagesAssumption, SizesTyped DEF Cells
    <2>2. CASE HasData(s, c)
      <3>1. c - s.va \in 0 .. (n - 1) /\ c - s.va \in 0 .. (w - 1)
        BY <1>1, <1>3, <1>6, <2>1, <2>2
      <3>2. c \in s.va .. (s.va + s.rsize - 1)
        BY <2>2 DEF HasData
      <3> QED
        BY <1>2, <1>4, <1>7, <2>1, <3>1, <3>2
    <2>3. CASE c \notin s.va .. (s.va + s.rsize - 1)
      <3>1. ~ HasData(s, c)
        BY <2>3 DEF HasData
      <3>2. c - s.va \notin 0 .. (w - 1)
        BY <1>1, <1>6, <2>1, <2>3
      <3> QED
        BY <1>2, <1>7, <3>1, <3>2
    <2> QED
      BY <2>2, <2>3
  <1> QED
    BY <1>2, <1>8 DEF s

-----------------------------------------------------------------------------
(* The loop over the sections *)

\* The sections it has passed.
Passed == Len(image.sections) - Len(left)

\* It takes them in their order, after the headers, and all of them before
\* anything is relocated.
InOrder ==
    /\ left \in Seq(Section) /\ Len(left) <= Len(image.sections)
    /\ \A i \in 1 .. Len(left) : left[i] = image.sections[Passed + i]
    /\ stage = "headers" => Passed = 0
    /\ stage \in RelocationStages \cup {"mapped"} => left = <<>>

PassedAreCommitted ==
    \A k \in 1 .. Passed :
        PagesOf(image.sections[k].va, image.sections[k].vsize) \subseteq committed

\* The sections passed that have data for a cell.
PassedSources(c) == {k \in SourcesOf(image, c) : k <= Passed}

\* What is in a cell: something else at the end of a section that was cut off,
\* what the headers have, or the data of the last section there was for it.
CellSoFar(c) ==
    \/ ~direct /\ c \in CutOff
    \/ /\ PassedSources(c) = {}
       /\ mem[c] = IF c < image.headers /\ c < FileSize(image)
                   THEN image.file[c] ELSE 0
    \/ \E k \in PassedSources(c) :
          /\ \A j \in PassedSources(c) : j <= k
          /\ mem[c] = image.file[image.sections[k].raw + c - image.sections[k].va]

ContentsSoFar ==
    /\ stage = "headers" => \A c \in Cells : mem[c] = 0
    /\ stage \in {"sections", "relocating", "mapped"} /\ touched = {} =>
          \A c \in Cells : CellSoFar(c)

\* The inductive invariant of mapping.
MappingInv ==
    /\ image \in Images
    /\ InOrder /\ PassedAreCommitted /\ ContentsSoFar /\ ReadsStayInFile

\* The next section is the one after those passed.
LEMMA NextInOrder ==
    ASSUME image \in Images, InOrder, left # <<>>
    PROVE  /\ Passed \in Nat /\ Passed + 1 \in DOMAIN image.sections
           /\ image.sections \in Seq(Section)
           /\ Head(left) = image.sections[Passed + 1]
           /\ Head(left) \in Section
  <1>1. image.sections \in Seq(Section)
    BY FilesAssumption
  <1>2. /\ Len(image.sections) \in Nat
        /\ DOMAIN image.sections = 1 .. Len(image.sections)
    <2> HIDE DEF Section
    <2> QED
      BY <1>1
  <1>3. /\ Len(left) \in Nat \ {0} /\ left[1] = Head(left)
        /\ Head(left) \in Section
    BY NextSection DEF InOrder
  <1> QED
    BY <1>1, <1>2, <1>3 DEF InOrder, Passed

\* One section further.
LEMMA OnePassed ==
    ASSUME image \in Images, InOrder, left # <<>>, left' = Tail(left),
           stage = "sections", UNCHANGED <<image, stage>>
    PROVE  Passed' = Passed + 1 /\ InOrder'
  <1>1. Passed \in Nat /\ Passed + 1 \in DOMAIN image.sections
    BY NextInOrder
  <1>2. /\ Tail(left) \in Seq(Section)
        /\ Len(left) \in Nat \ {0} /\ Len(Tail(left)) = Len(left) - 1
        /\ \A i \in 1 .. (Len(left) - 1) : Tail(left)[i] = left[i + 1]
    BY NextSection DEF InOrder
  <1>3. Len(image.sections) \in Nat
    <2>1. image.sections \in Seq(Section)
      BY FilesAssumption
    <2> HIDE DEF Section
    <2> QED
      BY <2>1
  <1>4. Passed' = Passed + 1
    BY <1>2, <1>3 DEF Passed
  <1>5. ASSUME NEW i \in 1 .. Len(left')
        PROVE  left'[i] = image.sections[Passed' + i]
    <2>1. i \in 1 .. (Len(left) - 1) /\ i + 1 \in 1 .. Len(left)
      BY <1>2
    <2>2. left'[i] = image.sections[Passed + (i + 1)]
      BY <1>2, <2>1 DEF InOrder
    <2>3. Passed + (i + 1) = Passed' + i
      BY <1>1, <1>4, <2>1
    <2> QED
      BY <2>2, <2>3
  <1> QED
    BY <1>2, <1>3, <1>4, <1>5 DEF InOrder, RelocationStages

\* The sources of a cell that were passed grow by the next section, if it has
\* data for the cell.
LEMMA SourcesGrow ==
    ASSUME image \in Images, InOrder, left # <<>>, Passed' = Passed + 1,
           UNCHANGED image, NEW c \in Cells
    PROVE  PassedSources(c)' =
               PassedSources(c) \cup (IF HasData(Head(left), c)
                                      THEN {Passed + 1} ELSE {})
  <1> DEFINE k == Passed + 1
  <1>1. /\ Passed \in Nat /\ k \in DOMAIN image.sections
        /\ Head(left) = image.sections[k]
    BY NextInOrder
  <1>2. SourcesOf(image, c)' = SourcesOf(image, c)
    BY DEF SourcesOf, FileSize
  <1>3. k \in SourcesOf(image, c) <=> HasData(Head(left), c)
    BY <1>1 DEF SourcesOf, HasData
  <1>4. SourcesOf(image, c) \subseteq Int
    <2>1. image.sections \in Seq(Section)
      BY FilesAssumption
    <2>2. DOMAIN image.sections \subseteq Int
      <3> HIDE DEF Section
      <3> QED
        BY <2>1
    <2> QED
      BY <2>2 DEF SourcesOf
  <1>5. \A j \in SourcesOf(image, c) : j <= Passed' <=> (j <= Passed \/ j = k)
    BY <1>1, <1>4
  <1> QED
    BY <1>1, <1>2, <1>3, <1>5 DEF PassedSources

\* What a section leaves in a cell is what there should be so far.
LEMMA CellStep ==
    ASSUME image \in Images, InOrder, left # <<>>, Passed' = Passed + 1,
           UNCHANGED <<image, direct>>, NEW c \in Cells, CellSoFar(c),
           LET s == Head(left)
           IN  /\ HasData(s, c) => mem'[c] = image.file[s.raw + c - s.va]
               /\ ~HasData(s, c) => mem'[c] = mem[c] \/ (~direct /\ c \in CutOff)
    PROVE  CellSoFar(c)'
  <1> DEFINE s == Head(left)
             k == Passed + 1
  <1>1. Passed \in Nat /\ s = image.sections[k]
    BY NextInOrder
  <1>2. PassedSources(c)' =
            PassedSources(c) \cup (IF HasData(s, c) THEN {k} ELSE {})
    BY SourcesGrow
  <1>3. /\ CutOff' = CutOff /\ FileSize(image)' = FileSize(image)
        /\ image' = image /\ direct' = direct
    BY DEF CutOff, FileSize, Cells
  <1>4. CASE HasData(s, c)
    <2>1. k \in PassedSources(c)'
      BY <1>2, <1>4
    <2>2. \A j \in PassedSources(c)' : j <= k
      BY <1>1, <1>2, <1>4 DEF PassedSources
    <2>3. mem'[c] = image.file[image.sections[k].raw + c - image.sections[k].va]
      BY <1>1, <1>4
    <2> QED
      BY <2>1, <2>2, <2>3, <1>3 DEF CellSoFar
  <1>5. CASE ~HasData(s, c)
    <2>1. PassedSources(c)' = PassedSources(c)
      BY <1>2, <1>5
    <2>2. mem'[c] = mem[c] \/ (~direct /\ c \in CutOff)
      BY <1>5
    <2> QED
      BY <2>1, <2>2, <1>3 DEF CellSoFar
  <1> QED
    BY <1>4, <1>5

\* With them all, what the headers declare.
LEMMA AllPassed ==
    ASSUME MappingInv
    PROVE  MappedAsDeclared
  <1> SUFFICES ASSUME stage \in {"relocating", "mapped"}, touched = {},
                      NEW c \in Cells, ~(~direct /\ c \in CutOff)
               PROVE  mem[c] = image.contents[c]
    BY DEF MappedAsDeclared
  <1> DEFINE S == SourcesOf(image, c)
  <1>1. image.contents = Declared(image)
    BY FilesAssumption DEF MappingInv
  <1>2. CellSoFar(c)
    BY DEF MappingInv, ContentsSoFar
  <1>3. image.sections \in Seq(Section) /\ left = <<>>
    BY FilesAssumption DEF MappingInv, InOrder, RelocationStages
  <1>4. /\ DOMAIN image.sections = 1 .. Len(image.sections)
        /\ Len(image.sections) \in Nat /\ Len(left) = 0
    <2> HIDE DEF Section
    <2> QED
      BY <1>3
  <1>5. PassedSources(c) = S
    BY <1>4 DEF PassedSources, Passed, SourcesOf
  <1>6. S \subseteq Int
    BY <1>4 DEF SourcesOf
  <1>7. image.contents[c] =
            IF S # {}
            THEN image.file[image.sections[Max(S)].raw + c - image.sections[Max(S)].va]
            ELSE IF c < image.headers /\ c < FileSize(image)
                 THEN image.file[c] ELSE 0
    BY <1>1 DEF Declared, Cells
  <1>8. ASSUME NEW k \in S, \A j \in S : j <= k
        PROVE  Max(S) = k
    <2>1. \A x \in S : (\A y \in S : x >= y) => x = k
      BY <1>6, <1>8
    <2>2. \A y \in S : k >= y
      BY <1>6, <1>8
    <2> HIDE DEF S
    <2> QED
      BY <1>8, <2>1, <2>2 DEF Max
  <1> HIDE DEF S
  <1> QED
    BY <1>2, <1>5, <1>7, <1>8 DEF CellSoFar

\* Mapping a section faults only if the sections are not well formed.
LEMMA FaultsExplained ==
    ASSUME MappingInv, SectionFaults
    PROVE  ~WellFormed
  <1> SUFFICES ASSUME WellFormed
               PROVE  FALSE
    OBVIOUS
  <1> DEFINE s == Head(left)
             k == Passed + 1
  <1>1. /\ Passed \in Nat /\ k \in DOMAIN image.sections
        /\ s = image.sections[k] /\ s \in Section
    BY NextInOrder DEF MappingInv, SectionFaults
  <1>2. /\ s.raw \in 0 .. (SizeLimit - 1) /\ s.rsize \in 0 .. (SizeLimit - 1)
        /\ s.va \in Nat /\ s.rsize \in Nat
    BY <1>1, SizesTyped DEF Section
  <1>3. /\ s.raw <= FileSize(image)
        /\ s.rsize > 0 => \E j \in 1 .. k :
              s.va .. (s.va + s.rsize - 1) \subseteq
                  PagesOf(image.sections[j].va, image.sections[j].vsize)
    BY <1>1 DEF WellFormed
  <1>4. InFile(s.raw, s.rsize)
    BY <1>2, <1>3, ReadInFile DEF MappingInv
  <1>5. PICK n \in Nat : n <= s.rsize /\ Cardinality(FileCells(s.raw, s.rsize)) = n
    BY <1>1, <1>4, SectionRead DEF MappingInv
  <1>6. ~(s.va .. (s.va + n - 1) \subseteq CommittedWith(s))
    BY <1>4, <1>5 DEF SectionFaults, FilePlace
  <1>7. s.rsize > 0
    BY <1>2, <1>5, <1>6
  <1>8. PICK j \in 1 .. k :
            s.va .. (s.va + s.rsize - 1) \subseteq
                PagesOf(image.sections[j].va, image.sections[j].vsize)
    BY <1>3, <1>7
  <1>9. PagesOf(image.sections[j].va, image.sections[j].vsize) \subseteq CommittedWith(s)
    BY <1>1 DEF MappingInv, PassedAreCommitted, CommittedWith
  <1>10. s.va .. (s.va + n - 1) \subseteq s.va .. (s.va + s.rsize - 1)
    BY <1>2, <1>5
  <1> QED
    BY <1>6, <1>8, <1>9, <1>10

\* A step that ends the load, with the sections left that were.
LEMMA KeepsMapping ==
    ASSUME MappingInv, UNCHANGED <<image, mappingVars>>,
           stage' # "headers", stage' \notin {"sections", "relocating", "mapped"},
           stage' \in RelocationStages => left = <<>>,
           stage' = "faulted" /\ left # <<>> => ~WellFormed
    PROVE  MappingInv'
  <1>1. UNCHANGED <<image, direct, left, buffer, committed, fetched>>
    BY DEF mappingVars
  <1>2. Passed' = Passed /\ (WellFormed' <=> WellFormed)
    BY <1>1 DEF Passed, WellFormed, FileSize, PagesOf, Cells
  <1>3. InOrder'
    BY <1>1, <1>2 DEF MappingInv, InOrder, RelocationStages
  <1>4. PassedAreCommitted'
    BY <1>1, <1>2 DEF MappingInv, PassedAreCommitted, PagesOf, Cells
  <1>5. ContentsSoFar'
    BY DEF ContentsSoFar
  <1>6. ReadsStayInFile'
    BY <1>1, <1>2 DEF MappingInv, ReadsStayInFile
  <1> QED
    BY <1>1, <1>3, <1>4, <1>5, <1>6 DEF MappingInv

\* A step after the sections, which relocates nothing.
LEMMA KeepsContents ==
    ASSUME MappingInv, UNCHANGED <<image, mappingVars>>,
           stage \in {"sections", "relocating", "mapped"},
           stage' \in RelocationStages \cup {"mapped"}, left = <<>>,
           touched' = {} => touched = {} /\ \A c \in Cells : mem'[c] = mem[c]
    PROVE  MappingInv'
  <1>1. UNCHANGED <<image, direct, left, buffer, committed, fetched>>
    BY DEF mappingVars
  <1>2. /\ Passed' = Passed /\ Cells' = Cells /\ CutOff' = CutOff
        /\ stage' # "headers" /\ stage' # "faulted"
    BY <1>1 DEF Passed, Cells, CutOff, FileSize, RelocationStages
  <1>3. InOrder'
    BY <1>1, <1>2 DEF MappingInv, InOrder
  <1>4. PassedAreCommitted'
    BY <1>1, <1>2 DEF MappingInv, PassedAreCommitted, PagesOf, Cells
  <1>5. ASSUME NEW c \in Cells, touched' = {}
        PROVE  CellSoFar(c)'
    <2>1. CellSoFar(c) /\ mem'[c] = mem[c]
      BY <1>5 DEF MappingInv, ContentsSoFar
    <2>2. PassedSources(c)' = PassedSources(c) /\ FileSize(image)' = FileSize(image)
      BY <1>1, <1>2 DEF PassedSources, SourcesOf, FileSize
    <2> QED
      BY <1>1, <1>2, <2>1, <2>2 DEF CellSoFar
  <1>6. ContentsSoFar'
    BY <1>2, <1>5 DEF ContentsSoFar
  <1>7. ReadsStayInFile'
    BY <1>1, <1>2 DEF MappingInv, ReadsStayInFile
  <1> QED
    BY <1>1, <1>3, <1>4, <1>6, <1>7 DEF MappingInv

\* A section is copied.
LEMMA KeepsOrder ==
    ASSUME MappingInv, left # <<>>, left' = Tail(left), stage = "sections",
           UNCHANGED <<image, direct, touched, stage>>,
           committed' = CommittedWith(Head(left)),
           InFile(Head(left).raw, Head(left).rsize),
           fetched' = fetched \cup FileCells(Head(left).raw, Head(left).rsize),
           \A c \in Cells :
              LET s == Head(left)
              IN  /\ HasData(s, c) => mem'[c] = image.file[s.raw + c - s.va]
                  /\ ~HasData(s, c) => mem'[c] = mem[c] \/ (~direct /\ c \in CutOff)
    PROVE  MappingInv'
  <1>1. Passed' = Passed + 1 /\ InOrder'
    BY OnePassed DEF MappingInv
  <1>2. /\ Passed \in Nat /\ Head(left) = image.sections[Passed + 1]
        /\ Cells' = Cells
    BY NextInOrder DEF MappingInv, Cells
  <1>3. PassedAreCommitted'
    <2>1. ASSUME NEW k \in 1 .. Passed'
          PROVE  PagesOf(image.sections[k].va, image.sections[k].vsize)
                     \subseteq CommittedWith(Head(left))
      <3>1. k \in 1 .. Passed \/ k = Passed + 1
        BY <1>1, <1>2
      <3> QED
        BY <1>2, <3>1 DEF MappingInv, PassedAreCommitted, CommittedWith
    <2> QED
      BY <1>2, <2>1 DEF PassedAreCommitted, PagesOf
  <1>4. ASSUME NEW c \in Cells, touched = {}
        PROVE  CellSoFar(c)'
    <2>1. CellSoFar(c)
      BY <1>4 DEF MappingInv, ContentsSoFar
    <2> QED
      BY <1>1, <2>1, CellStep DEF MappingInv
  <1>5. ContentsSoFar'
    BY <1>2, <1>4 DEF ContentsSoFar
  <1>6. ReadsStayInFile'
    BY DEF MappingInv, ReadsStayInFile, InFile
  <1> QED
    BY <1>1, <1>3, <1>5, <1>6 DEF MappingInv

\* The headers are copied first.
LEMMA HeadersKeepMapping ==
    ASSUME MappingInv, CopyHeaders
    PROVE  MappingInv'
  <1>1. /\ stage = "headers" /\ stage' = "sections"
        /\ UNCHANGED <<image, direct, left, touched>>
        /\ fetched' = fetched \cup FileCells(0, image.headers)
    BY DEF CopyHeaders, Copied
  <1>2. /\ \A c \in Cells :
              mem'[c] = IF c < image.headers /\ c < FileSize(image)
                        THEN image.file[c] ELSE 0
        /\ FileCells(0, image.headers) \subseteq DOMAIN image.file
    BY <1>1, HeadersStored DEF MappingInv, ContentsSoFar
  <1>3. Passed = 0 /\ Passed' = 0 /\ Cells' = Cells /\ FileSize(image)' = FileSize(image)
    BY <1>1 DEF MappingInv, InOrder, Passed, Cells, FileSize
  <1>4. InOrder'
    BY <1>1, <1>3 DEF MappingInv, InOrder, RelocationStages
  <1>5. PassedAreCommitted'
    BY <1>3 DEF PassedAreCommitted
  <1>6. ASSUME NEW c \in Cells
        PROVE  CellSoFar(c)'
    <2>1. PassedSources(c)' = {}
      <3>1. image.sections \in Seq(Section)
        BY FilesAssumption DEF MappingInv
      <3>2. \A k \in DOMAIN image.sections : k \in Nat /\ k > 0
        <4> HIDE DEF Section
        <4> QED
          BY <3>1
      <3> QED
        BY <1>1, <1>3, <3>2 DEF PassedSources, SourcesOf
    <2> QED
      BY <1>1, <1>2, <1>3, <2>1 DEF CellSoFar
  <1>7. ContentsSoFar'
    BY <1>1, <1>3, <1>6 DEF ContentsSoFar
  <1>8. ReadsStayInFile'
    BY <1>1, <1>2 DEF MappingInv, ReadsStayInFile
  <1> QED
    BY <1>1, <1>4, <1>5, <1>7, <1>8 DEF MappingInv

\* A relocation that touched nothing changed nothing.
LEMMA RelocationsKeepMapping ==
    ASSUME MappingInv, Relocate
    PROVE  MappingInv'
  <1>1. /\ stage = "relocating" /\ stage' \in RelocationStages
        /\ UNCHANGED <<image, mappingVars>>
    BY DEF Relocate, Next, NextBlock, RejectBlock, ApplyEntry, SkipEntry,
           RejectEntry, Finish, RelocationStages
  <1>2. left = <<>>
    BY <1>1 DEF MappingInv, InOrder, RelocationStages
  <1>3. touched' = {} => touched = {} /\ \A c \in Cells : mem'[c] = mem[c]
    <2>1. CASE NextBlock \/ RejectBlock \/ SkipEntry \/ RejectEntry \/ Finish
      BY <2>1 DEF NextBlock, RejectBlock, SkipEntry, RejectEntry, Finish
    <2>2. CASE ApplyEntry
      <3> SUFFICES ASSUME touched' = {}
                   PROVE  touched = {} /\ \A c \in Cells : mem'[c] = mem[c]
        OBVIOUS
      <3>1. touched = {} /\ WrittenCells(Head(entries)) = {}
        BY <2>2 DEF ApplyEntry
      <3>2. PICK rest : ModifyValue(Head(entries), rest)
        BY <2>2 DEF ApplyEntry
      <3> QED
        BY <3>1, <3>2 DEF ModifyValue
    <2> QED
      BY <2>1, <2>2 DEF Relocate, Next
  <1> QED
    BY <1>1, <1>2, <1>3, KeepsContents

LEMMA ContentsStepKeepsMapping ==
    ASSUME MappingInv, [ContentsNext]_<<vars, mappingVars>>
    PROVE  MappingInv'
  <1>1. CASE HeadersRefused \/ SectionRefused \/ WriteRefused
    BY <1>1, KeepsMapping
    DEF HeadersRefused, SectionRefused, WriteRefused, Stop, RelocationStages
  <1>2. CASE SectionFaults
    BY <1>2, KeepsMapping, FaultsExplained DEF SectionFaults, Stop, RelocationStages
  <1>3. CASE CopyHeaders
    BY <1>3, HeadersKeepMapping
  <1>4. CASE MapSectionDirect
    <2>1. /\ left # <<>> /\ left' = Tail(left) /\ stage = "sections"
          /\ UNCHANGED <<image, direct, touched, stage>>
      BY <1>4 DEF MapSectionDirect, Copied
    <2> QED
      BY <1>4, <2>1, DirectStored, KeepsOrder DEF MappingInv, InOrder
  <1>5. CASE MapSectionIndirect
    <2>1. /\ left # <<>> /\ left' = Tail(left) /\ stage = "sections"
          /\ UNCHANGED <<image, direct, touched, stage>> /\ ~direct
      BY <1>5 DEF MapSectionIndirect, Copied
    <2> DEFINE s == Head(left)
    <2>2. /\ \A c \in Cells :
                /\ HasData(s, c) => mem'[c] = image.file[s.raw + c - s.va]
                /\ c \notin s.va .. (s.va + s.rsize - 1) => mem'[c] = mem[c]
          /\ committed' = CommittedWith(s)
          /\ fetched' = fetched \cup FileCells(s.raw, s.rsize)
          /\ InFile(s.raw, s.rsize)
      BY <1>5, IndirectStored DEF MappingInv, InOrder
    <2>3. ASSUME NEW c \in Cells, ~HasData(s, c), c \in s.va .. (s.va + s.rsize - 1)
          PROVE  c \in CutOff
      <3>1. /\ Passed + 1 \in DOMAIN image.sections
            /\ s = image.sections[Passed + 1] /\ s \in Section
        BY <2>1, NextInOrder DEF MappingInv
      <3>2. s.raw + c - s.va \in Int
        BY <3>1, ImagesAssumption, SizesTyped DEF MappingInv, Section, Cells
      <3>3. s.raw + c - s.va >= FileSize(image)
        BY <2>3, <3>2, FileTyped DEF MappingInv, HasData
      <3> QED
        BY <2>3, <3>1, <3>3 DEF CutOff
    <2>4. \A c \in Cells : ~HasData(s, c) => mem'[c] = mem[c] \/ c \in CutOff
      BY <2>2, <2>3
    <2> QED
      BY <2>1, <2>2, <2>4, KeepsOrder
  <1>6. CASE StartRelocating
    BY <1>6, KeepsContents DEF StartRelocating, Stop, RelocationStages
  <1>7. CASE RelocateIndirect
    <2>1. CASE image.blocks = <<>>
      BY <1>7, <2>1, KeepsContents DEF RelocateIndirect, Stop, RelocationStages
    <2>2. CASE image.blocks # <<>>
      BY <1>7, <2>2, KeepsMapping DEF RelocateIndirect, Stop, RelocationStages
    <2> QED
      BY <2>1, <2>2
  <1>8. CASE RelocationFaults
    <2>1. stage = "relocating"
      BY <1>8 DEF RelocationFaults, TouchesCommitted
    <2>2. left = <<>>
      BY <2>1 DEF MappingInv, InOrder, RelocationStages
    <2> QED
      BY <1>8, <2>2, KeepsMapping DEF RelocationFaults, RelocationStages
  <1>9. CASE Relocate
    BY <1>9, RelocationsKeepMapping
  <1>10. CASE UNCHANGED <<vars, mappingVars>>
    <2>1. UNCHANGED <<image, mem, touched, stage, direct, left, committed, fetched>>
      BY <1>10 DEF vars, mappingVars
    <2>2. /\ Passed' = Passed /\ Cells' = Cells /\ CutOff' = CutOff
          /\ FileSize(image)' = FileSize(image) /\ (WellFormed' <=> WellFormed)
      BY <2>1 DEF Passed, Cells, CutOff, FileSize, WellFormed, PagesOf
    <2>3. InOrder' /\ PassedAreCommitted' /\ ReadsStayInFile'
      BY <2>1, <2>2
      DEF MappingInv, InOrder, PassedAreCommitted, ReadsStayInFile, PagesOf
    <2>4. ASSUME NEW c \in Cells, CellSoFar(c)
          PROVE  CellSoFar(c)'
      <3>1. PassedSources(c)' = PassedSources(c)
        BY <2>1, <2>2 DEF PassedSources, SourcesOf, FileSize
      <3> QED
        BY <2>1, <2>2, <2>4, <3>1 DEF CellSoFar
    <2>5. ContentsSoFar'
      BY <2>1, <2>2, <2>4 DEF MappingInv, ContentsSoFar
    <2> QED
      BY <2>1, <2>3, <2>5 DEF MappingInv
  <1> QED
    BY <1>1, <1>2, <1>3, <1>4, <1>5, <1>6, <1>7, <1>8, <1>9, <1>10 DEF ContentsNext

LEMMA MappingInit ==
    ASSUME ContentsInit
    PROVE  MappingInv
  <1>1. image.sections \in Seq(Section)
    BY FilesAssumption DEF ContentsInit
  <1>2. Len(image.sections) \in Nat
    <2> HIDE DEF Section
    <2> QED
      BY <1>1
  <1>3. Passed = 0 /\ left = image.sections /\ stage = "headers"
    BY <1>2 DEF ContentsInit, Passed
  <1>4. InOrder
    BY <1>1, <1>2, <1>3 DEF InOrder, RelocationStages
  <1>5. PassedAreCommitted
    BY <1>3 DEF PassedAreCommitted
  <1>6. ContentsSoFar /\ ReadsStayInFile
    BY DEF ContentsInit, ContentsSoFar, ReadsStayInFile, Zeros, Cells
  <1> QED
    BY <1>4, <1>5, <1>6 DEF ContentsInit, MappingInv

\* What is mapped is what the headers declare, and what the file is too short
\* for is neither read nor faults: for all files, headers, sections and memory
\* managers.
THEOREM MappingCorrect == ContentsSpec => [](MappedAsDeclared /\ ReadsStayInFile)
  <1>1. ContentsInit => MappingInv
    BY MappingInit
  <1>2. MappingInv /\ [ContentsNext]_<<vars, mappingVars>> => MappingInv'
    BY ContentsStepKeepsMapping
  <1>3. MappingInv => MappedAsDeclared /\ ReadsStayInFile
    BY AllPassed DEF MappingInv
  <1> QED
    BY <1>1, <1>2, <1>3, PTL DEF ContentsSpec

-----------------------------------------------------------------------------
(* The contents of a loaded image *)

\* The relocations find the lists as the image has them.
NotStarted ==
    stage \in {"headers", "sections"} =>
        todo = image.blocks /\ entries = <<>> /\ touched = {}

\* The inductive invariant of the whole way.
LoadInv ==
    /\ ContentsTypeOK
    /\ IInv /\ MappingInv /\ RelocationInv
    /\ NotStarted

\* Mapping is over before any relocation, and what it leaves is typed.
LEMMA MappingKeepsRelocation ==
    ASSUME RelocationInv, UNCHANGED <<image, base, todo, entries, slice>>,
           mem' \in [Cells -> Digit], stage' \notin RelocationStages
    PROVE  RelocationInv'
<1>1. Taken' = Taken /\ Through' = Through
  BY DEF Taken, Through
<1>2. InPlace'
  BY <1>1 DEF RelocationInv, InPlace, Slice, Clipped, RelocationStages
<1>3. ContentsTyped' /\ todo' \in Seq(Block) /\ entries' \in Seq(Entry)
  BY ImageKept DEF RelocationInv, ContentsTyped
<1> QED
  BY <1>2, <1>3 DEF RelocationInv

LEMMA MappedNext == MappingInv' => MappedAsDeclared'
<1>1. MappingInv => MappedAsDeclared
  BY AllPassed
<1> QED
  BY <1>1, PTL

LEMMA NothingAppliedNext ==
    (/\ image \in Images /\ base \in Bases /\ mem \in [Cells -> Digit]
     /\ todo = image.blocks /\ entries = <<>> /\ stage # "done"
     /\ stage \in RelocationStages => mem = image.contents)' => RelocationInv'
<1>1. /\ image \in Images /\ base \in Bases /\ mem \in [Cells -> Digit]
      /\ todo = image.blocks /\ entries = <<>> /\ stage # "done"
      /\ stage \in RelocationStages => mem = image.contents
      => RelocationInv
  BY NothingApplied
<1> QED
  BY <1>1, PTL

\* The relocations start with what the headers declare.
LEMMA StartKeepsRelocation ==
    ASSUME LoadInv, StartRelocating, MappingInv'
    PROVE  RelocationInv'
<1>1. /\ stage = "sections" /\ stage' = "relocating" /\ direct
      /\ UNCHANGED <<image, base, mem, todo, entries, slice, touched, direct>>
  BY DEF StartRelocating, Stop, mappingVars
<1>2. /\ image \in Images /\ base \in Bases /\ mem \in [Cells -> Digit]
      /\ todo = image.blocks /\ entries = <<>> /\ touched = {}
  BY <1>1 DEF LoadInv, RelocationInv, ContentsTyped, NotStarted
<1>3. Cells' = Cells
  BY <1>1, ImageKept
<1>4. mem = image.contents
  <2>1. \A c \in Cells : mem[c] = image.contents[c]
    BY <1>1, <1>2, <1>3, MappedNext DEF MappedAsDeclared
  <2>2. image.contents \in [Cells -> Digit]
    BY <1>2, ImagesAssumption DEF Cells
  <2> QED
    BY <1>2, <2>1, <2>2
<1> QED
  BY <1>1, <1>2, <1>3, <1>4, NothingAppliedNext

-----------------------------------------------------------------------------
(* What is copied are digits *)

Bytes(bytes) == \A i \in DOMAIN bytes : bytes[i] \in Digit

LEMMA ZeroIsDigit == 0 \in Digit
  BY RadixTyped DEF Digit

LEMMA ZerosTyped ==
    ASSUME NEW size
    PROVE  Bytes(Zeros(size)) /\ DOMAIN Zeros(size) = 0 .. (size - 1)
  BY ZeroIsDigit DEF Bytes, Zeros

LEMMA ReadTyped ==
    ASSUME image \in Images, NEW into, Bytes(into), NEW offset, NEW size
    PROVE  /\ Bytes(ReadInto(into, offset, size))
           /\ ReadInto(into, offset, size) \in [DOMAIN into -> Digit]
<1>1. PICK n : image.file \in [0 .. (n - 1) -> Digit]
  BY FilesAssumption
<1>2. \A j \in DOMAIN image.file : image.file[j] \in Digit
  BY <1>1
<1> QED
  BY <1>2 DEF Bytes, ReadInto

LEMMA ResizedTyped ==
    ASSUME NEW bytes, Bytes(bytes), NEW size
    PROVE  Bytes(Resized(bytes, size)) /\ DOMAIN Resized(bytes, size) = 0 .. (size - 1)
  BY ZeroIsDigit DEF Bytes, Resized

LEMMA StoredTyped ==
    ASSUME mem \in [Cells -> Digit], NEW bytes, Bytes(bytes), NEW first,
           Store(bytes, first)
    PROVE  mem' \in [Cells -> Digit]
<1>1. \A c \in Cells : (IF c - first \in DOMAIN bytes THEN bytes[c - first]
                                                      ELSE mem[c]) \in Digit
  BY DEF Bytes
<1>2. mem' = [c \in Cells |-> IF c - first \in DOMAIN bytes THEN bytes[c - first]
                                                            ELSE mem[c]]
  BY DEF Store
<1> QED
  BY <1>1, <1>2

\* The parts of the memory and of the buffer that are written are digits.
LEMMA CopiesTyped ==
    ASSUME image \in Images, mem \in [Cells -> Digit], Bytes(buffer),
           CopyHeaders \/ MapSectionDirect \/ MapSectionIndirect
    PROVE  mem' \in [Cells -> Digit]
<1>1. CASE CopyHeaders
  <2> DEFINE bytes == ReadInto(Zeros(image.headers), 0, image.headers)
  <2>1. Bytes(bytes)
    BY ZerosTyped, ReadTyped
  <2>2. Store(bytes, 0)
    BY <1>1 DEF CopyHeaders, Copied
  <2> QED
    BY <2>1, <2>2, StoredTyped
<1>2. CASE MapSectionDirect
  <2> DEFINE s == Head(left)
             read == FileCells(FilePlace(s), s.rsize)
             bytes == ReadInto(Zeros(Cardinality(read)), FilePlace(s), s.rsize)
  <2>1. Bytes(bytes)
    BY ZerosTyped, ReadTyped
  <2>2. Store(bytes, s.va)
    BY <1>2 DEF MapSectionDirect, Copied
  <2> QED
    BY <2>1, <2>2, StoredTyped
<1>3. CASE MapSectionIndirect
  <2> DEFINE s == Head(left)
             bytes == WrittenOf(BufferOf(s), s)
  <2>1. Bytes(BufferOf(s))
    BY ResizedTyped, ReadTyped DEF BufferOf
  <2>2. Bytes(bytes)
    BY <2>1, ResizedTyped DEF WrittenOf
  <2>3. Store(bytes, s.va)
    BY <1>3 DEF MapSectionIndirect, Copied
  <2> QED
    BY <2>2, <2>3, StoredTyped
<1> QED
  BY <1>1, <1>2, <1>3

LEMMA LoadKeepsRelocation ==
    ASSUME LoadInv, [ContentsNext]_<<vars, mappingVars>>, MappingInv'
    PROVE  RelocationInv'
<1>1. RelocationInv /\ image \in Images /\ mem \in [Cells -> Digit]
  BY DEF LoadInv, RelocationInv, ContentsTyped
<1>2. CASE \/ HeadersRefused \/ SectionRefused \/ SectionFaults \/ WriteRefused
           \/ RelocateIndirect \/ RelocationFaults
  <2>1. /\ UNCHANGED <<image, base, mem, todo, entries, slice>>
        /\ stage' \in {"refused", "faulted", "mapped"}
    BY <1>2 DEF HeadersRefused, SectionRefused, SectionFaults, WriteRefused,
                RelocateIndirect, RelocationFaults, Stop
  <2> QED
    BY <1>1, <2>1, StageKeepsRelocation DEF RelocationStages
<1>3. CASE CopyHeaders \/ MapSectionDirect \/ MapSectionIndirect
  <2>1. /\ UNCHANGED <<image, base, todo, entries, slice>>
        /\ stage' = "sections"
    BY <1>3 DEF CopyHeaders, MapSectionDirect, MapSectionIndirect, Copied
  <2>2. Bytes(buffer)
    BY DEF LoadInv, ContentsTypeOK, Bytes
  <2>3. mem' \in [Cells -> Digit]
    BY <1>1, <1>3, <2>2, CopiesTyped
  <2> QED
    BY <1>1, <2>1, <2>3, MappingKeepsRelocation DEF RelocationStages
<1>4. CASE StartRelocating
  BY <1>4, StartKeepsRelocation
<1>5. CASE Relocate
  BY <1>1, <1>5, NextKeepsRelocation DEF Relocate
<1>6. CASE UNCHANGED <<vars, mappingVars>>
  BY <1>1, <1>6, StageKeepsRelocation DEF vars, RelocationInv, InPlace
<1> QED
  BY <1>2, <1>3, <1>4, <1>5, <1>6 DEF ContentsNext

\* The slice of a block is one of the image.
LEMMA SliceTyped ==
    ASSUME image \in Images, NEW i \in DOMAIN image.blocks
    PROVE  Slice(image.blocks[i]) \in [start : Nat, size : 0 .. (SizeLimit - 1),
                                       offset : 0 .. (SizeLimit - 1)]
<1> DEFINE block == image.blocks[i]
           size == Clipped(image.size, block.va, block.size)
<1>1. /\ block.va \in Nat /\ block.size \in Nat
      /\ block.size < SizeLimit /\ block.va < SizeLimit
  BY BlocksTyped
<1>2. size \in 0 .. (SizeLimit - 1)
  <2>1. image.size \in Int
    BY ImagesAssumption, SizesTyped
  <2>2. block.va \in Int /\ block.size \in Nat
    BY <1>1
  <2>3. size \in 0 .. block.size
    BY <2>1, <2>2, ClippedBounded
  <2> HIDE DEF size, block
  <2> QED
    BY <1>1, <2>3, SizesTyped
<1>3. block.va \in 0 .. (SizeLimit - 1)
  BY <1>1, SizesTyped
<1> QED
  BY <1>2, <1>3 DEF Slice

LEMMA LoadKeepsTypes ==
    ASSUME LoadInv, [ContentsNext]_<<vars, mappingVars>>,
           IInv', RelocationInv', MappingInv'
    PROVE  ContentsTypeOK'
<1>1. UNCHANGED image /\ image \in Images /\ Cells' = Cells
  <2>1. UNCHANGED image
    BY DEF ContentsNext, vars, HeadersRefused, CopyHeaders, SectionRefused,
           SectionFaults, MapSectionDirect, MapSectionIndirect, WriteRefused,
           StartRelocating, RelocateIndirect, RelocationFaults, Relocate, Copied,
           Stop, Next, NextBlock, RejectBlock, ApplyEntry, SkipEntry, RejectEntry,
           Finish
  <2> QED
    BY <2>1, ImageKept DEF LoadInv, MappingInv
<1>2. /\ image' \in Images /\ base' \in Bases /\ mem' \in [Cells' -> Digit]
      /\ todo' \in Seq(Block) /\ entries' \in Seq(Entry) /\ left' \in Seq(Section)
  BY DEF RelocationInv, ContentsTyped, MappingInv, InOrder
<1>3. image'.contents \in [Cells' -> Digit]
  BY <1>1, ImagesAssumption DEF Cells
<1>4. touched' \subseteq Nat
  <2>1. image.size \in Int
    BY <1>1, ImagesAssumption, SizesTyped
  <2>2. Cells \subseteq Nat
    BY <2>1 DEF Cells
  <2> QED
    BY <1>1, <2>2 DEF IInv, StaysInImage
<1>5. slice' \in [start : Nat, size : 0 .. (SizeLimit - 1), offset : 0 .. (SizeLimit - 1)]
  <2>1. CASE NextBlock
    <3>1. /\ todo # <<>> /\ slice' = Slice(Head(todo))
      BY <2>1 DEF NextBlock
    <3>2. Taken + 1 \in DOMAIN image.blocks /\ Head(todo) = image.blocks[Taken + 1]
      BY <3>1, NextOfBlocks DEF LoadInv
    <3> QED
      BY <1>1, <3>1, <3>2, SliceTyped
  <2>2. CASE slice' = slice
    BY <2>2 DEF LoadInv, ContentsTypeOK, TypeOK
  <2>3. NextBlock \/ slice' = slice
    BY DEF ContentsNext, vars, HeadersRefused, CopyHeaders, SectionRefused,
           SectionFaults, MapSectionDirect, MapSectionIndirect, WriteRefused,
           StartRelocating, RelocateIndirect, RelocationFaults, Relocate, Copied,
           Stop, Next, RejectBlock, ApplyEntry, SkipEntry, RejectEntry, Finish
  <2> QED
    BY <2>1, <2>2, <2>3
<1>6. stage' \in RelocationStages \cup MappingStages
  <2>1. stage \in RelocationStages \cup MappingStages
    BY DEF LoadInv, ContentsTypeOK, TypeOK
  <2> QED
    BY <2>1
    DEF ContentsNext, vars, HeadersRefused, CopyHeaders, SectionRefused,
        SectionFaults, MapSectionDirect, MapSectionIndirect, WriteRefused,
        StartRelocating, RelocateIndirect, RelocationFaults, Relocate, Copied,
        Stop, Next, NextBlock, RejectBlock, ApplyEntry, SkipEntry, RejectEntry,
        Finish, RelocationStages, MappingStages
<1>7. direct' \in BOOLEAN
  BY DEF LoadInv, ContentsTypeOK, ContentsNext, vars, mappingVars, HeadersRefused,
         CopyHeaders, SectionRefused, SectionFaults, MapSectionDirect,
         MapSectionIndirect, WriteRefused, StartRelocating, RelocateIndirect,
         RelocationFaults, Relocate, Copied, Stop
<1>8. buffer' \in [0 .. (Cardinality(DOMAIN buffer') - 1) -> Digit]
  <2>1. CASE buffer' = buffer
    BY <2>1 DEF LoadInv, ContentsTypeOK
  <2>2. CASE MapSectionIndirect
    <3> DEFINE s == Head(left)
    <3>1. buffer' = BufferOf(s) /\ left # <<>>
      BY <2>2 DEF MapSectionIndirect
    <3>2. s \in Section
      BY <1>1, <3>1, NextInOrder DEF LoadInv, MappingInv
    <3>3. Bytes(buffer)
      BY DEF LoadInv, ContentsTypeOK, Bytes
    <3>4. BufferOf(s) \in [0 .. (s.rsize - 1) -> Digit]
      BY <1>1, <3>3, ResizedTyped, ReadTyped DEF BufferOf
    <3>5. s.rsize \in Nat
      BY <3>2, SizesTyped DEF Section
    <3>6. Cardinality(0 .. (s.rsize - 1)) = s.rsize
      <4>1. Cardinality(0 .. (0 + s.rsize - 1)) = s.rsize
        BY <3>5, IntervalSize
      <4>2. 0 + s.rsize - 1 = s.rsize - 1
        BY <3>5
      <4> QED
        BY <4>1, <4>2
    <3> HIDE DEF s
    <3>7. DOMAIN buffer' = 0 .. (s.rsize - 1)
      BY <3>1, <3>4
    <3> QED
      BY <3>1, <3>4, <3>6, <3>7
  <2>3. buffer' = buffer \/ MapSectionIndirect
    BY DEF ContentsNext, mappingVars, HeadersRefused, CopyHeaders, SectionRefused,
           SectionFaults, MapSectionDirect, WriteRefused, StartRelocating,
           RelocateIndirect, RelocationFaults, Relocate, Stop
  <2> QED
    BY <2>1, <2>2, <2>3
<1>9. committed' \subseteq Cells'
  <2>1. committed \subseteq Cells
    BY DEF LoadInv, ContentsTypeOK
  <2>2. \A first, size : PagesOf(first, size) \subseteq Cells
    BY DEF PagesOf
  <2>3. CASE CopyHeaders \/ MapSectionDirect \/ MapSectionIndirect
    BY <1>1, <2>1, <2>2, <2>3
    DEF CopyHeaders, MapSectionDirect, MapSectionIndirect, Copied, CommittedWith
  <2>4. committed' = committed \/ CopyHeaders \/ MapSectionDirect \/ MapSectionIndirect
    BY DEF ContentsNext, mappingVars, HeadersRefused, SectionRefused,
           SectionFaults, WriteRefused, StartRelocating, RelocateIndirect,
           RelocationFaults, Relocate, Stop
  <2> QED
    BY <1>1, <2>1, <2>3, <2>4
<1>10. fetched' \subseteq Nat
  <2>1. fetched' \subseteq DOMAIN image'.file
    BY DEF MappingInv, ReadsStayInFile
  <2>2. DOMAIN image.file \subseteq Nat
    <3>1. DOMAIN image.file = 0 .. (FileSize(image) - 1) /\ FileSize(image) \in Nat
      BY <1>1, FileTyped
    <3> QED
      BY <3>1
  <2> QED
    BY <1>1, <2>1, <2>2
<1>11. TypeOK'
  BY <1>2, <1>3, <1>4, <1>5, <1>6 DEF TypeOK
<1> QED
  BY <1>2, <1>7, <1>8, <1>9, <1>10, <1>11 DEF ContentsTypeOK

LEMMA StepKeepsLoadInv ==
    ASSUME LoadInv, [ContentsNext]_<<vars, mappingVars>>
    PROVE  LoadInv'
<1>1. IInv' /\ MappingInv'
  BY ContentsStepKeepsIInv, ContentsStepKeepsMapping DEF LoadInv
<1>2. RelocationInv'
  BY <1>1, LoadKeepsRelocation
<1>3. ContentsTypeOK'
  BY <1>1, <1>2, LoadKeepsTypes
<1>4. NotStarted'
  <2>1. CASE Relocate \/ RelocationFaults
    BY <2>1 DEF NotStarted, Relocate, RelocationFaults, TouchesCommitted, Next,
                NextBlock, RejectBlock, ApplyEntry, SkipEntry, RejectEntry, Finish
  <2>2. CASE \/ HeadersRefused \/ SectionRefused \/ SectionFaults \/ WriteRefused
             \/ StartRelocating \/ RelocateIndirect
    BY <2>2 DEF NotStarted, HeadersRefused, SectionRefused, SectionFaults,
                WriteRefused, StartRelocating, RelocateIndirect, Stop
  <2>3. CASE CopyHeaders \/ MapSectionDirect \/ MapSectionIndirect
    <3>1. /\ stage \in {"headers", "sections"}
          /\ UNCHANGED <<image, todo, entries, touched>>
      BY <2>3 DEF CopyHeaders, MapSectionDirect, MapSectionIndirect, Copied
    <3> QED
      BY <3>1 DEF NotStarted, LoadInv
  <2>4. CASE UNCHANGED <<vars, mappingVars>>
    BY <2>4 DEF NotStarted, LoadInv, vars
  <2> QED
    BY <2>1, <2>2, <2>3, <2>4 DEF ContentsNext
<1> QED
  BY <1>1, <1>2, <1>3, <1>4 DEF LoadInv

\* An image that ends up where it prefers to be is as its headers declare, and
\* in one that does not, each value the relocations list has moved by the
\* difference of the addresses, as often as they list it, and nothing else has:
\* for all files, headers, sections and relocation directories, from the first
\* byte copied.
THEOREM LoadCorrect ==
    ContentsSpec => [](ContentsTypeOK /\ NeutralAtPreferred /\ MovedAsListed)
<1>1. ContentsInit => LoadInv
  <2> SUFFICES ASSUME ContentsInit PROVE LoadInv
    OBVIOUS
  <2>1. IInv
    BY ImagesAssumption DEF ContentsInit, IInv, ListsTyped, StaysInImage, NoSlice
  <2>2. MappingInv
    BY MappingInit
  <2>3. image \in Images /\ image.contents \in [Cells -> Digit] /\ image.size \in Nat
    BY ImagesAssumption, SizesTyped DEF ContentsInit, Cells
  <2>4. mem \in [Cells -> Digit]
    BY ZeroIsDigit DEF ContentsInit, Zeros, Cells
  <2>5. RelocationInv
    BY <2>3, <2>4, NothingApplied DEF ContentsInit, RelocationStages
  <2>6. buffer \in [0 .. (Cardinality(DOMAIN buffer) - 1) -> Digit]
    <3>1. buffer = [i \in {} |-> 0] /\ DOMAIN buffer = {}
      BY DEF ContentsInit, Zeros
    <3>2. Cardinality({}) = 0 /\ 0 .. (0 - 1) = {}
      BY FS_EmptySet
    <3> QED
      BY <3>1, <3>2
  <2>7. TypeOK
    <3>1. slice \in [start : Nat, size : 0 .. (SizeLimit - 1),
                     offset : 0 .. (SizeLimit - 1)]
      BY SizesTyped DEF ContentsInit, NoSlice
    <3>2. stage \in MappingStages /\ touched = {} /\ base \in Bases
      BY DEF ContentsInit, MappingStages
    <3>3. todo \in Seq(Block) /\ entries \in Seq(Entry)
      BY <2>1 DEF IInv, ListsTyped
    <3> QED
      BY <2>3, <2>4, <3>1, <3>2, <3>3 DEF TypeOK
  <2>8. left \in Seq(Section) /\ direct \in BOOLEAN /\ committed = {} /\ fetched = {}
    BY <2>2 DEF ContentsInit, MappingInv, InOrder
  <2>9. NotStarted
    BY DEF ContentsInit, NotStarted
  <2> QED
    BY <2>1, <2>2, <2>5, <2>6, <2>7, <2>8, <2>9 DEF LoadInv, ContentsTypeOK
<1>2. LoadInv /\ [ContentsNext]_<<vars, mappingVars>> => LoadInv'
  BY StepKeepsLoadInv
<1>3. LoadInv => ContentsTypeOK /\ NeutralAtPreferred /\ MovedAsListed
  BY AllApplied DEF LoadInv
<1> QED
  BY <1>1, <1>2, <1>3, PTL DEF ContentsSpec

=============================================================================
