--------------------------- MODULE CodeGenProofs ---------------------------
(***************************************************************************)
(* Generated code is where its chunks were told, and fills the memory that *)
(* was measured for it, whatever the chunks and wherever the memory.       *)
(***************************************************************************)
EXTENDS CodeGen, NumberFacts

SizesAddUp ==
    /\ BlockSize[0] = 0
    /\ \A n \in Nat : BlockSize[n + 1] = BlockSize[n] + MaxSize(chunks[n + 1])

\* The size of a block is the sum it is defined as.
LEMMA SizesDefined == SizesAddUp
<1> DEFINE t == [n \in Nat |-> MaxSize(chunks[n])]
<1>1. PICK g : g = [n \in Nat |-> IF n = 0 THEN 0 ELSE g[n - 1] + t[n]]
  BY SumsExist
<1>2. g = [n \in Nat |-> IF n = 0 THEN 0 ELSE g[n - 1] + MaxSize(chunks[n])]
  BY <1>1
<1>3. BlockSize = [n \in Nat |-> IF n = 0 THEN 0
                                 ELSE BlockSize[n - 1] + MaxSize(chunks[n])]
  BY <1>2 DEF BlockSize
<1>4. \A n \in Nat : n + 1 \in Nat /\ n + 1 # 0 /\ (n + 1) - 1 = n
  OBVIOUS
<1> HIDE DEF BlockSize
<1> QED BY <1>3, <1>4 DEF SizesAddUp

LEMMA SizesDefinedNext == SizesAddUp'
BY SizesDefined, PTL

LEMMA SizesStay == chunks' = chunks => BlockSize' = BlockSize
BY DEF BlockSize

-----------------------------------------------------------------------------
(* Sizes *)

\* A chunk has at least one byte, and a call has one more than its parameters.
LEMMA ChunkSizes ==
    ASSUME NEW chunk \in Chunk
    PROVE  /\ MaxSize(chunk) \in Nat \ {0}
           /\ chunk.kind # "call" => PlainSize(chunk) = MaxSize(chunk)
           /\ chunk.kind = "call" =>
                 /\ ProcParametersSize(chunk.params) \in Nat
                 /\ MaxSize(chunk) = ProcParametersSize(chunk.params) + CallSize
                 /\ chunk.target \in 0 .. (AddressLimit - 1)
<1> USE DEF MaxSize, SyscallSize, ProcParametersSize, CallSize
<1>1. CASE chunk.kind = "call"
  <2>1. chunk.params \in Nat /\ chunk.target \in Targets
    BY <1>1, LimitsAssumption DEF Chunk
  <2> QED
    BY <1>1, <2>1, LimitsAssumption
<1>2. CASE chunk.kind = "syscall"
  <2>1. chunk.params \in Nat
    BY <1>2, LimitsAssumption DEF Chunk
  <2>2. PlainSize(chunk) = SyscallSize(chunk.params)
    BY <1>2 DEF PlainSize
  <2> QED
    BY <1>2, <2>1, <2>2
<1>3. CASE chunk.kind \in {"prolog", "epilog", "return value"}
  <2>1. /\ chunk.kind = "prolog" => PlainSize(chunk) = 4
        /\ chunk.kind = "epilog" => PlainSize(chunk) = 5
        /\ chunk.kind = "return value" => PlainSize(chunk) = 10
    BY DEF PlainSize
  <2>2. PlainSize(chunk) \in {4, 5, 10}
    BY <1>3, <2>1
  <2>3. chunk.kind # "call"
    BY <1>3
  <2>4. MaxSize(chunk) = PlainSize(chunk)
    BY <2>3
  <2> HIDE DEF MaxSize
  <2> QED
    BY <2>2, <2>3, <2>4
<1>4. chunk.kind \in {"call", "syscall", "prolog", "epilog", "return value"}
  BY DEF Chunk
<1> QED
  BY <1>1, <1>2, <1>3, <1>4

\* Up to the number of chunks, sizes are numbers and do not shrink.
SizesGrow ==
    \A n \in 0 .. Len(chunks) :
        /\ BlockSize[n] \in Nat
        /\ \A m \in 0 .. n : BlockSize[m] <= BlockSize[n]

LEMMA SizesAreOrdered ==
    ASSUME chunks \in Seq(Chunk)
    PROVE  SizesGrow
<1> DEFINE S == {n \in Nat : n <= Len(chunks) =>
                    /\ BlockSize[n] \in Nat
                    /\ \A m \in 0 .. n : /\ BlockSize[m] \in Nat
                                         /\ BlockSize[m] <= BlockSize[n]}
<1>1. 0 \in S
  BY SizesDefined DEF SizesAddUp
<1>2. ASSUME NEW n \in Nat, n \in S
      PROVE  n + 1 \in S
  <2> SUFFICES ASSUME n + 1 <= Len(chunks)
               PROVE  /\ BlockSize[n + 1] \in Nat
                      /\ \A m \in 0 .. n + 1 : /\ BlockSize[m] \in Nat
                                               /\ BlockSize[m] <= BlockSize[n + 1]
    OBVIOUS
  <2>1. n <= Len(chunks) /\ n + 1 \in DOMAIN chunks
    OBVIOUS
  <2>2. MaxSize(chunks[n + 1]) \in Nat
    BY <2>1, ChunkSizes
  <2>3. BlockSize[n + 1] = BlockSize[n] + MaxSize(chunks[n + 1])
    BY SizesDefined DEF SizesAddUp
  <2>4. /\ BlockSize[n] \in Nat
        /\ \A m \in 0 .. n : BlockSize[m] \in Nat /\ BlockSize[m] <= BlockSize[n]
    BY <1>2, <2>1
  <2>5. ASSUME NEW m \in 0 .. n + 1
        PROVE  BlockSize[m] \in Nat /\ BlockSize[m] <= BlockSize[n + 1]
    <3>1. CASE m = n + 1
      BY <3>1, <2>2, <2>3, <2>4
    <3>2. CASE m \in 0 .. n
      <4>1. BlockSize[m] <= BlockSize[n] /\ BlockSize[m] \in Nat
        BY <2>4, <3>2
      <4> QED BY <4>1, <2>2, <2>3, <2>4
    <3> QED BY <3>1, <3>2
  <2> QED BY <2>2, <2>3, <2>4, <2>5
<1> HIDE DEF S
<1>3. Nat \subseteq S
  BY <1>1, <1>2, AllNumbers
<1>4. Len(chunks) \in Nat
  OBVIOUS
<1> QED
  BY <1>3, <1>4 DEF S, SizesGrow

-----------------------------------------------------------------------------
(* The inductive invariant *)

\* How far the client has come.
Stages ==
    /\ Len(chunks) <= MaxChunks /\ Len(told) <= Len(chunks)
    /\ stage = "building" => told = <<>> /\ place = 0
    /\ stage # "building" =>
          size = BlockSize[Len(chunks)] /\ place + size < AddressLimit
    /\ stage = "executable" => Len(told) = Len(chunks)

\* Chunks are told places one behind the other, and the sink is there, too.
Counters ==
    /\ emitted = BlockSize[Len(told)]
    /\ \A i \in DOMAIN told : told[i] = place + BlockSize[i - 1]
    /\ stage # "thrown" => offset = emitted

\* Memory is filled from its start.
Filled ==
    /\ stage # "thrown" => DOMAIN code = place .. (place + emitted - 1)
    /\ stage = "thrown" => DOMAIN code \subseteq place .. (place + size - 1)

CodeInv == TypeOK /\ Stages /\ Counters /\ Filled /\ PlacedWhereTold

-----------------------------------------------------------------------------
(* Bytes *)

\* What a chunk appends goes behind what there is, as long as there is room.
LEMMA AppendFits ==
    ASSUME TypeOK, NEW from \in Nat, NEW n \in Nat,
           offset + n <= size, size < AddressLimit,
           AppendBytes(from, n)
    PROVE  /\ offset' = offset + n
           /\ DOMAIN code' = DOMAIN code \cup (place + offset) .. (place + offset + n - 1)
           /\ \A k \in 0 .. n - 1 : code'[place + offset + k] = <<Current, from + k>>
           /\ \A a \in DOMAIN code : a < place + offset => code'[a] = code[a]
           /\ Current \in 1 .. MaxChunks /\ Range(code) \subseteq (1 .. MaxChunks) \X Nat
                 => Range(code') \subseteq (1 .. MaxChunks) \X Nat
<1> DEFINE left == (size - offset) % AddressLimit
           taken == IF left < n THEN left ELSE n
           New == (place + offset) .. (place + offset + n - 1)
           bytes == [a \in New |-> <<Current, a - place - offset + from>>]
<1>1. place \in Nat /\ size \in Nat /\ offset \in Nat
  BY DEF TypeOK
<1>2. left = size - offset
  <2>1. size - offset \in 0 .. (AddressLimit - 1)
    BY <1>1, LimitsAssumption
  <2> QED
    BY <2>1, LimitsAssumption
<1>3. taken = n
  BY <1>1, <1>2
<1> HIDE DEF left, taken
<1>4. /\ code' = [a \in DOMAIN code \cup DOMAIN bytes |->
                     IF a \in DOMAIN bytes THEN bytes[a] ELSE code[a]]
      /\ offset' = offset + n
  BY <1>3 DEF AppendBytes, left, taken
<1>5. /\ DOMAIN code' = DOMAIN code \cup New
      /\ \A a \in New : code'[a] = <<Current, a - place - offset + from>>
      /\ \A a \in DOMAIN code \ New : code'[a] = code[a]
  BY <1>4
<1>6. ASSUME NEW k \in 0 .. n - 1
      PROVE  code'[place + offset + k] = <<Current, from + k>>
  <2>1. /\ place + offset + k \in New
        /\ (place + offset + k) - place - offset + from = from + k
    BY <1>1
  <2> QED
    BY <1>5, <2>1
<1>7. ASSUME NEW a \in DOMAIN code, a < place + offset
      PROVE  code'[a] = code[a]
  <2>1. a \notin New
    BY <1>1, <1>7
  <2> QED
    BY <1>5, <2>1
<1>8. ASSUME Current \in 1 .. MaxChunks, Range(code) \subseteq (1 .. MaxChunks) \X Nat,
             NEW a \in DOMAIN code'
      PROVE  code'[a] \in (1 .. MaxChunks) \X Nat
  <2>1. CASE a \in New
    <3>1. a - place - offset + from \in Nat
      BY <1>1, <2>1
    <3> QED
      BY <1>5, <1>8, <2>1, <3>1
  <2>2. CASE a \notin New
    <3>1. a \in DOMAIN code /\ code'[a] = code[a]
      BY <1>5, <2>2
    <3> QED
      BY <3>1, <1>8 DEF Range
  <2> QED
    BY <2>1, <2>2
<1>9. ASSUME Current \in 1 .. MaxChunks, Range(code) \subseteq (1 .. MaxChunks) \X Nat
      PROVE  Range(code') \subseteq (1 .. MaxChunks) \X Nat
  BY <1>8, <1>9 DEF Range
<1> QED
  BY <1>4, <1>5, <1>6, <1>7, <1>9

\* The sizes of a chunk that is emitted, and of what there is before it.
LEMMA NextChunk ==
    ASSUME CodeInv, stage = "emitting", Current <= Len(chunks)
    PROVE  /\ Current \in DOMAIN chunks /\ Current \in 1 .. MaxChunks
           /\ chunks[Current] \in Chunk
           /\ emitted \in Nat /\ offset = emitted /\ place \in Nat
           /\ BlockSize[Current] = emitted + MaxSize(chunks[Current])
           /\ emitted + MaxSize(chunks[Current]) <= size
           /\ place + size < AddressLimit /\ size \in Nat
<1>1. chunks \in Seq(Chunk) /\ told \in Seq(0 .. (AddressLimit - 1))
  BY DEF CodeInv, TypeOK
<1>2. Len(told) \in Nat /\ Len(chunks) \in Nat /\ MaxChunks \in Nat
  BY <1>1, LimitsAssumption
<1>3. Current \in DOMAIN chunks /\ Current \in 1 .. MaxChunks
  BY <1>1, <1>2 DEF Current, CodeInv, Stages
<1>4. BlockSize[Current] = BlockSize[Len(told)] + MaxSize(chunks[Current])
  BY <1>2, SizesDefined DEF SizesAddUp, Current
<1>5. BlockSize[Current] <= BlockSize[Len(chunks)]
  <2>1. Current \in 0 .. Len(chunks) /\ Len(chunks) \in 0 .. Len(chunks)
    BY <1>2, <1>3
  <2> QED
    BY <1>1, <2>1, SizesAreOrdered DEF SizesGrow
<1> QED
  BY <1>1, <1>3, <1>4, <1>5 DEF CodeInv, TypeOK, Stages, Counters

\* A chunk that is emitted as a whole.
LEMMA EmitKeepsCodeInv ==
    ASSUME CodeInv, stage = "emitting", Current <= Len(chunks),
           told' = Append(told, Location),
           AppendBytes(0, MaxSize(chunks[Current])),
           emitted' = emitted + MaxSize(chunks[Current]),
           UNCHANGED <<chunks, place, size, stage>>,
           DOMAIN distance' \subseteq DOMAIN chunks,
           Range(distance') \subseteq 0 .. (Imm32Limit - 1)
    PROVE  CodeInv'
<1> DEFINE n == MaxSize(chunks[Current])
<1>1. /\ Current \in DOMAIN chunks /\ Current \in 1 .. MaxChunks
      /\ emitted \in Nat /\ offset = emitted /\ place \in Nat
      /\ BlockSize[Current] = emitted + n /\ emitted + n <= size
      /\ place + size < AddressLimit /\ size \in Nat
      /\ n \in Nat \ {0}
  BY NextChunk, ChunkSizes
<1>2. TypeOK /\ Stages /\ Counters /\ Filled /\ PlacedWhereTold
  BY DEF CodeInv
<1>3. AddressLimit \in Nat
  BY LimitsAssumption
<1>4. told \in Seq(0 .. (AddressLimit - 1)) /\ Len(told) \in Nat /\ DOMAIN told = 1 .. Len(told)
  BY <1>2 DEF TypeOK
<1>5. Location = place + emitted /\ Location \in 0 .. (AddressLimit - 1)
  BY <1>1, <1>3 DEF Location
<1>6. /\ told' \in Seq(0 .. (AddressLimit - 1))
      /\ Len(told') = Current /\ DOMAIN told' = 1 .. Current
      /\ \A i \in DOMAIN told : told'[i] = told[i]
      /\ told'[Current] = place + emitted
      /\ DOMAIN told' = DOMAIN told \cup {Current} /\ Current \notin DOMAIN told
  BY <1>4, <1>5 DEF Current
<1> HIDE DEF n
<1>7. /\ offset' = offset + n
      /\ DOMAIN code' = DOMAIN code \cup (place + offset) .. (place + offset + n - 1)
      /\ \A k \in 0 .. n - 1 : code'[place + offset + k] = <<Current, 0 + k>>
      /\ \A a \in DOMAIN code : a < place + offset => code'[a] = code[a]
      /\ Range(code') \subseteq (1 .. MaxChunks) \X Nat
  <2>1. AppendBytes(0, n)
    BY DEF n
  <2>2. offset + n <= size /\ size < AddressLimit
    BY <1>1, <1>3
  <2>3. Range(code) \subseteq (1 .. MaxChunks) \X Nat
    BY <1>2 DEF TypeOK
  <2> QED
    BY <1>1, <1>2, <2>1, <2>2, <2>3, AppendFits
<1>8. BlockSize' = BlockSize
  BY SizesStay
<1>9. DOMAIN code' = place .. (place + (emitted + n) - 1)
  <2>1. DOMAIN code = place .. (place + emitted - 1)
    BY <1>2 DEF Filled
  <2> QED
    BY <2>1, <1>1, <1>7
<1>10. TypeOK'
  <2>1. {size, emitted, offset}' \subseteq Nat
    BY <1>1, <1>7 DEF n
  <2>2. (DOMAIN code)' \subseteq 0 .. (AddressLimit - 1)
    BY <1>1, <1>3, <1>9
  <2> QED
    BY <1>2, <1>6, <1>7, <2>1, <2>2 DEF TypeOK
<1>11. Stages'
  BY <1>1, <1>2, <1>6, <1>8 DEF Stages
<1>12. Counters'
  <2>1. emitted' = BlockSize'[Len(told')] /\ offset' = emitted'
    BY <1>1, <1>6, <1>7, <1>8 DEF n
  <2>2. ASSUME NEW i \in DOMAIN told'
        PROVE  told'[i] = place' + BlockSize'[i - 1]
    <3>1. CASE i \in DOMAIN told
      BY <3>1, <1>2, <1>6, <1>8 DEF Counters
    <3>2. CASE i = Current
      <4>1. i - 1 = Len(told)
        BY <3>2, <1>4 DEF Current
      <4> QED
        BY <3>2, <4>1, <1>2, <1>6, <1>8 DEF Counters
    <3> QED
      BY <3>1, <3>2, <1>6
  <2> QED
    BY <2>1, <2>2 DEF Counters
<1>13. Filled'
  BY <1>1, <1>9 DEF Filled, n
<1>14. PlacedWhereTold'
  <2> SUFFICES ASSUME NEW i \in DOMAIN told', NEW k \in 0 .. (MaxSize(chunks[i]) - 1)
               PROVE  /\ told'[i] + k \in DOMAIN code'
                      /\ code'[told'[i] + k] = <<i, k>>
    BY DEF PlacedWhereTold
  <2>1. CASE i = Current
    BY <2>1, <1>1, <1>6, <1>7 DEF n
  <2>2. CASE i \in DOMAIN told
    <3>1. told[i] + k \in DOMAIN code /\ code[told[i] + k] = <<i, k>>
      BY <2>2, <1>2 DEF PlacedWhereTold
    <3>2. DOMAIN code = place .. (place + emitted - 1)
      BY <1>2 DEF Filled
    <3>3. told[i] + k < place + offset
      BY <3>1, <3>2, <1>1
    <3> QED
      BY <2>2, <3>1, <3>3, <1>6, <1>7
  <2> QED
    BY <2>1, <2>2, <1>6
<1> QED
  BY <1>10, <1>11, <1>12, <1>13, <1>14 DEF CodeInv

\* A call that cannot be encoded, after its parameters.
LEMMA ThrowKeepsCodeInv ==
    ASSUME CodeInv, CallThrows
    PROVE  CodeInv'
<1> DEFINE n == ProcParametersSize(chunks[Current].params)
<1>1. stage = "emitting" /\ Current <= Len(chunks) /\ chunks[Current].kind = "call"
  BY DEF CallThrows
<1>2. /\ Current \in 1 .. MaxChunks
      /\ emitted \in Nat /\ offset = emitted /\ place \in Nat
      /\ emitted + MaxSize(chunks[Current]) <= size
      /\ place + size < AddressLimit /\ size \in Nat
      /\ n \in Nat /\ n <= MaxSize(chunks[Current]) /\ MaxSize(chunks[Current]) \in Nat
  BY <1>1, NextChunk, ChunkSizes DEF CallSize
<1> HIDE DEF n
<1>3. TypeOK /\ Stages /\ Counters /\ Filled /\ PlacedWhereTold
  BY DEF CodeInv
<1>4. AddressLimit \in Nat
  BY LimitsAssumption
<1>5. /\ offset' = offset + n
      /\ DOMAIN code' = DOMAIN code \cup (place + offset) .. (place + offset + n - 1)
      /\ \A a \in DOMAIN code : a < place + offset => code'[a] = code[a]
      /\ Range(code') \subseteq (1 .. MaxChunks) \X Nat
  <2>1. AppendBytes(0, n)
    BY DEF CallThrows, n
  <2>2. offset + n <= size /\ size < AddressLimit
    BY <1>2, <1>4
  <2>3. Range(code) \subseteq (1 .. MaxChunks) \X Nat
    BY <1>3 DEF TypeOK
  <2> QED
    BY <1>2, <1>3, <2>1, <2>2, <2>3, AppendFits
<1>6. /\ UNCHANGED <<chunks, place, size, told, emitted, distance>> /\ stage' = "thrown"
      /\ BlockSize' = BlockSize
  BY SizesStay DEF CallThrows
<1>7. DOMAIN code = place .. (place + emitted - 1)
  BY <1>1, <1>3 DEF Filled
<1>8. DOMAIN code' \subseteq place .. (place + size - 1)
  BY <1>2, <1>5, <1>7
<1>9. TypeOK'
  <2>1. {size, emitted, offset}' \subseteq Nat
    BY <1>2, <1>5, <1>6
  <2>2. (DOMAIN code)' \subseteq 0 .. (AddressLimit - 1)
    BY <1>2, <1>4, <1>8
  <2> QED
    BY <1>3, <1>5, <1>6, <2>1, <2>2 DEF TypeOK
<1>10. Stages' /\ Counters' /\ Filled'
  BY <1>1, <1>3, <1>6, <1>8 DEF Stages, Counters, Filled
<1>11. PlacedWhereTold'
  <2> SUFFICES ASSUME NEW i \in DOMAIN told, NEW k \in 0 .. (MaxSize(chunks[i]) - 1)
               PROVE  /\ told[i] + k \in DOMAIN code'
                      /\ code'[told[i] + k] = <<i, k>>
    BY <1>6 DEF PlacedWhereTold
  <2>1. told[i] + k \in DOMAIN code /\ code[told[i] + k] = <<i, k>>
    BY <1>3 DEF PlacedWhereTold
  <2>2. told[i] + k < place + offset
    BY <2>1, <1>2, <1>7
  <2> QED
    BY <2>1, <2>2, <1>5
<1> QED
  BY <1>9, <1>10, <1>11 DEF CodeInv

-----------------------------------------------------------------------------
(* The theorems *)

LEMMA CodeInvInit == Init => CodeInv
<1> SUFFICES ASSUME Init
             PROVE  CodeInv
  OBVIOUS
<1>1. DOMAIN NoBytes = {} /\ Range(NoBytes) = {}
  BY DEF NoBytes, Range
<1>2. Len(<<>>) = 0 /\ DOMAIN <<>> = {} /\ <<>> \in Seq(Chunk)
      /\ <<>> \in Seq(0 .. (AddressLimit - 1))
  OBVIOUS
<1>3. BlockSize[0] = 0
  BY SizesDefined DEF SizesAddUp
<1>4. TypeOK
  BY <1>1, <1>2, LimitsAssumption DEF Init, TypeOK
<1>5. Stages /\ Counters
  BY <1>2, <1>3, LimitsAssumption DEF Init, Stages, Counters
<1>6. Filled /\ PlacedWhereTold
  BY <1>1, <1>2 DEF Init, Filled, PlacedWhereTold
<1> QED
  BY <1>4, <1>5, <1>6 DEF CodeInv

LEMMA CodeInvStep == CodeInv /\ [Next]_vars => CodeInv'
<1> SUFFICES ASSUME CodeInv, [Next]_vars
             PROVE  CodeInv'
  OBVIOUS
<1>1. TypeOK /\ Stages /\ Counters /\ Filled /\ PlacedWhereTold
  BY DEF CodeInv
<1>2. ASSUME NEW chunk \in Chunk, Add(chunk)
      PROVE  CodeInv'
  <2>1. /\ stage = "building" /\ chunks' = Append(chunks, chunk)
        /\ UNCHANGED <<place, size, told, emitted, offset, code, distance, stage>>
        /\ Len(chunks) < MaxChunks /\ told = <<>> /\ place = 0
    BY <1>1, <1>2 DEF Add, Stages
  <2>2. /\ chunks' \in Seq(Chunk) /\ Len(chunks') = Len(chunks) + 1
        /\ Len(chunks') <= MaxChunks /\ DOMAIN chunks \subseteq DOMAIN chunks'
    BY <1>1, <2>1, LimitsAssumption DEF TypeOK
  <2>3. Len(told) = 0 /\ DOMAIN told = {}
    BY <2>1
  <2>4. BlockSize[0] = 0 /\ BlockSize'[0] = 0
    BY SizesDefined, SizesDefinedNext DEF SizesAddUp
  <2>5. TypeOK'
    BY <1>1, <2>1, <2>2 DEF TypeOK
  <2>6. Stages'
    BY <1>1, <2>1, <2>2, <2>3 DEF Stages, TypeOK
  <2>7. Counters' /\ Filled' /\ PlacedWhereTold'
    BY <1>1, <2>1, <2>3, <2>4 DEF Counters, Filled, PlacedWhereTold
  <2> QED
    BY <2>5, <2>6, <2>7 DEF CodeInv
<1>3. ASSUME NEW mem \in Places, Measure(mem)
      PROVE  CodeInv'
  <2>1. /\ stage = "building" /\ place' = mem /\ size' = BlockSize[Len(chunks)]
        /\ stage' = "emitting" /\ mem + BlockSize[Len(chunks)] < AddressLimit
        /\ UNCHANGED <<chunks, told, emitted, offset, code, distance>>
        /\ told = <<>> /\ place = 0
    BY <1>1, <1>3 DEF Measure, Stages
  <2>2. Len(told) = 0 /\ DOMAIN told = {} /\ Len(chunks) \in Nat
    BY <1>1, <2>1 DEF TypeOK
  <2>3. BlockSize' = BlockSize /\ BlockSize[0] = 0 /\ BlockSize[Len(chunks)] \in Nat
    <3>1. BlockSize' = BlockSize
      BY <2>1, SizesStay
    <3>2. BlockSize[0] = 0
      BY SizesDefined DEF SizesAddUp
    <3>3. SizesGrow
      BY <1>1, SizesAreOrdered DEF TypeOK
    <3> QED
      BY <2>2, <3>1, <3>2, <3>3 DEF SizesGrow
  <2>4. TypeOK'
    BY <1>1, <2>1, <2>3, LimitsAssumption DEF TypeOK
  <2>5. Stages'
    BY <1>1, <2>1, <2>2, <2>3 DEF Stages
  <2>6. Counters'
    BY <1>1, <2>1, <2>2, <2>3 DEF Counters
  <2>7. Filled'
    <3>1. emitted = 0 /\ DOMAIN code = {}
      BY <1>1, <2>1, <2>2, <2>3 DEF Counters, Filled
    <3>2. mem \in Nat /\ mem .. (mem + 0 - 1) = {}
      BY LimitsAssumption
    <3> QED
      BY <2>1, <3>1, <3>2 DEF Filled
  <2>8. PlacedWhereTold'
    BY <2>1, <2>2 DEF PlacedWhereTold
  <2> QED
    BY <2>4, <2>5, <2>6, <2>7, <2>8 DEF CodeInv
<1>4. CASE EmitPlain
  <2>1. /\ stage = "emitting" /\ Current <= Len(chunks)
        /\ PlainSize(chunks[Current]) = MaxSize(chunks[Current])
    BY <1>4, NextChunk, ChunkSizes DEF EmitPlain
  <2>2. /\ told' = Append(told, Location)
        /\ AppendBytes(0, MaxSize(chunks[Current]))
        /\ emitted' = emitted + MaxSize(chunks[Current])
        /\ UNCHANGED <<chunks, place, size, stage>> /\ distance' = distance
    BY <1>4, <2>1 DEF EmitPlain
  <2>3. DOMAIN distance' \subseteq DOMAIN chunks /\ Range(distance') \subseteq 0 .. (Imm32Limit - 1)
    BY <1>1, <2>2 DEF TypeOK
  <2> QED
    BY <2>1, <2>2, <2>3, EmitKeepsCodeInv
<1>5. CASE EmitCall
  <2> DEFINE chunk == chunks[Current]
             rel == RelativeCall(chunk)
  <2>1. /\ stage = "emitting" /\ Current <= Len(chunks) /\ Current \in DOMAIN chunks
        /\ ProcParametersSize(chunk.params) \in Nat
        /\ MaxSize(chunk) = ProcParametersSize(chunk.params) + CallSize
        /\ chunk.target \in 0 .. (AddressLimit - 1)
        /\ place \in Nat /\ emitted \in Nat
    BY <1>5, NextChunk, ChunkSizes DEF EmitCall
  <2>2. rel \in 0 .. (Imm32Limit - 1)
    <3>1. (Location + ProcParametersSize(chunk.params)) - chunk.target - CallSize \in Int
      BY <2>1 DEF Location, CallSize
    <3>2. rel \in Nat
      BY <3>1, LimitsAssumption DEF RelativeCall
    <3>3. rel < Imm32Limit
      BY <1>5 DEF EmitCall, Encodable
    <3> QED
      BY <3>2, <3>3, LimitsAssumption
  <2>3. /\ told' = Append(told, Location)
        /\ AppendBytes(0, MaxSize(chunk))
        /\ emitted' = emitted + MaxSize(chunk)
        /\ UNCHANGED <<chunks, place, size, stage>>
        /\ distance' = [i \in DOMAIN distance \cup {Current} |->
                           IF i = Current THEN rel ELSE distance[i]]
    BY <1>5, <2>1 DEF EmitCall, CallSize
  <2> HIDE DEF rel
  <2>4. DOMAIN distance' \subseteq DOMAIN chunks /\ Range(distance') \subseteq 0 .. (Imm32Limit - 1)
    BY <1>1, <2>1, <2>2, <2>3 DEF TypeOK, Range
  <2> QED
    BY <2>1, <2>3, <2>4, EmitKeepsCodeInv
<1>6. CASE CallThrows
  BY <1>6, ThrowKeepsCodeInv
<1>7. CASE Invoke
  <2>1. /\ stage = "emitting" /\ Current > Len(chunks) /\ stage' = "executable"
        /\ UNCHANGED <<chunks, place, size, told, emitted, offset, code, distance>>
    BY <1>7 DEF Invoke
  <2>2. BlockSize' = BlockSize
    BY <2>1, SizesStay
  <2>3. Len(told) = Len(chunks)
    BY <1>1, <2>1 DEF Current, Stages, TypeOK
  <2> QED
    BY <1>1, <2>1, <2>2, <2>3
       DEF CodeInv, TypeOK, Stages, Counters, Filled, PlacedWhereTold
<1>8. CASE UNCHANGED vars
  <2>1. BlockSize' = BlockSize
    BY <1>8, SizesStay DEF vars
  <2> QED
    BY <1>1, <1>8, <2>1
       DEF CodeInv, TypeOK, Stages, Counters, Filled, PlacedWhereTold, vars
<1> QED
  BY <1>2, <1>3, <1>4, <1>5, <1>6, <1>7, <1>8 DEF Next

\* The inductive invariant holds: the location CodeBlock::emit counts and the
\* offset of the sink agree, and the memory is filled from its start.
THEOREM CodeInvariant == Spec => []CodeInv
  BY CodeInvInit, CodeInvStep, PTL DEF Spec

\* Types: every chunk is told an address, and nothing is written anywhere that
\* has none.
THEOREM CodeType == Spec => []TypeOK
<1>1. CodeInv => TypeOK
  BY DEF CodeInv
<1> QED
  BY <1>1, CodeInvariant, PTL

\* The bytes of every chunk are where CodeBlock::emit told it they would be,
\* for all chunks, also after the emission of another one threw.
THEOREM PlacesCorrect == Spec => []PlacedWhereTold
<1>1. CodeInv => PlacedWhereTold
  BY DEF CodeInv
<1> QED
  BY <1>1, CodeInvariant, PTL

\* What invoke_code_block runs fills the memory that max_size was asked for,
\* and emission never writes outside of it.
THEOREM FillingCorrect == Spec => []FillsItsMemory
<1>1. CodeInv => FillsItsMemory
  <2> SUFFICES ASSUME CodeInv
               PROVE  FillsItsMemory
    OBVIOUS
  <2>1. TypeOK /\ Stages /\ Counters /\ Filled
    BY DEF CodeInv
  <2>2. Len(told) \in 0 .. Len(chunks) /\ Len(chunks) \in Nat
    BY <2>1 DEF TypeOK, Stages
  <2>3. CASE stage = "building"
    <3>1. emitted = 0
      BY <2>1, <2>3, SizesDefined DEF Stages, Counters, SizesAddUp
    <3>2. DOMAIN code = {}
      BY <2>1, <2>3, <3>1 DEF Filled, TypeOK
    <3> QED
      BY <2>3, <3>2 DEF FillsItsMemory
  <2>4. CASE stage = "thrown"
    BY <2>1, <2>4 DEF Filled, FillsItsMemory
  <2>5. CASE stage \in {"emitting", "executable"}
    <3>1. size = BlockSize[Len(chunks)] /\ emitted = BlockSize[Len(told)]
      BY <2>1, <2>5 DEF Stages, Counters
    <3>2. emitted <= size
      BY <2>1, <2>2, <3>1, SizesAreOrdered DEF SizesGrow, TypeOK
    <3>3. DOMAIN code = place .. (place + emitted - 1) /\ offset = emitted
      BY <2>1, <2>5 DEF Filled, Counters
    <3>4. DOMAIN code \subseteq place .. (place + size - 1)
      BY <2>1, <3>2, <3>3 DEF TypeOK
    <3>5. stage = "executable" => emitted = size
      BY <2>1, <3>1 DEF Stages
    <3> QED
      BY <3>3, <3>4, <3>5 DEF FillsItsMemory
  <2> QED
    BY <2>1, <2>3, <2>4, <2>5 DEF TypeOK
<1> QED
  BY <1>1, CodeInvariant, PTL
=============================================================================
