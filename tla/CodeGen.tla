------------------------------ MODULE CodeGen ------------------------------
(***************************************************************************)
(* Generated code, from a CodeBlock of chunks to bytes in memory: the      *)
(* chunks are measured, memory of that size is allocated, and each chunk   *)
(* is told a location and appends its bytes to a MemoryBufferCodeSink,     *)
(* which counts on its own where they go.  The client is the one of        *)
(* test/test_codegenerator.cpp.                                            *)
(*                                                                         *)
(* A byte in memory is which chunk it is of and its place in it.  Values   *)
(* of parameters are left out; the immediate of a call is kept apart.      *)
(*                                                                         *)
(* A definition introduced by "Mutant:" is the one after it with a bug.    *)
(***************************************************************************)
EXTENDS Integers, Sequences, Functions

CONSTANTS
    Places,         \* where memory for code may be allocated
    Targets,        \* addresses that are called
    Counts,         \* how many parameters calls have
    AddressLimit,   \* 1 + the largest address, offset or uintmax_t
    Imm32Limit,     \* 1 + the largest 32-bit value
    MaxChunks       \* bound: chunks of a CodeBlock

ASSUME LimitsAssumption ==
    /\ AddressLimit \in Nat \ {0} /\ Imm32Limit \in 1 .. AddressLimit
    /\ Places \cup Targets \subseteq 0 .. (AddressLimit - 1)
    /\ Counts \subseteq Nat /\ MaxChunks \in Nat

Chunk == [kind : {"prolog", "epilog", "return value"}]
         \cup [kind : {"syscall"}, params : Counts]
         \cup [kind : {"call"}, params : Counts, target : Targets]

VARIABLES
    chunks,   \* _code_chunks of the CodeBlock
    place,    \* mem_block.data()
    size,     \* mem_block.size()
    told,     \* the location each chunk was told, as far as emitted
    emitted,  \* what the chunks returned so far, added up
    offset,   \* _offset of the sink
    code,     \* the bytes written, by address
    distance, \* the immediate of each call emitted, by chunk
    stage     \* "building", "emitting", "executable" or "thrown"

vars == <<chunks, place, size, told, emitted, offset, code, distance, stage>>

TypeOK ==
    /\ chunks \in Seq(Chunk)
    /\ place \in 0 .. (AddressLimit - 1)
    /\ {size, emitted, offset} \subseteq Nat
    /\ told \in Seq(0 .. (AddressLimit - 1))
    /\ DOMAIN code \subseteq 0 .. (AddressLimit - 1)
    /\ Range(code) \subseteq (1 .. MaxChunks) \X Nat
    /\ DOMAIN distance \subseteq DOMAIN chunks
    /\ Range(distance) \subseteq 0 .. (Imm32Limit - 1)
    /\ stage \in {"building", "emitting", "executable", "thrown"}

NoBytes == [a \in {} |-> 0]

Init ==
    /\ chunks = <<>>
    /\ place = 0 /\ size = 0
    /\ told = <<>> /\ emitted = 0 /\ offset = 0
    /\ code = NoBytes /\ distance = NoBytes
    /\ stage = "building"

-----------------------------------------------------------------------------
(* Sizes *)

\* set_proc_parameters: a MOV of 10 bytes for each of the first four, two
\* PUSH of 5 bytes for each of the others.
ProcParametersSize(params) ==
    IF params <= 4 THEN 10 * params ELSE 40 + (5 + 5) * (params - 4)

\* set_syscall_parameters and MOV RAX, SYSCALL
SyscallSize(params) == 10 * params + 10 + 2

CallSize == 5   \* call rel32

\* Addresses are far below the end of uintmax_t: what wraps around in a distance
\* to one of them has more than 32 bits.
ASSUME AddressesAssumption ==
    \A target \in Targets : target + CallSize + Imm32Limit <= AddressLimit

\* The bytes a chunk other than a call has.
PlainSize(chunk) ==
    CASE chunk.kind = "prolog" -> 4
      [] chunk.kind = "epilog" -> 5
      [] chunk.kind = "return value" -> 10
      [] chunk.kind = "syscall" -> SyscallSize(chunk.params)

\* Mutant: the opcode of a call is forgotten.
MaxSizeNoOpcode(chunk) ==
    IF chunk.kind = "call" THEN ProcParametersSize(chunk.params) + 4
    ELSE PlainSize(chunk)

\* max_size of a chunk
MaxSize(chunk) ==
    IF chunk.kind = "call" THEN ProcParametersSize(chunk.params) + 1 + 4
    ELSE PlainSize(chunk)

BlockSize[n \in Nat] ==
    IF n = 0 THEN 0 ELSE BlockSize[n - 1] + MaxSize(chunks[n])

-----------------------------------------------------------------------------
(* The client, and CodeBlock *)

\* CodeBlock::add; make_syscall throws if it has more than six parameters.
Add(chunk) ==
    /\ stage = "building" /\ Len(chunks) < MaxChunks
    /\ chunk.kind = "syscall" => chunk.params <= 6
    /\ chunks' = Append(chunks, chunk)
    /\ UNCHANGED <<place, size, told, emitted, offset, code, distance, stage>>

\* invoke_code_block as far as commit.  What is allocated has addresses, and
\* so has its end.
Measure(mem) ==
    /\ stage = "building" /\ chunks # <<>>
    /\ mem + BlockSize[Len(chunks)] < AddressLimit
    /\ place' = mem
    /\ size' = BlockSize[Len(chunks)]
    /\ stage' = "emitting"
    /\ UNCHANGED <<chunks, told, emitted, offset, code, distance>>

Current == Len(told) + 1

\* Mutant: each chunk is told where the whole block is.
LocationOfBlock == place

\* CodeBlock::emit: bytes_ptr
Location == place + emitted

\* MemoryBufferCodeSink::append of bytes from .. from + n - 1 of the current
\* chunk: the buffer clips what it takes, the offset goes on all the same.
AppendBytes(from, n) ==
    LET left == (size - offset) % AddressLimit
        taken == IF left < n THEN left ELSE n
        bytes == [a \in (place + offset) .. (place + offset + taken - 1) |->
                     <<Current, a - place - offset + from>>]
    IN  /\ code' = [a \in DOMAIN code \cup DOMAIN bytes |->
                       IF a \in DOMAIN bytes THEN bytes[a] ELSE code[a]]
        /\ offset' = offset + n

EmitPlain ==
    /\ stage = "emitting" /\ Current <= Len(chunks)
    /\ chunks[Current].kind # "call"
    /\ told' = Append(told, Location)
    /\ AppendBytes(0, PlainSize(chunks[Current]))
    /\ emitted' = emitted + PlainSize(chunks[Current])
    /\ UNCHANGED <<chunks, place, size, distance, stage>>

\* What X64RelativeCall::emit hands to append_imm32, a uintmax_t:
\* AbsoluteCodeLocation::distance_from(call_location) - 5.
RelativeCall(chunk) ==
    LET call_location == Location + ProcParametersSize(chunk.params)
    IN  ((call_location - chunk.target) - CallSize) % AddressLimit

\* Mutant: the immediate is cut off to its 32 bits unseen.
EncodableAlways(value) == TRUE

\* append_imm32 throws "Immediate value exceeds 32 bits" otherwise.
Encodable(value) == value < Imm32Limit

EmitCall ==
    LET chunk == chunks[Current] IN
    /\ stage = "emitting" /\ Current <= Len(chunks)
    /\ chunk.kind = "call"
    /\ Encodable(RelativeCall(chunk))
    /\ told' = Append(told, Location)
    /\ AppendBytes(0, ProcParametersSize(chunk.params) + CallSize)
    /\ emitted' = emitted + ProcParametersSize(chunk.params) + CallSize
    /\ distance' = [i \in DOMAIN distance \cup {Current} |->
                       IF i = Current THEN RelativeCall(chunk) ELSE distance[i]]
    /\ UNCHANGED <<chunks, place, size, stage>>

\* The exception leaves the parameters in memory, without the call.
CallThrows ==
    LET chunk == chunks[Current] IN
    /\ stage = "emitting" /\ Current <= Len(chunks)
    /\ chunk.kind = "call"
    /\ ~ Encodable(RelativeCall(chunk))
    /\ AppendBytes(0, ProcParametersSize(chunk.params))
    /\ stage' = "thrown"
    /\ UNCHANGED <<chunks, place, size, told, emitted, distance>>

\* invoke_code_block: set_access, and the call of the code
Invoke ==
    /\ stage = "emitting" /\ Current > Len(chunks)
    /\ stage' = "executable"
    /\ UNCHANGED <<chunks, place, size, told, emitted, offset, code, distance>>

Next ==
    \/ \E chunk \in Chunk : Add(chunk)
    \/ \E mem \in Places : Measure(mem)
    \/ EmitPlain \/ EmitCall \/ CallThrows \/ Invoke

Spec == Init /\ [][Next]_vars

-----------------------------------------------------------------------------
(* Properties *)

\* The bytes of a chunk are where the chunk was told they would be, although
\* the sink never hears of it: a distance computed from the location is one
\* from the bytes.
PlacedWhereTold ==
    \A i \in DOMAIN told : \A k \in 0 .. (MaxSize(chunks[i]) - 1) :
        /\ told[i] + k \in DOMAIN code
        /\ code[told[i] + k] = <<i, k>>

\* Code that is invoked fills the memory that was measured for it: nothing
\* was cut off at its end, and no byte is left that is not of a chunk.
FillsItsMemory ==
    /\ DOMAIN code \subseteq place .. (place + size - 1)
    /\ stage = "executable" =>
          /\ offset = size
          /\ DOMAIN code = place .. (place + size - 1)

\* A 32-bit displacement, which the processor sign-extends.
Signed32(value) ==
    IF 2 * value < Imm32Limit THEN value ELSE value - Imm32Limit

\* "call rel32": a call that was emitted goes to its target, which is rel32
\* from the end of the call.
CallsReachTarget ==
    \A i \in DOMAIN distance :
        told[i] + MaxSize(chunks[i]) + Signed32(distance[i]) = chunks[i].target

=============================================================================
