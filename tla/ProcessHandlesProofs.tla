------------------------ MODULE ProcessHandlesProofs ------------------------
(***************************************************************************)
(* Handles and remote memory are never mixed up, however many processes,   *)
(* handles and objects there are.                                          *)
(***************************************************************************)
EXTENDS ProcessHandles, TLAPS

\* An object that was not moved from owns its handle, which its manager uses,
\* too, which is open, and is of the object's process.
ObjectsOwn ==
    \A o \in Objects : object[o] # None /\ object[o].handle # Null =>
        /\ object[o].manager = object[o].handle
        /\ table[object[o].handle] # Closed
        /\ table[object[o].handle].process = object[o].process
        /\ "operate" \in table[object[o].handle].rights
        /\ object[o].handle \notin lost

OneOwner ==
    \A o, q \in Objects :
        /\ object[o] # None /\ object[o].handle # Null
        /\ object[q] # None /\ object[q].handle = object[o].handle
        => o = q

LostAreOpen == \A h \in lost : table[h] # Closed

OpenAreOwned ==
    \A h \in Handles : table[h] # Closed /\ h \notin lost =>
        \E o \in Objects : object[o] # None /\ object[o].handle = h

\* The object of a block is there, be it moved from or not, its manager still has
\* the handle the block was allocated through, and the memory is there.
BlocksOwned ==
    \A b \in blocks :
        /\ object[b.object] # None /\ object[b.object].manager = b.handle
        /\ failed = None /\ b.process \in running => b.place \in memory[b.process]

BlocksApart ==
    \A b, c \in blocks : b.process = c.process /\ b.place = c.place => b = c

IInv == /\ TypeOK
        /\ ObjectsOwn /\ OneOwner /\ LostAreOpen /\ OpenAreOwned
        /\ BlocksOwned /\ BlocksApart
        /\ FailuresExplained

LEMMA InitIInv == Init => IInv
  BY HandlesAssumption DEF Init, IInv, TypeOK, ObjectsOwn, OneOwner, LostAreOpen,
     OpenAreOwned, BlocksOwned, BlocksApart, FailuresExplained

LEMMA OpenKeepsIInv ==
    ASSUME IInv, NEW p \in Others, NEW h \in Handles,
           NEW rights \in {AskedRights, Rights}, NEW o \in Objects,
           failed = None, OpenProcess(p, h, rights, o)
    PROVE  IInv'
  <1> USE HandlesAssumption DEF IInv
  <1>1. TypeOK'
    <2>1. rights \in SUBSET Rights
      BY DEF Rights, AskedRights
    <2>2. [process |-> p, rights |-> rights] \in [process : Others, rights : SUBSET Rights]
      BY <2>1
    <2>3. table' \in [Handles -> [process : Others, rights : SUBSET Rights] \cup {Closed}]
      BY <2>2 DEF TypeOK, OpenProcess
    <2>4. object' \in [Objects -> LocalProcess \cup {None}] /\ lost' \subseteq Handles
      BY DEF TypeOK, OpenProcess, LocalProcess
    <2>5. /\ running' \subseteq Others
          /\ memory' \in [Others -> SUBSET Places]
          /\ blocks' \subseteq MemoryBlock
          /\ failed' \in MemoryBlock \cup {None}
      BY DEF TypeOK, OpenProcess
    <2> QED
      BY <2>3, <2>4, <2>5 DEF TypeOK
  <1>2. ObjectsOwn'
    <2> SUFFICES ASSUME NEW q \in Objects,
                        object'[q] # None, object'[q].handle # Null
                 PROVE  /\ object'[q].manager = object'[q].handle
                        /\ table'[object'[q].handle] # Closed
                        /\ table'[object'[q].handle].process = object'[q].process
                        /\ "operate" \in table'[object'[q].handle].rights
                        /\ object'[q].handle \notin lost'
      BY DEF ObjectsOwn
    <2>1. h \notin lost /\ table'[h] = [process |-> p, rights |-> rights]
      BY DEF OpenProcess, TypeOK, LostAreOpen
    <2>2. [process |-> p, rights |-> rights] # Closed /\ "operate" \in rights
      BY DEF Rights, AskedRights
    <2>3. CASE object'[q] = object[q]
      BY <2>1, <2>2, <2>3 DEF TypeOK, OpenProcess, LocalProcess, ObjectsOwn
    <2>4. CASE object'[q] # object[q]
      BY <2>1, <2>2, <2>4 DEF TypeOK, OpenProcess
    <2> QED
      BY <2>3, <2>4
  <1>3. OneOwner'
    BY DEF TypeOK, OpenProcess, LocalProcess, OneOwner, ObjectsOwn
  <1>4. LostAreOpen'
    BY DEF TypeOK, OpenProcess, LocalProcess, Rights, AskedRights, LostAreOpen
  <1>5. OpenAreOwned'
    BY DEF TypeOK, OpenProcess, LocalProcess, OpenAreOwned
  <1>6. BlocksOwned'
    BY DEF TypeOK, OpenProcess, LocalProcess, MemoryBlock, BlocksOwned
  <1>7. BlocksApart'
    BY DEF TypeOK, OpenProcess, LocalProcess, MemoryBlock, BlocksOwned, BlocksApart
  <1>8. FailuresExplained'
    BY DEF OpenProcess, FailuresExplained
  <1> QED
    BY <1>1, <1>2, <1>3, <1>4, <1>5, <1>6, <1>7, <1>8

LEMMA MoveKeepsIInv ==
    ASSUME IInv, NEW o \in Objects, NEW q \in Objects,
           failed = None, Move(o, q)
    PROVE  IInv'
  <1> USE HandlesAssumption DEF IInv
  <1>1. TypeOK'
    BY DEF TypeOK, Move, MovedFrom, LocalProcess
  <1>2. ObjectsOwn'
    BY DEF TypeOK, Move, MovedFrom, LocalProcess, ObjectsOwn
  <1>3. OneOwner'
    BY DEF TypeOK, Move, MovedFrom, LocalProcess, OneOwner
  <1>4. LostAreOpen'
    BY DEF Move, LostAreOpen
  <1>5. OpenAreOwned'
    BY DEF TypeOK, Move, MovedFrom, LocalProcess, OpenAreOwned
  <1>6. BlocksOwned'
    <2>1. \A r \in Objects : object[r] # None =>
              object'[r] # None /\ object'[r].manager = object[r].manager
      BY DEF TypeOK, Move, MovedFrom, LocalProcess
    <2> QED
      BY <2>1 DEF TypeOK, Move, MemoryBlock, BlocksOwned
  <1>7. BlocksApart'
    BY DEF Move, BlocksApart
  <1>8. FailuresExplained'
    BY DEF Move, FailuresExplained
  <1> QED
    BY <1>1, <1>2, <1>3, <1>4, <1>5, <1>6, <1>7, <1>8

LEMMA DestroyKeepsIInv ==
    ASSUME IInv, NEW o \in Objects, failed = None, Destroy(o)
    PROVE  IInv'
  <1> USE HandlesAssumption DEF IInv
  <1>1. TypeOK'
    BY DEF TypeOK, Destroy, CloseHandle, LocalProcess
  <1>2. ObjectsOwn'
    BY DEF TypeOK, Destroy, CloseHandle, LocalProcess, ObjectsOwn, OneOwner
  <1>3. OneOwner'
    BY DEF TypeOK, Destroy, LocalProcess, OneOwner
  <1>4. LostAreOpen'
    BY DEF TypeOK, Destroy, CloseHandle, LocalProcess, LostAreOpen, ObjectsOwn
  <1>5. OpenAreOwned'
    BY DEF TypeOK, Destroy, CloseHandle, LocalProcess, OpenAreOwned
  <1>6. BlocksOwned'
    BY DEF TypeOK, Destroy, InUse, MemoryBlock, BlocksOwned
  <1>7. BlocksApart'
    BY DEF TypeOK, Destroy, InUse, MemoryBlock, BlocksApart
  <1>8. FailuresExplained'
    BY DEF Destroy, FailuresExplained
  <1> QED
    BY <1>1, <1>2, <1>3, <1>4, <1>5, <1>6, <1>7, <1>8

\* A step that leaves handles and objects alone.
LEMMA HandlesKept ==
    ASSUME IInv, UNCHANGED <<table, object, lost>>
    PROVE  ObjectsOwn' /\ OneOwner' /\ LostAreOpen' /\ OpenAreOwned'
  BY DEF IInv, ObjectsOwn, OneOwner, LostAreOpen, OpenAreOwned

LEMMA AllocateKeepsIInv ==
    ASSUME IInv, NEW o \in Objects, NEW p \in Others, NEW place \in Places,
           failed = None, Allocate(o, p, place)
    PROVE  IInv'
  <1> USE HandlesAssumption DEF IInv
  <1> DEFINE new == [object |-> o, handle |-> object[o].manager,
                     process |-> p, place |-> place]
  <1>1. new \in MemoryBlock /\ blocks' = blocks \cup {new}
    BY DEF TypeOK, Allocate, Reaches, LocalProcess, MemoryBlock
  <1>2. TypeOK'
    BY <1>1 DEF TypeOK, Allocate
  <1>3. \A b \in blocks : b.process = p => b.place # place
    BY DEF Allocate, Reaches, BlocksOwned
  <1>4. BlocksOwned'
    BY <1>1 DEF TypeOK, Allocate, MemoryBlock, BlocksOwned
  <1>5. BlocksApart'
    BY <1>1, <1>3 DEF BlocksApart
  <1>6. FailuresExplained'
    BY DEF Allocate, FailuresExplained
  <1>7. UNCHANGED <<table, object, lost>>
    BY DEF Allocate
  <1> QED
    BY <1>2, <1>4, <1>5, <1>6, <1>7, HandlesKept

\* A block that is backed, is released where it was allocated.
LEMMA BackedReaches ==
    ASSUME IInv, NEW b \in blocks, Backed(b)
    PROVE  /\ b.handle \in Handles /\ object[b.object].manager = b.handle
           /\ \A p \in Others : Reaches(object[b.object].manager, p) => p = b.process
           /\ b.process \in running => Reaches(object[b.object].manager, b.process)
  <1>1. /\ b.handle \in Handles /\ object[b.object].manager = b.handle
        /\ b.handle # Null
    BY HandlesAssumption DEF IInv, TypeOK, MemoryBlock, BlocksOwned
  <1>2. PICK o \in Objects : /\ object[o] # None /\ object[o].handle = b.handle
                             /\ object[o].process = b.process
    BY DEF Backed
  <1>3. /\ table[b.handle] # Closed /\ table[b.handle].process = b.process
        /\ "operate" \in table[b.handle].rights
    BY <1>1, <1>2 DEF IInv, ObjectsOwn
  <1> QED
    BY <1>1, <1>3 DEF Reaches

LEMMA ReleaseKeepsIInv ==
    ASSUME IInv, NEW b \in blocks, NEW p \in Others,
           failed = None, Release(b, p)
    PROVE  IInv'
  <1> USE HandlesAssumption DEF IInv
  <1>1. TypeOK'
    BY DEF TypeOK, Release
  <1>2. BlocksOwned'
    <2>1. CASE p = b.process
      BY <2>1 DEF TypeOK, MemoryBlock, Release, BlocksOwned, BlocksApart
    <2>2. CASE p # b.process
      <3>1. failed' = b /\ b # None
        BY <2>2 DEF Release, TypeOK, MemoryBlock
      <3> QED
        BY <3>1 DEF Release, BlocksOwned
    <2> QED
      BY <2>1, <2>2
  <1>3. BlocksApart'
    BY DEF Release, BlocksApart
  <1>4. UNCHANGED <<table, object, lost>>
    BY DEF Release
  <1>5. FailuresExplained'
    <2>1. CASE p = b.process
      BY <2>1 DEF Release, FailuresExplained
    <2>2. CASE p # b.process
      <3>1. failed' = b /\ ~Backed(b)
        BY <2>2, BackedReaches DEF Release
      <3> QED
        BY <1>4, <3>1 DEF FailuresExplained, Backed
    <2> QED
      BY <2>1, <2>2
  <1> QED
    BY <1>1, <1>2, <1>3, <1>4, <1>5, HandlesKept

LEMMA ReleaseThrowsKeepsIInv ==
    ASSUME IInv, NEW b \in blocks, failed = None, ReleaseThrows(b)
    PROVE  IInv'
  <1> USE DEF IInv
  <1>1. TypeOK'
    BY DEF TypeOK, ReleaseThrows, MemoryBlock
  <1>2. BlocksOwned' /\ BlocksApart'
    BY DEF ReleaseThrows, BlocksOwned, BlocksApart
  <1>3. UNCHANGED <<table, object, lost>>
    BY DEF ReleaseThrows
  <1>4. FailuresExplained'
    <2>1. CASE b.process \in running /\ Backed(b)
      <3>1. b.process \in Others /\ b.place \in memory[b.process]
        BY <2>1 DEF TypeOK, MemoryBlock, BlocksOwned
      <3> QED
        BY <2>1, <3>1, BackedReaches DEF ReleaseThrows
    <2>2. CASE b.process \notin running \/ ~Backed(b)
      BY <1>3, <2>2 DEF ReleaseThrows, FailuresExplained, Backed
    <2> QED
      BY <2>1, <2>2
  <1> QED
    BY <1>1, <1>2, <1>3, <1>4, HandlesKept

LEMMA ExitKeepsIInv ==
    ASSUME IInv, NEW p \in Others, failed = None, Exit(p)
    PROVE  IInv'
  <1> USE DEF IInv
  <1>1. TypeOK'
    BY DEF TypeOK, Exit
  <1>2. BlocksOwned'
    BY DEF TypeOK, Exit, LocalProcess, MemoryBlock, BlocksOwned
  <1>3. BlocksApart'
    BY DEF Exit, BlocksApart
  <1>4. FailuresExplained'
    BY DEF Exit, FailuresExplained
  <1>5. UNCHANGED <<table, object, lost>>
    BY DEF Exit
  <1> QED
    BY <1>1, <1>2, <1>3, <1>4, <1>5, HandlesKept

LEMMA NextIInv == IInv /\ [Next]_vars => IInv'
  <1> SUFFICES ASSUME IInv, [Next]_vars PROVE IInv'
    OBVIOUS
  <1>1. CASE UNCHANGED vars
    BY <1>1 DEF vars, IInv, TypeOK, ObjectsOwn, OneOwner, LostAreOpen, OpenAreOwned,
       BlocksOwned, BlocksApart, FailuresExplained, Backed
  <1>2. CASE Next
    BY <1>2, OpenKeepsIInv, MoveKeepsIInv, DestroyKeepsIInv, AllocateKeepsIInv,
       ReleaseKeepsIInv, ReleaseThrowsKeepsIInv, ExitKeepsIInv DEF Next
  <1> QED
    BY <1>1, <1>2

LEMMA IInvHolds == Spec => []IInv
  BY InitIInv, NextIInv, PTL DEF Spec

\* Objects, handles and blocks keep their types: a block is of an object, a
\* handle in the table is open to some process with some rights.
THEOREM HandlesType == Spec => []TypeOK
  <1>1. IInv => TypeOK
    BY DEF IInv
  <1> QED
    BY <1>1, IInvHolds, PTL

\* Every handle that is open has one owner, which closes it once, but for the
\* ones constructors have lost; so no destructor closes a handle that the
\* system has given to somebody else.
THEOREM HandlesAreOwned == Spec => []HandlesOwned
  <1>1. IInv => HandlesOwned
    BY HandlesAssumption DEF IInv, TypeOK, ObjectsOwn, OneOwner, LostAreOpen,
       OpenAreOwned, HandlesOwned, OwnersOf
  <1> QED
    BY <1>1, IInvHolds, PTL

\* As long as a LocalProcess of its process owns the handle a block was allocated
\* through, the block is released in that process and nowhere else, though objects
\* are moved from and handles are used again.
THEOREM BlocksStayReachable == Spec => []BlocksReachTheirProcess
  <1>1. IInv => BlocksReachTheirProcess
    BY BackedReaches DEF IInv, BlocksOwned, BlocksApart, BlocksReachTheirProcess
  <1> QED
    BY <1>1, IInvHolds, PTL

\* The destructor of a block only ends the program, or releases what is not the
\* block's, when the process the block was in has ended before, or the last
\* LocalProcess that owned the handle has been destroyed.
THEOREM TerminationExplained == Spec => []FailuresExplained
  <1>1. IInv => FailuresExplained
    BY DEF IInv
  <1> QED
    BY <1>1, IInvHolds, PTL

=============================================================================
