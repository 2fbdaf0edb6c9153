--------------------------- MODULE PELoaderProofs ---------------------------
(***************************************************************************)
(* Proofs about PELoader, for any number of loads, any images within the   *)
(* assumptions of that module and an address space of any size: types,     *)
(* references and the ownership of memory; what the pages of a module hold *)
(* at each stage of a load, and what follows from it; and that the loader  *)
(* implements ModuleLifecycle.                                             *)
(***************************************************************************)
EXTENDS PELoader, FiniteSetTheorems, TLAPS

LEMMA PageNumbers ==
    /\ Page \subseteq Int /\ Null \notin Page /\ Null \in Int
    /\ \A p \in Page : p > 0
  BY LastPageAssumption DEF Page, Null

\* The parts of the records the proofs look into.
LEMMA ImageParts ==
    ASSUME NEW image \in Images
    PROVE  /\ image.size \in Nat \ {0}
           /\ image.headers \in Nat \ {0}
           /\ image.base \in Page \cup {Null}
           /\ \A s \in image.sections :
                 /\ s.va \in Nat /\ s.size \in Nat /\ s.va < image.size
                 /\ s.rights \in SUBSET Right
  BY ImagesAssumption, LayoutAssumption DEF Image, Section

\* Whatever rights a section asks for, VirtualProtect is given a protection.
LEMMA Win32AccessType ==
    ASSUME NEW rights \in SUBSET Right
    PROVE  Win32Access(rights) \in Protection
  BY DEF Win32Access, Protection

LEMMA SetPagesType ==
    ASSUME NEW pages, NEW protection \in Protection,
           access \in [Page -> Protection]
    PROVE  SetPages(access, pages, protection) \in [Page -> Protection]
  BY DEF SetPages

LEMMA ProtectionValues == NotCommitted \in Protection /\ ReadWrite \in Protection
  BY DEF Protection, NotCommitted, ReadWrite, Right

\* Counting exception tables at one address leaves natural numbers.
LEMMA CountersType ==
    ASSUME NEW count \in [Page -> Nat], NEW p
    PROVE  /\ [count EXCEPT ![p] = @ + 1] \in [Page -> Nat]
           /\ count[p] > 0 => [count EXCEPT ![p] = @ - 1] \in [Page -> Nat]
<1>1. CASE p \in Page
  <2>1. count[p] \in Nat
    BY <1>1
  <2>2. count[p] + 1 \in Nat /\ (count[p] > 0 => count[p] - 1 \in Nat)
    BY <2>1
  <2>3. QED
    BY <1>1, <2>2
<1>2. CASE p \notin Page
  BY <1>2
<1>3. QED
  BY <1>1, <1>2

\* Released memory leaves a page table.
LEMMA ReleaseType ==
    ASSUME TypeOK, NEW mem
    PROVE  /\ Release(region, mem) \in [Page -> Page \cup {Null}]
           /\ Uncommit(region, access, mem) \in [Page -> Protection]
  BY ProtectionValues DEF TypeOK, Release, Uncommit

\* A destructor that releases memory leaves a page table.
LEMMA DisposeType ==
    ASSUME TypeOK, NEW l \in Loads, NEW b, Dispose(l, b)
    PROVE  /\ base' \in [Loads -> Page \cup {Null}]
           /\ blocks' \in [Loads -> SUBSET {"local", "module"}]
           /\ region' \in [Page -> Page \cup {Null}]
           /\ access' \in [Page -> Protection]
           /\ fault' \in {"none", "assertion", "access violation", "terminate",
                         "foreign release"}
  BY ProtectionValues DEF TypeOK, Dispose, Release, Uncommit

-----------------------------------------------------------------------------

\* Type correctness of the loader: no step takes a variable out of its range,
\* in particular no exception table is deregistered more often than registered.
THEOREM TypeCorrect == Spec => []TypeOK
<1>1. Init => TypeOK
  BY ProtectionValues DEF Init, TypeOK, Stage
<1>2. TypeOK /\ [Next]_vars => TypeOK'
  <2> SUFFICES ASSUME TypeOK, [Next]_vars PROVE TypeOK'
    OBVIOUS
  <2> USE DEF TypeOK, At, Goto, Stage, Loading, Unloading, moduleVars, memVars
  <2>1. ASSUME NEW l \in Loads, LoadModule(l) PROVE TypeOK'
    BY <2>1 DEF LoadModule
  <2>2. ASSUME NEW l \in Loads, NEW mem \in Page, Allocate(l, mem) PROVE TypeOK'
    BY <2>2 DEF Allocate, Reserve
  <2>3. ASSUME NEW l \in Loads, CopyHeaders(l) PROVE TypeOK'
    BY <2>3, SetPagesType, ProtectionValues DEF CopyHeaders
  <2>4. ASSUME NEW l \in Loads, MapSections(l) PROVE TypeOK'
    BY <2>4, SetPagesType, ProtectionValues DEF MapSections
  <2>5. ASSUME NEW l \in Loads, Relocate(l) PROVE TypeOK'
    BY <2>5 DEF Relocate
  <2>6. ASSUME NEW l \in Loads, NEW n \in Names, NEW m \in Answers(l),
               ResolveImport(l, n, m)
        PROVE  TypeOK'
    BY <2>6 DEF ResolveImport, Answers
  <2>7. ASSUME NEW l \in Loads, ApplyPermissions(l) PROVE TypeOK'
    <3>1. access' \in [Page -> Protection]
      <4>1. ASSUME NEW p \in Page,
                   \E s \in img[l].sections : p \in SectionPages(l, s)
            PROVE  Win32Access((CHOOSE s \in img[l].sections :
                                   p \in SectionPages(l, s)).rights) \in Protection
        BY <4>1, ImageParts, Win32AccessType
      <4>2. QED BY <2>7, <4>1 DEF ApplyPermissions
    <3>2. QED BY <2>7, <3>1 DEF ApplyPermissions
  <2>8. ASSUME NEW l \in Loads, RemoveDiscardable(l) PROVE TypeOK'
    BY <2>8, SetPagesType, ProtectionValues DEF RemoveDiscardable
  <2>9. ASSUME NEW l \in Loads, RegisterTable(l) PROVE TypeOK'
    <3>1. tables' \in [Page -> Nat]
      <4>1. tables \in [Page -> Nat]
        OBVIOUS
      <4>2. \/ tables' = tables
            \/ tables' = [tables EXCEPT ![TablePage(l)] = @ + 1]
        BY <2>9 DEF RegisterTable
      <4>3. [tables EXCEPT ![TablePage(l)] = @ + 1] \in [Page -> Nat]
        BY <4>1, CountersType
      <4>4. QED
        BY <4>1, <4>2, <4>3
    <3>2. QED
      BY <2>9, <3>1 DEF RegisterTable
  <2>10. ASSUME NEW l \in Loads, Attach(l) PROVE TypeOK'
    BY <2>10 DEF Attach
  <2>11. ASSUME NEW l \in Loads,
                AttachAsserts(l) \/ AttachFaults(l) \/ AttachIndirect(l)
         PROVE  TypeOK'
    BY <2>11 DEF AttachAsserts, AttachFaults, AttachIndirect
  <2>12. ASSUME NEW l \in Loads, MakeShared(l) \/ HandOver(l) PROVE TypeOK'
    <3>1. blocks' \in [Loads -> SUBSET {"local", "module"}]
      <4>1. blocks[l] \in SUBSET {"local", "module"}
        OBVIOUS
      <4>2. /\ blocks[l] \cup {"module"} \in SUBSET {"local", "module"}
            /\ blocks[l] \ {"local"} \in SUBSET {"local", "module"}
        BY <4>1
      <4>3. CASE MakeShared(l)
        BY <4>2, <4>3 DEF MakeShared
      <4>4. CASE HandOver(l)
        BY <4>2, <4>4 DEF HandOver
      <4>5. QED
        BY <2>12, <4>3, <4>4
    <3>2. QED
      BY <2>12, <3>1 DEF MakeShared, HandOver
  <2>13. ASSUME NEW l \in Loads, Return(l) PROVE TypeOK'
    BY <2>13, DisposeType DEF Return
  <2>14. ASSUME NEW l \in Loads, Throw(l) PROVE TypeOK'
    BY <2>14 DEF Throw
  <2>15. ASSUME NEW l \in Loads, MakeSharedThrows(l) PROVE TypeOK'
    BY <2>15, CountersType DEF MakeSharedThrows, LeavesDll
  <2>16. ASSUME NEW l \in Loads, Unwind(l) PROVE TypeOK'
    BY <2>16, DisposeType DEF Unwind
  <2>17. ASSUME NEW l \in Loads, NEW n \in Names,
                NEW m \in Answers(l) \cup {NoModule}, FindForwarded(l, n, m)
         PROVE  TypeOK'
    BY <2>17 DEF FindForwarded, Answers
  <2>18. ASSUME NEW l \in Loads, ClientDrop(l) PROVE TypeOK'
    BY <2>18 DEF ClientDrop
  <2>19. ASSUME NEW l \in Loads, Detach(l) PROVE TypeOK'
    BY <2>19 DEF Detach
  <2>20. ASSUME NEW l \in Loads, Deregister(l) PROVE TypeOK'
    BY <2>20, CountersType DEF Deregister
  <2>21. ASSUME NEW l \in Loads, NEW n \in Names, DropEntry(l, n) PROVE TypeOK'
    <3>1. cache' \in [Loads -> [Names -> Loads \cup {System, NoModule, Absent}]]
      <4>1. Absent \in Loads \cup {System, NoModule, Absent}
        OBVIOUS
      <4>2. cache' = [cache EXCEPT ![l][n] = Absent]
        BY <2>21 DEF DropEntry
      <4>3. QED
        BY <4>1, <4>2
    <3>2. pc' \in [Loads -> Stage] /\ nested' \in [Loads -> Loads]
      <4>1. CASE UNCHANGED <<pc, nested>>
        BY <4>1
      <4>2. CASE /\ cache[l][n] \in Loads
                 /\ pc' = [pc EXCEPT ![cache[l][n]] = "detach"]
                 /\ nested' = [nested EXCEPT ![cache[l][n]] = l]
        BY <4>2
      <4>3. QED
        BY <2>21, <4>1, <4>2 DEF DropEntry
    <3>3. QED
      BY <2>21, <3>1, <3>2 DEF DropEntry
  <2>22. ASSUME NEW l \in Loads, CacheGone(l) PROVE TypeOK'
    BY <2>22 DEF CacheGone
  <2>23. ASSUME NEW l \in Loads, Unmap(l) PROVE TypeOK'
    BY <2>23, DisposeType DEF Unmap
  <2>24. ASSUME NEW l \in Loads, ConstructorThrows(l) PROVE TypeOK'
    BY <2>24, CountersType, ReleaseType DEF ConstructorThrows, LeavesDll
  <2>25. ASSUME NEW l \in Loads, ReleaseAgain(l) PROVE TypeOK'
    BY <2>25, ReleaseType DEF ReleaseAgain
  <2>26. CASE UNCHANGED vars
    BY <2>26 DEF vars
  <2>27. QED
    BY <2>1, <2>2, <2>3, <2>4, <2>5, <2>6, <2>7, <2>8, <2>9, <2>10, <2>11,
       <2>12, <2>13, <2>14, <2>15, <2>16, <2>17, <2>18, <2>19, <2>20, <2>21,
       <2>22, <2>23, <2>24, <2>25, <2>26
       DEF Next, Step, LoadStep, UnloadStep, ClientStep
<1>3. QED
  BY <1>1, <1>2, PTL DEF Spec

-----------------------------------------------------------------------------
(* Who keeps whom loaded.  The two invariants are inductive together with    *)
(* type correctness: a cache is filled only with loaded modules, and a       *)
(* module stops being loaded only in the step that drops its last reference. *)

References == ImportsOutliveImporter /\ NoForgottenModule

\* The steps that neither publish a module nor touch a reference.
OtherStep(l) ==
    \/ LoadModule(l) \/ \E mem \in Page : Allocate(l, mem)
    \/ CopyHeaders(l) \/ MapSections(l) \/ Relocate(l)
    \/ ApplyPermissions(l) \/ RemoveDiscardable(l) \/ RegisterTable(l)
    \/ Attach(l) \/ AttachAsserts(l) \/ AttachFaults(l) \/ AttachIndirect(l)
    \/ MakeShared(l) \/ HandOver(l)
    \/ Throw(l) \/ MakeSharedThrows(l) \/ Unwind(l)
    \/ ConstructorThrows(l) \/ ReleaseAgain(l)
    \/ Detach(l) \/ Deregister(l) \/ CacheGone(l) \/ Unmap(l)

LEMMA OtherStepsKeepReferences ==
    ASSUME TypeOK, NEW l \in Loads, OtherStep(l)
    PROVE  /\ UNCHANGED <<held, cache>>
           /\ \A k \in Loads : pc'[k] = "loaded" <=> pc[k] = "loaded"
<1> USE DEF TypeOK, At, Goto, moduleVars
<1>1. CASE \/ LoadModule(l) \/ \E mem \in Page : Allocate(l, mem)
           \/ CopyHeaders(l) \/ MapSections(l) \/ Relocate(l)
  BY <1>1 DEF LoadModule, Allocate, CopyHeaders, MapSections, Relocate
<1>2. CASE ApplyPermissions(l) \/ RemoveDiscardable(l) \/ RegisterTable(l)
  BY <1>2 DEF ApplyPermissions, RemoveDiscardable, RegisterTable
<1>3. CASE Attach(l) \/ AttachAsserts(l) \/ AttachFaults(l) \/ AttachIndirect(l)
  BY <1>3 DEF Attach, AttachAsserts, AttachFaults, AttachIndirect
<1>4. CASE MakeShared(l) \/ HandOver(l)
  BY <1>4 DEF MakeShared, HandOver
<1>5. CASE Throw(l) \/ MakeSharedThrows(l) \/ Unwind(l)
  BY <1>5 DEF Throw, MakeSharedThrows, Unwind
<1>6. CASE Detach(l) \/ Deregister(l) \/ CacheGone(l) \/ Unmap(l)
  BY <1>6 DEF Detach, Deregister, CacheGone, Unmap
<1>7. CASE ConstructorThrows(l) \/ ReleaseAgain(l)
  BY <1>7 DEF ConstructorThrows, ReleaseAgain
<1>8. QED
  BY <1>1, <1>2, <1>3, <1>4, <1>5, <1>6, <1>7 DEF OtherStep

\* A new entry of a ModuleCache.
LEMMA EntriesOfLoadedModules ==
    ASSUME TypeOK, References, NEW l \in Loads, NEW n \in Names,
           NEW m \in Answers(l) \cup {NoModule},
           cache[l][n] = Absent, cache' = [cache EXCEPT ![l][n] = m],
           UNCHANGED <<pc, held>>
    PROVE  References'
<1>1. m \in Loads => pc[m] = "loaded"
  BY ModulesAssumption DEF Answers
<1>2. \A k \in Loads, x \in Names :
          cache'[k][x] = IF k = l /\ x = n THEN m ELSE cache[k][x]
  BY DEF TypeOK
<1>3. ImportsOutliveImporter'
  BY <1>1, <1>2 DEF References, ImportsOutliveImporter
<1>4. ASSUME NEW k \in Loads, pc[k] = "loaded"
      PROVE  Referenced(k, held, cache')
  <2>1. Referenced(k, held, cache)
    BY <1>4 DEF References, NoForgottenModule
  <2>2. Absent \notin Loads
    BY ModulesAssumption
  <2>3. QED
    BY <1>2, <2>1, <2>2 DEF Referenced
<1>5. QED
  BY <1>3, <1>4 DEF References, NoForgottenModule, Referenced

\* No importer ever holds a module that is being unloaded, whatever loads run
\* and whichever fail, and no loaded module is without a holder.
THEOREM ReferencesCorrect == Spec => [](ImportsOutliveImporter /\ NoForgottenModule)
<1>1. Init => References
  BY ModulesAssumption DEF Init, References, ImportsOutliveImporter, NoForgottenModule
<1>2. TypeOK /\ References /\ [Next]_vars => References'
  <2> SUFFICES ASSUME TypeOK, References, [Next]_vars PROVE References'
    OBVIOUS
  <2>1. ASSUME NEW l \in Loads, OtherStep(l) PROVE References'
    <3>1. UNCHANGED <<held, cache>>
      BY <2>1, OtherStepsKeepReferences
    <3>2. \A k \in Loads : pc'[k] = "loaded" <=> pc[k] = "loaded"
      BY <2>1, OtherStepsKeepReferences
    <3>3. QED
      BY <3>1, <3>2
         DEF References, ImportsOutliveImporter, NoForgottenModule, Referenced
  <2>2. ASSUME NEW l \in Loads, NEW n \in Names, NEW m \in Answers(l),
               ResolveImport(l, n, m)
        PROVE  References'
    BY <2>2, EntriesOfLoadedModules DEF ResolveImport, moduleVars
  <2>3. ASSUME NEW l \in Loads, NEW n \in Names,
               NEW m \in Answers(l) \cup {NoModule}, FindForwarded(l, n, m)
        PROVE  References'
    BY <2>3, EntriesOfLoadedModules DEF FindForwarded, moduleVars
  <2>4. ASSUME NEW l \in Loads, Return(l) PROVE References'
    <3>1. /\ held' = [held EXCEPT ![l] = TRUE] /\ UNCHANGED cache
          /\ pc' = [pc EXCEPT ![l] = "loaded"]
      BY <2>4 DEF Return, Goto
    <3>2. ImportsOutliveImporter'
      BY <3>1 DEF References, ImportsOutliveImporter, TypeOK
    <3>3. /\ \A k \in Loads : held'[k] = IF k = l THEN TRUE ELSE held[k]
          /\ \A k \in Loads : k # l => pc'[k] = pc[k]
      BY <3>1 DEF TypeOK
    <3>4. NoForgottenModule'
      BY <3>1, <3>3 DEF References, NoForgottenModule, Referenced
    <3>5. QED
      BY <3>2, <3>4 DEF References
  <2>5. ASSUME NEW l \in Loads, ClientDrop(l) PROVE References'
    <3>1. held' = [held EXCEPT ![l] = FALSE] /\ UNCHANGED cache
      BY <2>5 DEF ClientDrop
    <3>2. CASE Referenced(l, held', cache) /\ UNCHANGED pc
      <4>1. ImportsOutliveImporter'
        BY <3>1, <3>2 DEF References, ImportsOutliveImporter
      <4>2. NoForgottenModule'
        BY <3>1, <3>2 DEF References, NoForgottenModule, Referenced, TypeOK
      <4>3. QED
        BY <4>1, <4>2 DEF References
    <3>3. CASE ~ Referenced(l, held', cache) /\ pc' = [pc EXCEPT ![l] = "detach"]
      <4> \A k \in Loads :
             /\ pc'[k] = IF k = l THEN "detach" ELSE pc[k]
             /\ held'[k] = IF k = l THEN FALSE ELSE held[k]
        BY <3>1, <3>3 DEF TypeOK
      <4>1. ImportsOutliveImporter'
        BY <3>1, <3>3 DEF References, ImportsOutliveImporter, Referenced
      <4>2. NoForgottenModule'
        <5>1. ASSUME NEW k \in Loads, pc'[k] = "loaded"
              PROVE  Referenced(k, held', cache')
          <6>1. k # l /\ pc[k] = "loaded"
            BY <5>1
          <6>2. Referenced(k, held, cache)
            BY <6>1 DEF References, NoForgottenModule
          <6>3. held'[k] = held[k] /\ cache' = cache
            BY <3>1, <6>1
          <6>4. QED
            BY <6>2, <6>3 DEF Referenced
        <5>2. QED
          BY <5>1 DEF NoForgottenModule, Referenced
      <4>3. QED
        BY <4>1, <4>2 DEF References
    <3>4. QED
      BY <2>5, <3>2, <3>3 DEF ClientDrop, Goto
  <2>6. ASSUME NEW l \in Loads, NEW n \in Names, DropEntry(l, n) PROVE References'
    <3> DEFINE m == cache[l][n]
    <3>1. cache' = [cache EXCEPT ![l][n] = Absent] /\ UNCHANGED held
      BY <2>6 DEF DropEntry, moduleVars
    <3>2. \A k \in Loads, x \in Names :
              cache'[k][x] = IF k = l /\ x = n THEN Absent ELSE cache[k][x]
      BY <3>1 DEF TypeOK
    <3>3. Absent \notin Loads
      BY ModulesAssumption
    <3>4. CASE (m \notin Loads \/ Referenced(m, held, cache')) /\ UNCHANGED pc
      <4>1. ImportsOutliveImporter'
        BY <3>2, <3>3, <3>4 DEF References, ImportsOutliveImporter
      <4>2. \A k \in Loads : pc[k] = "loaded" => Referenced(k, held, cache')
        BY <3>2, <3>3, <3>4 DEF References, NoForgottenModule, Referenced
      <4>3. NoForgottenModule'
        BY <3>1, <3>4, <4>2 DEF NoForgottenModule, Referenced
      <4>4. QED
        BY <4>1, <4>3 DEF References
    <3>5. CASE /\ m \in Loads /\ ~ Referenced(m, held, cache')
               /\ pc' = [pc EXCEPT ![m] = "detach"]
      <4> HIDE DEF m
      <4> \A k \in Loads : pc'[k] = IF k = m THEN "detach" ELSE pc[k]
        BY <3>5 DEF TypeOK
      <4>1. ImportsOutliveImporter'
        BY <3>2, <3>3, <3>5
           DEF References, ImportsOutliveImporter, Referenced
      <4>2. \A k \in Loads : pc'[k] = "loaded" => Referenced(k, held, cache')
        <5>1. ASSUME NEW k \in Loads, pc'[k] = "loaded"
              PROVE  Referenced(k, held, cache')
          <6>1. k # m /\ pc[k] = "loaded"
            BY <5>1
          <6>2. Referenced(k, held, cache)
            BY <6>1 DEF References, NoForgottenModule
          <6>3. QED
            BY <3>2, <6>1, <6>2 DEF Referenced, m
        <5>2. QED
          BY <5>1
      <4>3. NoForgottenModule'
        BY <3>1, <4>2 DEF NoForgottenModule, Referenced
      <4>4. QED
        BY <4>1, <4>3 DEF References
    <3>6. QED
      BY <2>6, <3>4, <3>5 DEF DropEntry, Goto
  <2>7. CASE UNCHANGED vars
    BY <2>7 DEF vars, References, ImportsOutliveImporter, NoForgottenModule, Referenced
  <2>8. QED
    BY <2>1, <2>2, <2>3, <2>4, <2>5, <2>6, <2>7
       DEF Next, Step, LoadStep, UnloadStep, ClientStep, OtherStep
<1>3. QED
  BY <1>1, <1>2, TypeCorrect, PTL DEF Spec, References

-----------------------------------------------------------------------------
(* Who owns which memory.  Owned says nothing of which of the two blocks     *)
(* owns it; that a destructor finds exactly one of them, and that the steps  *)
(* in between find any, is what BlocksOfStage adds.                          *)

\* The owning blocks, by where a load is.
BlocksOfStage ==
    \A l \in Loads :
        /\ pc[l] \in {"idle", "allocate", "uncache", "unmake", "release again"} =>
              blocks[l] = {}
        /\ pc[l] \in {"headers", "sections", "relocations", "imports", "discard",
                      "register", "attach", "make_shared"} => blocks[l] = {"local"}
        /\ pc[l] = "handover" => blocks[l] = {"local", "module"}
        /\ pc[l] \in {"return", "loaded"} \cup Unloading => blocks[l] = {"module"}
        /\ pc[l] = "unwind" => blocks[l] \in {{}, {"local"}}

Ownership == BlocksOfStage /\ Owned

\* An owner's memory starts at a page of its own.
LEMMA OwnersBase ==
    ASSUME TypeOK, Owned, NEW l \in Loads, blocks[l] # {}
    PROVE  /\ base[l] \in Page /\ base[l] \in Extent(l)
           /\ region[base[l]] = base[l]
           /\ Extent(l) = {p \in Page : region[p] = base[l]}
<1>1. Extent(l) = {p \in Page : region[p] = base[l]}
  BY DEF Owned
<1>2. base[l] \in Int /\ img[l].size \in Nat \ {0}
  BY ImageParts, PageNumbers DEF TypeOK
<1>3. base[l] \in Extent(l)
  BY <1>2 DEF Extent, Span
<1>4. QED
  BY <1>1, <1>3

LEMMA OwnersDiffer ==
    ASSUME TypeOK, Owned, NEW l \in Loads, NEW k \in Loads,
           l # k, blocks[l] # {}, blocks[k] # {}
    PROVE  base[l] # base[k]
<1>1. base[l] \in Extent(l) /\ base[k] \in Extent(k)
  BY OwnersBase
<1>2. Extent(l) \cap Extent(k) = {}
  BY DEF Owned
<1>3. QED
  BY <1>1, <1>2

\* Ownership is a matter of bases, images, page table and who owns anything.
LEMMA OwnershipKept ==
    ASSUME Owned, UNCHANGED <<img, base, region>>,
           \A k \in Loads : blocks'[k] = {} <=> blocks[k] = {}
    PROVE  Owned'
  BY DEF Owned, Extent

\* Memory that was free belongs to the load that reserves it.
LEMMA AllocateKeepsOwnership ==
    ASSUME TypeOK, BlocksOfStage, Owned,
           NEW l \in Loads, NEW mem \in Page, Allocate(l, mem)
    PROVE  Owned'
<1> DEFINE new == Span(mem, img[l].size)
<1>1. /\ new \subseteq Page /\ mem \in new
      /\ \A p \in new : region[p] = Null
  <2>1. img[l].size \in Nat \ {0} /\ mem \in Int
    BY ImageParts, PageNumbers DEF TypeOK
  <2>2. QED
    BY <2>1 DEF Allocate, CanReserve, Span
<1>2. Null \notin Page
  BY LastPageAssumption DEF Page, Null
<1>3. /\ UNCHANGED img /\ blocks[l] = {}
      /\ \A k \in Loads : base'[k] = IF k = l THEN mem ELSE base[k]
      /\ \A k \in Loads : blocks'[k] = IF k = l THEN {"local"} ELSE blocks[k]
      /\ \A p \in Page : region'[p] = IF p \in new THEN mem ELSE region[p]
  BY DEF Allocate, Reserve, BlocksOfStage, TypeOK, At
<1>4. /\ Extent(l)' = new
      /\ \A k \in Loads : k # l => Extent(k)' = Extent(k)
  BY <1>3 DEF Extent
<1>5. ASSUME NEW k \in Loads, k # l, blocks[k] # {}
      PROVE  /\ Extent(k) \cap new = {} /\ base[k] # mem
             /\ base[k] \in Page
             /\ Extent(k) = {p \in Page : region'[p] = base[k]}
  <2>1. /\ base[k] \in Page /\ base[k] \in Extent(k)
        /\ Extent(k) = {p \in Page : region[p] = base[k]}
    BY <1>5, OwnersBase
  <2>2. Extent(k) \cap new = {}
    BY <1>1, <1>2, <2>1
  <2>3. QED
    BY <1>1, <1>3, <2>1, <2>2
<1> HIDE DEF new
<1>6. new = {p \in Page : region'[p] = mem}
  <2>1. ASSUME NEW p \in Page, region[p] = mem
        PROVE  FALSE
    <3>1. PICK k \in Loads : blocks[k] # {} /\ base[k] = mem
      BY <1>2, <2>1 DEF Owned
    <3>2. QED
      BY <1>3, <1>5, <3>1
  <2>2. QED
    BY <1>1, <1>3, <2>1
<1>7. ASSUME NEW p \in Page, region'[p] # Null
      PROVE  \E k \in Loads : blocks'[k] # {} /\ base'[k] = region'[p]
  <2>1. CASE p \in new
    BY <1>3, <2>1
  <2>2. CASE p \notin new
    <3>1. PICK k \in Loads : blocks[k] # {} /\ base[k] = region[p]
      BY <1>3, <1>7, <2>2 DEF Owned
    <3>2. QED
      BY <1>3, <2>2, <3>1
  <2>3. QED
    BY <2>1, <2>2
<1>8. ASSUME NEW k \in Loads, blocks'[k] # {}
      PROVE  Extent(k)' = {p \in Page : region'[p] = base'[k]}
  BY <1>3, <1>4, <1>5, <1>6, <1>8
<1>9. ASSUME NEW k \in Loads, NEW j \in Loads, k # j,
             blocks'[k] # {}, blocks'[j] # {}
      PROVE  Extent(k)' \cap Extent(j)' = {}
  BY <1>3, <1>4, <1>5, <1>9 DEF Owned
<1>10. QED
  BY <1>7, <1>8, <1>9 DEF Owned

\* Memory that its owner releases is free, all of it, and everybody else keeps
\* theirs.
LEMMA ReleaseKeepsOwnership ==
    ASSUME TypeOK, Owned, UNCHANGED img, NEW l \in Loads, blocks[l] # {},
           region' = Release(region, base[l]),
           \A k \in Loads : blocks'[k] = IF k = l THEN {} ELSE blocks[k],
           \A k \in Loads : k # l => base'[k] = base[k]
    PROVE  Owned'
<1>1. \A p \in Page : region'[p] = IF region[p] = base[l] THEN Null ELSE region[p]
  BY DEF Release
<1>2. ASSUME NEW k \in Loads, blocks'[k] # {}
      PROVE  /\ k # l /\ blocks[k] # {} /\ base'[k] = base[k]
             /\ Extent(k)' = Extent(k)
             /\ base[k] # base[l] /\ base[k] # Null
  <2>1. k # l /\ blocks[k] # {}
    BY <1>2
  <2>2. base[k] \in Page /\ base[k] # base[l]
    BY <2>1, OwnersBase, OwnersDiffer
  <2>3. QED
    BY <2>1, <2>2, LastPageAssumption DEF Extent, Page, Null
<1>3. ASSUME NEW p \in Page, region'[p] # Null
      PROVE  \E k \in Loads : blocks'[k] # {} /\ base'[k] = region'[p]
  <2>1. region[p] # base[l] /\ region'[p] = region[p]
    BY <1>1, <1>3
  <2>2. PICK k \in Loads : blocks[k] # {} /\ base[k] = region[p]
    BY <1>3, <2>1 DEF Owned
  <2>3. QED
    BY <2>1, <2>2
<1>4. ASSUME NEW k \in Loads, blocks'[k] # {}
      PROVE  Extent(k)' = {p \in Page : region'[p] = base'[k]}
  <2>1. Extent(k) = {p \in Page : region[p] = base[k]}
    BY <1>2, <1>4 DEF Owned
  <2>2. \A p \in Page : region[p] = base[k] <=> region'[p] = base[k]
    BY <1>1, <1>2, <1>4
  <2>3. QED
    BY <1>2, <1>4, <2>1, <2>2
<1>5. ASSUME NEW k \in Loads, NEW j \in Loads, k # j,
             blocks'[k] # {}, blocks'[j] # {}
      PROVE  Extent(k)' \cap Extent(j)' = {}
  BY <1>2, <1>5 DEF Owned
<1>6. QED
  BY <1>3, <1>4, <1>5 DEF Owned

\* The last block of a load that is destroyed releases its memory, and its
\* destructor does not throw.
LEMMA DisposeKeepsOwnership ==
    ASSUME TypeOK, Owned, UNCHANGED img, NEW l \in Loads,
           NEW b \in {"local", "module"}, blocks[l] \in {{}, {b}}, Dispose(l, b)
    PROVE  Owned' /\ blocks'[l] = {} /\ UNCHANGED fault
<1>1. \A k \in Loads : blocks'[k] = IF k = l THEN {} ELSE blocks[k]
  BY DEF Dispose, TypeOK
<1>2. CASE blocks[l] = {}
  <2>1. UNCHANGED <<base, region, fault>>
    BY <1>2 DEF Dispose
  <2>2. \A k \in Loads : blocks'[k] = {} <=> blocks[k] = {}
    BY <1>1, <1>2
  <2>3. QED
    BY <1>1, <2>1, <2>2, OwnershipKept
<1>3. CASE blocks[l] = {b}
  <2>1. CanRelease(region, base[l])
    BY <1>3, OwnersBase DEF CanRelease
  <2>2. /\ UNCHANGED fault
        /\ \A k \in Loads : k # l => base'[k] = base[k]
        /\ region' = Release(region, base[l])
    BY <1>3, <2>1 DEF Dispose, TypeOK
  <2>3. QED
    BY <1>1, <1>3, <2>2, ReleaseKeepsOwnership
<1>4. QED
  BY <1>2, <1>3

\* A constructor that throws with two owners releases what it owns, like one.
LEMMA ConstructorReleases ==
    ASSUME TypeOK, Ownership, NEW l \in Loads, ConstructorThrows(l)
    PROVE  /\ Owned' /\ UNCHANGED <<img, base, cache, fault>>
           /\ blocks[l] = {"local"}
           /\ region' = Release(region, base[l])
           /\ access' = Uncommit(region, access, base[l])
           /\ \A k \in Loads : blocks'[k] = IF k = l THEN {} ELSE blocks[k]
           /\ \A k \in Loads : pc'[k] = IF k = l THEN "unmake" ELSE pc[k]
<1>1. blocks[l] = {"local"}
  BY DEF ConstructorThrows, At, Ownership, BlocksOfStage
<1>2. CanRelease(region, base[l])
  BY <1>1, OwnersBase DEF CanRelease, Ownership
<1>3. /\ UNCHANGED <<img, base, cache, fault>>
      /\ region' = Release(region, base[l])
      /\ access' = Uncommit(region, access, base[l])
      /\ \A k \in Loads : blocks'[k] = IF k = l THEN {} ELSE blocks[k]
      /\ \A k \in Loads : pc'[k] = IF k = l THEN "unmake" ELSE pc[k]
  BY <1>2 DEF ConstructorThrows, Goto, TypeOK
<1>4. Owned'
  BY <1>1, <1>3, ReleaseKeepsOwnership DEF Ownership
<1>5. QED
  BY <1>1, <1>3, <1>4

\* The steps that leave bases, reservations and the blocks alone.
KeepingStep(l) ==
    \/ LoadModule(l) \/ CopyHeaders(l) \/ MapSections(l) \/ Relocate(l)
    \/ \E n \in Names, m \in Answers(l) : ResolveImport(l, n, m)
    \/ ApplyPermissions(l) \/ RemoveDiscardable(l) \/ RegisterTable(l)
    \/ Attach(l) \/ AttachAsserts(l) \/ AttachFaults(l) \/ AttachIndirect(l)
    \/ Throw(l) \/ MakeSharedThrows(l)
    \/ \E n \in Names, m \in Answers(l) \cup {NoModule} : FindForwarded(l, n, m)
    \/ ClientDrop(l) \/ Detach(l) \/ Deregister(l)
    \/ \E n \in Names : DropEntry(l, n)
    \/ CacheGone(l)

LEMMA KeepingStepsKeepOwnership ==
    ASSUME TypeOK, ImportsOutliveImporter, Ownership,
           NEW l \in Loads, KeepingStep(l)
    PROVE  Ownership'
<1> USE DEF TypeOK, At, Goto, moduleVars, memVars, Unloading
<1>1. /\ UNCHANGED <<img, base, region, blocks>>
      /\ \A k \in Loads : pc'[k] # pc[k] =>
            \/ pc[k] = "idle" /\ pc'[k] = "allocate"
            \/ pc[k] \in {"headers", "sections", "relocations", "imports",
                          "discard", "register", "attach"}
               /\ pc'[k] \in {"sections", "relocations", "imports", "discard",
                              "register", "attach", "make_shared", "unwind"}
            \/ pc[k] \in {"allocate", "make_shared"} /\ pc'[k] = "unwind"
            \/ pc[k] \in {"loaded", "detach", "deregister", "dropcache"}
               /\ pc'[k] \in Unloading
            \/ pc[k] = "uncache" /\ pc'[k] = "idle"
            \/ pc[k] = "unmake" /\ pc'[k] = "release again"
  <2>1. CASE LoadModule(l) \/ CopyHeaders(l) \/ MapSections(l) \/ Relocate(l)
    BY <2>1 DEF LoadModule, CopyHeaders, MapSections, Relocate
  <2>2. CASE \/ \E n \in Names, m \in Answers(l) : ResolveImport(l, n, m)
             \/ \E n \in Names, m \in Answers(l) \cup {NoModule} :
                    FindForwarded(l, n, m)
    BY <2>2 DEF ResolveImport, FindForwarded
  <2>3. CASE ApplyPermissions(l) \/ RemoveDiscardable(l) \/ RegisterTable(l)
    BY <2>3 DEF ApplyPermissions, RemoveDiscardable, RegisterTable
  <2>4. CASE Attach(l) \/ AttachAsserts(l) \/ AttachFaults(l) \/ AttachIndirect(l)
    BY <2>4 DEF Attach, AttachAsserts, AttachFaults, AttachIndirect
  <2>5. CASE Throw(l) \/ MakeSharedThrows(l)
    BY <2>5 DEF Throw, MakeSharedThrows
  <2>6. CASE ClientDrop(l) \/ Detach(l) \/ Deregister(l) \/ CacheGone(l)
    BY <2>6 DEF ClientDrop, Detach, Deregister, CacheGone
  <2>7. CASE \E n \in Names : DropEntry(l, n)
    <3>1. PICK n \in Names : DropEntry(l, n)
      BY <2>7
    <3>2. /\ UNCHANGED <<img, base, region, blocks>>
          /\ \/ UNCHANGED pc
             \/ /\ cache[l][n] \in Loads
                /\ pc' = [pc EXCEPT ![cache[l][n]] = "detach"]
      BY <3>1 DEF DropEntry
    <3>3. ASSUME NEW k \in Loads, pc'[k] # pc[k]
          PROVE  pc[k] = "loaded" /\ pc'[k] = "detach"
      <4>1. k = cache[l][n] /\ pc'[k] = "detach"
        BY <3>2, <3>3
      <4>2. QED
        BY <4>1 DEF ImportsOutliveImporter
    <3>4. QED
      BY <3>2, <3>3
  <2>8. QED
    BY <2>1, <2>2, <2>3, <2>4, <2>5, <2>6, <2>7 DEF KeepingStep
<1>2. BlocksOfStage'
  BY <1>1 DEF Ownership, BlocksOfStage
<1>3. Owned'
  BY <1>1, OwnershipKept DEF Ownership
<1>4. QED
  BY <1>2, <1>3 DEF Ownership

\* Ownership passes from the loader's block to the module's.
LEMMA HandOverKeepsOwnership ==
    ASSUME TypeOK, Ownership, NEW l \in Loads, MakeShared(l) \/ HandOver(l)
    PROVE  Ownership'
<1>1. /\ UNCHANGED <<img, base, region>>
      /\ \A k \in Loads : k # l => blocks'[k] = blocks[k] /\ pc'[k] = pc[k]
  BY DEF MakeShared, HandOver, moduleVars, memVars, TypeOK, Goto
<1>2. \/ pc'[l] = "handover" /\ blocks[l] = {"local"} /\ blocks'[l] = {"local", "module"}
      \/ pc'[l] = "return" /\ blocks[l] = {"local", "module"} /\ blocks'[l] = {"module"}
  <2>1. CASE MakeShared(l)
    <3>1. blocks[l] = {"local"}
      BY <2>1 DEF MakeShared, Ownership, BlocksOfStage, At
    <3>2. blocks'[l] = blocks[l] \cup {"module"} /\ pc'[l] = "handover"
      BY <2>1 DEF MakeShared, TypeOK, Goto
    <3>3. QED
      BY <3>1, <3>2
  <2>2. CASE HandOver(l)
    <3>1. blocks[l] = {"local", "module"}
      BY <2>2 DEF HandOver, Ownership, BlocksOfStage, At
    <3>2. blocks'[l] = blocks[l] \ {"local"} /\ pc'[l] = "return"
      BY <2>2 DEF HandOver, TypeOK, Goto
    <3>3. QED
      BY <3>1, <3>2
  <2>3. QED
    BY <2>1, <2>2
<1>3. BlocksOfStage'
  BY <1>1, <1>2 DEF Ownership, BlocksOfStage, Unloading
<1>4. Owned'
  BY <1>1, <1>2, OwnershipKept DEF Ownership
<1>5. QED
  BY <1>3, <1>4 DEF Ownership

\* A process that a fault ended takes no step.
LEMMA NoStepAfterFault ==
    ASSUME Next
    PROVE  fault = "none"
<1>1. PICK l \in Loads : LoadStep(l) \/ UnloadStep(l) \/ ClientStep(l)
  BY DEF Next, Step
<1>2. CASE LoadStep(l)
  BY <1>2 DEF LoadStep, At, Allocate, CopyHeaders, MapSections, Relocate,
              ResolveImport, ApplyPermissions, RemoveDiscardable,
              RegisterTable, Attach, AttachAsserts, AttachFaults,
              AttachIndirect, MakeShared, HandOver, Return, Throw,
              MakeSharedThrows, Unwind, ConstructorThrows, ReleaseAgain
<1>3. CASE UnloadStep(l)
  BY <1>3 DEF UnloadStep, At, Detach, Deregister, DropEntry, CacheGone, Unmap
<1>4. CASE ClientStep(l)
  BY <1>4 DEF ClientStep, At, LoadModule, FindForwarded, ClientDrop
<1>5. QED
  BY <1>1, <1>2, <1>3, <1>4

\* Every reservation has exactly one owner at every moment, across the hand-over
\* and every exception, so none is lost and none is released twice by its owner:
\* only the image_mem of a load whose constructor threw with two owners can still
\* release what is not its own.
THEOREM OwnershipCorrect == Spec => [](BlocksOfStage /\ MemoryOwned)
<1> DEFINE Inv == BlocksOfStage /\ MemoryOwned
<1>1. Init => Inv
  BY DEF Init, BlocksOfStage, MemoryOwned, Owned, Unloading
<1>2. TypeOK /\ ImportsOutliveImporter /\ Inv /\ Next => Inv'
  <2> SUFFICES ASSUME TypeOK, ImportsOutliveImporter, Inv, Next PROVE Inv'
    OBVIOUS
  <2> Ownership
    BY NoStepAfterFault DEF Ownership, MemoryOwned, Intact
  <2>0. Ownership' => Inv'
    BY DEF Ownership, MemoryOwned
  <2> HIDE DEF Inv
  <2>1. ASSUME NEW l \in Loads, KeepingStep(l) PROVE Ownership'
    BY <2>1, KeepingStepsKeepOwnership
  <2>2. ASSUME NEW l \in Loads, NEW mem \in Page, Allocate(l, mem) PROVE Ownership'
    <3>1. Owned'
      BY <2>2, AllocateKeepsOwnership DEF Ownership
    <3>2. BlocksOfStage'
      BY <2>2 DEF Allocate, Goto, TypeOK, Ownership, BlocksOfStage, Unloading
    <3>3. QED
      BY <3>1, <3>2 DEF Ownership
  <2>3. ASSUME NEW l \in Loads, MakeShared(l) \/ HandOver(l) PROVE Ownership'
    BY <2>3, HandOverKeepsOwnership
  <2>4. ASSUME NEW l \in Loads, Return(l) PROVE Ownership'
    <3>1. UNCHANGED <<img, base, region, blocks>>
      <4>1. blocks[l] = {"module"}
        BY <2>4 DEF Return, At, Ownership, BlocksOfStage
      <4>2. QED
        BY <2>4, <4>1 DEF Return, Dispose, TypeOK
    <3>2. BlocksOfStage'
      BY <2>4, <3>1 DEF Return, At, Goto, TypeOK, Ownership, BlocksOfStage, Unloading
    <3>3. Owned'
      BY <3>1, OwnershipKept DEF Ownership
    <3>4. QED
      BY <3>2, <3>3 DEF Ownership
  <2>5. ASSUME NEW l \in Loads, Unwind(l) PROVE Ownership'
    <3>1. blocks[l] \in {{}, {"local"}} /\ UNCHANGED img /\ Dispose(l, "local")
      BY <2>5 DEF Unwind, At, Ownership, BlocksOfStage
    <3>2. Owned' /\ blocks'[l] = {}
      BY <3>1, DisposeKeepsOwnership DEF Ownership
    <3>3. \A k \in Loads : k # l => blocks'[k] = blocks[k] /\ pc'[k] = pc[k]
      BY <2>5, <3>1 DEF Unwind, Goto, Dispose, TypeOK
    <3>4. pc'[l] = "uncache"
      BY <2>5 DEF Unwind, Goto, TypeOK
    <3>5. BlocksOfStage'
      BY <3>2, <3>3, <3>4 DEF Ownership, BlocksOfStage, Unloading
    <3>6. QED
      BY <3>2, <3>5 DEF Ownership
  <2>6. ASSUME NEW l \in Loads, Unmap(l) PROVE Ownership'
    <3>1. blocks[l] \in {{}, {"module"}} /\ UNCHANGED img /\ Dispose(l, "module")
      BY <2>6 DEF Unmap, At, Ownership, BlocksOfStage, Unloading
    <3>2. Owned' /\ blocks'[l] = {}
      BY <3>1, DisposeKeepsOwnership DEF Ownership
    <3>3. \A k \in Loads : k # l => blocks'[k] = blocks[k] /\ pc'[k] = pc[k]
      BY <2>6, <3>1 DEF Unmap, Goto, Dispose, TypeOK
    <3>4. pc'[l] = "idle"
      BY <2>6 DEF Unmap, Goto, TypeOK
    <3>5. BlocksOfStage'
      BY <3>2, <3>3, <3>4 DEF Ownership, BlocksOfStage, Unloading
    <3>6. QED
      BY <3>2, <3>5 DEF Ownership
  <2>7. ASSUME NEW l \in Loads, ConstructorThrows(l) PROVE Ownership'
    <3>1. BlocksOfStage'
      BY <2>7, ConstructorReleases DEF Ownership, BlocksOfStage, Unloading
    <3>2. QED
      BY <2>7, <3>1, ConstructorReleases DEF Ownership
  <2>8. ASSUME NEW l \in Loads, ReleaseAgain(l) PROVE Inv'
    <3>1. UNCHANGED <<pc, img, base, blocks>>
      BY <2>8 DEF ReleaseAgain, moduleVars
    <3>2. BlocksOfStage'
      BY <3>1 DEF Ownership, BlocksOfStage
    <3>3. CASE UNCHANGED region
      BY <3>1, <3>2, <3>3, OwnershipKept, <2>0 DEF Ownership
    <3>4. CASE fault' = "foreign release"
      BY <3>2, <3>4 DEF Inv, MemoryOwned, Intact
    <3>5. QED
      BY <2>8, <3>3, <3>4 DEF ReleaseAgain
  <2>9. QED
    BY <2>0, <2>1, <2>2, <2>3, <2>4, <2>5, <2>6, <2>7, <2>8
       DEF Next, Step, LoadStep, UnloadStep, ClientStep, KeepingStep
<1>3. Inv /\ UNCHANGED vars => Inv'
  BY OwnershipKept DEF vars, BlocksOfStage, MemoryOwned, Intact
<1> HIDE DEF Inv
<1>4. TypeOK /\ ImportsOutliveImporter /\ Inv /\ [Next]_vars => Inv'
  BY <1>2, <1>3
<1>5. Spec => []Inv
  BY <1>1, <1>4, TypeCorrect, ReferencesCorrect, PTL DEF Spec
<1>6. QED
  BY <1>5 DEF Inv

\* Whoever moves, finds every reservation owned.
LEMMA OwnersInStep ==
    ASSUME BlocksOfStage, MemoryOwned, Next
    PROVE  Ownership
  BY NoStepAfterFault DEF Ownership, MemoryOwned, Intact

-----------------------------------------------------------------------------
(* No load touches the memory of another.                                    *)

\* A step that changes only pages of l leaves the other modules alone.
LEMMA OwnPagesOnly ==
    ASSUME TypeOK, Owned, NEW l \in Loads, blocks[l] # {},
           \A p \in Page : region[p] # base[l] =>
               region'[p] = region[p] /\ access'[p] = access[p],
           NEW k \in Loads, k # l
    PROVE  LeavesOthersAlone(k)
<1>1. ASSUME NEW p \in Page, blocks[k] # {}, region[p] = base[k]
      PROVE  region[p] # base[l]
  BY <1>1, OwnersDiffer
<1>2. QED
  BY <1>1 DEF LeavesOthersAlone

\* A range in one reservation that starts at a page of l is l's.
LEMMA RangeOfOwner ==
    ASSUME TypeOK, Owned, NEW l \in Loads, blocks[l] # {},
           NEW offset \in Nat, NEW size \in Nat, offset < img[l].size,
           InOneRegion(region, base[l] + offset, size)
    PROVE  \A p \in Span(base[l] + offset, size) : region[p] = base[l]
<1>1. base[l] \in Int /\ img[l].size \in Nat
  BY OwnersBase, PageNumbers, ImageParts DEF TypeOK
<1>2. base[l] + offset \in Extent(l)
  BY <1>1 DEF Extent, Span
<1>3. region[base[l] + offset] = base[l]
  BY <1>2, OwnersBase
<1>4. QED
  BY <1>3 DEF InOneRegion

LEMMA SectionOfOwner ==
    ASSUME TypeOK, Owned, NEW l \in Loads, blocks[l] # {},
           NEW s \in img[l].sections,
           InOneRegion(region, base[l] + s.va, s.size)
    PROVE  \A p \in SectionPages(l, s) : region[p] = base[l]
<1>1. s.va \in Nat /\ s.size \in Nat /\ s.va < img[l].size
  BY ImageParts DEF TypeOK
<1>2. QED
  BY <1>1, RangeOfOwner DEF SectionPages

\* The steps that change protections change those of pages of their own.
LEMMA ProtectionStepsIsolated ==
    ASSUME TypeOK, Ownership, NEW l \in Loads,
           \/ CopyHeaders(l) \/ MapSections(l)
           \/ ApplyPermissions(l) \/ RemoveDiscardable(l)
    PROVE  /\ blocks[l] # {} /\ pc'[l] # pc[l]
           /\ \A p \in Page : region[p] # base[l] =>
                 region'[p] = region[p] /\ access'[p] = access[p]
<1> USE DEF Ownership
<1>1. blocks[l] # {} /\ pc'[l] # pc[l] /\ UNCHANGED region
  <2>1. /\ pc[l] \in {"headers", "sections", "imports", "discard"}
        /\ UNCHANGED region
    BY DEF CopyHeaders, MapSections, ApplyPermissions, RemoveDiscardable, At
  <2>2. pc'[l] # pc[l]
    BY DEF CopyHeaders, MapSections, ApplyPermissions, RemoveDiscardable, At,
           Goto, TypeOK
  <2>3. blocks[l] # {}
    BY <2>1 DEF BlocksOfStage
  <2>4. QED
    BY <2>1, <2>2, <2>3
<1>2. CASE CopyHeaders(l)
  <2>1. /\ img[l].headers \in Nat /\ img[l].size \in Nat \ {0} /\ base[l] \in Int
    BY <1>1, ImageParts, OwnersBase, PageNumbers DEF TypeOK
  <2>2. InOneRegion(region, base[l] + 0, img[l].headers)
    BY <1>2, <2>1 DEF CopyHeaders
  <2>3. \A p \in Span(base[l], img[l].headers) : region[p] = base[l]
    BY <1>1, <2>1, <2>2, RangeOfOwner
  <2>4. QED
    BY <1>1, <1>2, <2>3 DEF CopyHeaders, SetPages
<1>3. CASE MapSections(l)
  <2>1. \A s \in img[l].sections : \A p \in SectionPages(l, s) : region[p] = base[l]
    BY <1>1, <1>3, SectionOfOwner DEF MapSections
  <2>2. \A p \in UNION {SectionPages(l, s) : s \in img[l].sections} :
            region[p] = base[l]
    BY <2>1
  <2>3. QED
    BY <1>1, <1>3, <2>2 DEF MapSections, SetPages
<1>4. CASE ApplyPermissions(l)
  <2>1. \A s \in img[l].sections : \A p \in SectionPages(l, s) : region[p] = base[l]
    BY <1>1, <1>4, SectionOfOwner DEF ApplyPermissions, CanProtect
  <2>2. ASSUME NEW p \in Page, region[p] # base[l]
        PROVE  access'[p] = access[p]
    BY <1>4, <2>1, <2>2 DEF ApplyPermissions
  <2>3. QED
    BY <1>1, <2>2
<1>5. CASE RemoveDiscardable(l)
  <2> DEFINE discarded == {s \in img[l].sections : s.discardable}
  <2>1. \A s \in discarded : \A p \in SectionPages(l, s) : region[p] = base[l]
    BY <1>1, <1>5, SectionOfOwner DEF RemoveDiscardable
  <2>2. \A p \in UNION {SectionPages(l, s) : s \in discarded} : region[p] = base[l]
    BY <2>1
  <2>3. access' = SetPages(access, UNION {SectionPages(l, s) : s \in discarded},
                           NotCommitted)
    BY <1>5 DEF RemoveDiscardable
  <2>4. QED
    BY <1>1, <2>2, <2>3 DEF SetPages
<1>6. QED
  BY <1>2, <1>3, <1>4, <1>5

\* So does the destructor of a memory block.
LEMMA DisposeIsolated ==
    ASSUME TypeOK, Owned, NEW l \in Loads, NEW b, Dispose(l, b)
    PROVE  \/ UNCHANGED <<region, access>>
           \/ /\ blocks[l] # {}
              /\ \A p \in Page : region[p] # base[l] =>
                    region'[p] = region[p] /\ access'[p] = access[p]
  BY DEF Dispose, Release, Uncommit, TypeOK

\* No load and no destructor changes a page of another module, as long as no
\* image_mem of a load whose constructor threw releases one.
THEOREM IsolationCorrect == Spec => Isolation
<1>1. /\ TypeOK /\ BlocksOfStage /\ MemoryOwned /\ [Next]_vars
      => [Intact' => EachLeavesOthersAlone]_vars
  <2> SUFFICES ASSUME TypeOK, BlocksOfStage, MemoryOwned, Next, Intact',
                      NEW k \in Loads
               PROVE  LeavesOthersAlone(k)
    BY DEF EachLeavesOthersAlone
  <2> Ownership
    BY OwnersInStep
  <2> USE DEF Ownership
  <2>1. CASE UNCHANGED <<region, access>>
    BY <2>1 DEF LeavesOthersAlone
  <2>2. ASSUME NEW l \in Loads,
               \/ CopyHeaders(l) \/ MapSections(l)
               \/ ApplyPermissions(l) \/ RemoveDiscardable(l)
        PROVE  LeavesOthersAlone(k)
    <3>1. CASE k = l
      BY <2>2, <3>1, ProtectionStepsIsolated DEF LeavesOthersAlone
    <3>2. CASE k # l
      BY <2>2, <3>2, ProtectionStepsIsolated, OwnPagesOnly
    <3>3. QED
      BY <3>1, <3>2
  <2>3. ASSUME NEW l \in Loads, NEW mem \in Page, Allocate(l, mem)
        PROVE  LeavesOthersAlone(k)
    <3>1. ASSUME NEW p \in Page, blocks[k] # {}, region[p] = base[k]
          PROVE  region'[p] = region[p] /\ access'[p] = access[p]
      <4>1. region[p] # Null
        BY <3>1, OwnersBase, PageNumbers
      <4>2. QED
        BY <2>3, <4>1 DEF Allocate, CanReserve, Reserve
    <3>2. QED
      BY <3>1 DEF LeavesOthersAlone
  <2>4. ASSUME NEW l \in Loads, Return(l) \/ Unwind(l) \/ Unmap(l)
        PROVE  LeavesOthersAlone(k)
    <3>1. pc'[l] # pc[l]
      BY <2>4 DEF Return, Unwind, Unmap, At, Goto, TypeOK
    <3>2. PICK b : Dispose(l, b)
      BY <2>4 DEF Return, Unwind, Unmap
    <3>3. CASE k = l
      BY <3>1, <3>3 DEF LeavesOthersAlone
    <3>4. CASE k # l
      BY <2>1, <3>2, <3>4, DisposeIsolated, OwnPagesOnly
    <3>5. QED
      BY <3>3, <3>4
  <2>5. \/ UNCHANGED <<region, access>>
        \/ \E l \in Loads :
              \/ CopyHeaders(l) \/ MapSections(l)
              \/ ApplyPermissions(l) \/ RemoveDiscardable(l)
              \/ \E mem \in Page : Allocate(l, mem)
              \/ Return(l) \/ Unwind(l) \/ Unmap(l) \/ ConstructorThrows(l)
    <3>1. PICK l \in Loads : LoadStep(l) \/ UnloadStep(l) \/ ClientStep(l)
      BY DEF Next, Step
    <3>2. ASSUME Relocate(l) \/ RegisterTable(l) \/ Attach(l) \/ AttachAsserts(l)
                 \/ AttachFaults(l) \/ AttachIndirect(l)
          PROVE  UNCHANGED <<region, access>>
      BY <3>2 DEF Relocate, RegisterTable, Attach, AttachAsserts, AttachFaults,
                  AttachIndirect, memVars
    <3>3. ASSUME MakeShared(l) \/ HandOver(l) \/ Throw(l) \/ MakeSharedThrows(l)
          PROVE  UNCHANGED <<region, access>>
      BY <3>3 DEF MakeShared, HandOver, Throw, MakeSharedThrows, memVars
    <3>4. ASSUME NEW n \in Names, NEW m \in Answers(l), ResolveImport(l, n, m)
          PROVE  UNCHANGED <<region, access>>
      BY <3>4 DEF ResolveImport, memVars
    <3>5. ASSUME ReleaseAgain(l)
          PROVE  UNCHANGED <<region, access>>
      BY <3>5 DEF ReleaseAgain, Intact
    <3>6. CASE LoadStep(l)
      BY <3>2, <3>3, <3>4, <3>6, <3>5 DEF LoadStep
    <3>7. ASSUME UnloadStep(l), ~ Unmap(l)
          PROVE  UNCHANGED <<region, access>>
      BY <3>7 DEF UnloadStep, Detach, Deregister, DropEntry, CacheGone, memVars
    <3>8. CASE ClientStep(l)
      BY <3>8 DEF ClientStep, LoadModule, FindForwarded, ClientDrop, memVars
    <3> QED
      BY <3>1, <3>6, <3>7, <3>8
  <2>6. ASSUME NEW l \in Loads, ConstructorThrows(l)
        PROVE  LeavesOthersAlone(k)
    <3>1. /\ pc'[l] # pc[l] /\ blocks[l] # {}
          /\ \A p \in Page : region[p] # base[l] =>
                region'[p] = region[p] /\ access'[p] = access[p]
      BY <2>6, ConstructorReleases DEF ConstructorThrows, At, Release, Uncommit
    <3>2. CASE k = l
      BY <3>1, <3>2 DEF LeavesOthersAlone
    <3>3. CASE k # l
      BY <3>1, <3>3, OwnPagesOnly
    <3>4. QED
      BY <3>2, <3>3
  <2>7. QED
    BY <2>1, <2>2, <2>3, <2>4, <2>5, <2>6
<1>2. QED
  BY <1>1, TypeCorrect, OwnershipCorrect, PTL DEF Spec, Isolation

-----------------------------------------------------------------------------
(***************************************************************************)
(* What the pages of a module hold at each stage of a load, and what       *)
(* follows: DllMain can be called as long as the module is there, and what *)
(* ends the process is the first call of it, or a constructor that threw   *)
(* with two owners.  This rests on what is above: every page has one       *)
(* owner, and no step changes a page of a load that does not move.         *)
(***************************************************************************)

(***************************************************************************)
(* Which steps a load's own stage depends on.                              *)
(***************************************************************************)

\* The steps by which a load moves on by itself.
OwnMove(l) ==
    \/ LoadModule(l) \/ \E mem \in Page : Allocate(l, mem)
    \/ CopyHeaders(l) \/ MapSections(l) \/ Relocate(l)
    \/ ApplyPermissions(l) \/ RemoveDiscardable(l) \/ RegisterTable(l)
    \/ Attach(l) \/ AttachIndirect(l)
    \/ MakeShared(l) \/ HandOver(l) \/ Return(l)
    \/ Throw(l) \/ MakeSharedThrows(l) \/ ConstructorThrows(l) \/ Unwind(l)
    \/ Detach(l) \/ Deregister(l) \/ CacheGone(l) \/ Unmap(l)

\* The step by which the last reference to a loaded module goes, wherever that
\* reference was.
Retired(k) ==
    /\ pc[k] = "loaded" /\ pc'[k] = "detach"
    /\ UNCHANGED <<img, base, blocks, dll, region, access, tables, lost, fault>>

\* No step moves a load but its own and the one that drops its last reference.
LEMMA MovesOfLoad ==
    ASSUME TypeOK, ImportsOutliveImporter, Next,
           NEW k \in Loads, pc'[k] # pc[k]
    PROVE  OwnMove(k) \/ Retired(k)
<1> USE DEF TypeOK, Goto
<1>1. PICK l \in Loads : LoadStep(l) \/ UnloadStep(l) \/ ClientStep(l)
  BY DEF Next, Step
<1>2. CASE l = k /\ OwnMove(l)
  BY <1>2
<1>3. ASSUME LoadModule(l) \/ Relocate(l) \/ CopyHeaders(l) \/ MapSections(l)
             \/ \E mem \in Page : Allocate(l, mem)
      PROVE  OwnMove(k)
  <2>1. k = l
    BY <1>3 DEF LoadModule, Relocate, CopyHeaders, MapSections, Allocate
  <2>2. QED
    BY <1>3, <2>1 DEF OwnMove
<1>4. ASSUME ApplyPermissions(l) \/ RemoveDiscardable(l) \/ RegisterTable(l)
             \/ Attach(l) \/ AttachIndirect(l)
      PROVE  OwnMove(k)
  <2>1. k = l
    BY <1>4 DEF ApplyPermissions, RemoveDiscardable, RegisterTable, Attach,
                AttachIndirect
  <2>2. QED
    BY <1>4, <2>1 DEF OwnMove
<1>5. ASSUME MakeShared(l) \/ HandOver(l) \/ Return(l) \/ Throw(l)
             \/ MakeSharedThrows(l) \/ ConstructorThrows(l) \/ Unwind(l)
      PROVE  OwnMove(k)
  <2>1. k = l
    BY <1>5 DEF MakeShared, HandOver, Return, Throw, MakeSharedThrows,
                ConstructorThrows, Unwind
  <2>2. QED
    BY <1>5, <2>1 DEF OwnMove
<1>6. ASSUME Detach(l) \/ Deregister(l) \/ CacheGone(l) \/ Unmap(l)
      PROVE  OwnMove(k)
  <2>1. k = l
    BY <1>6 DEF Detach, Deregister, CacheGone, Unmap
  <2>2. QED
    BY <1>6, <2>1 DEF OwnMove
<1>7. ASSUME ClientDrop(l) PROVE Retired(k)
  BY <1>7 DEF ClientDrop, At, Retired, memVars
<1>8. ASSUME NEW n \in Names, DropEntry(l, n) PROVE Retired(k)
  <2>1. /\ cache[l][n] \in Loads
        /\ pc' = [pc EXCEPT ![cache[l][n]] = "detach"]
    BY <1>8 DEF DropEntry
  <2>2. k = cache[l][n]
    BY <2>1
  <2>3. pc[k] = "loaded" /\ pc'[k] = "detach"
    BY <2>1, <2>2 DEF ImportsOutliveImporter
  <2>4. QED
    BY <1>8, <2>3 DEF DropEntry, Retired, moduleVars, memVars
<1>9. ASSUME NEW n \in Names, NEW m,
             ResolveImport(l, n, m) \/ FindForwarded(l, n, m)
      PROVE  FALSE
  BY <1>9 DEF ResolveImport, FindForwarded
<1>10. ASSUME AttachAsserts(l) \/ AttachFaults(l) \/ ReleaseAgain(l)
       PROVE  FALSE
  BY <1>10 DEF AttachAsserts, AttachFaults, ReleaseAgain
<1>11. CASE LoadStep(l)
  BY <1>3, <1>4, <1>5, <1>9, <1>10, <1>11 DEF LoadStep
<1>12. CASE UnloadStep(l)
  BY <1>6, <1>8, <1>12 DEF UnloadStep
<1>13. CASE ClientStep(l)
  BY <1>3, <1>7, <1>9, <1>13 DEF ClientStep
<1>14. QED
  BY <1>1, <1>11, <1>12, <1>13

\* No destructor but its own changes the base of a load.
LEMMA DisposeOfOthers ==
    ASSUME TypeOK, NEW l \in Loads, NEW k \in Loads, k # l, NEW b, Dispose(l, b)
    PROVE  base'[k] = base[k] /\ blocks'[k] = blocks[k]
  BY DEF Dispose, TypeOK

\* An image is never exchanged, and a load that does not move keeps its memory
\* where it is and is told nothing.
LEMMA StayingLoad ==
    ASSUME TypeOK, Next
    PROVE  /\ UNCHANGED img
           /\ \A k \in Loads : pc'[k] = pc[k] =>
                 /\ base'[k] = base[k] /\ blocks'[k] = blocks[k]
                 /\ dll'[k] = dll[k]
<1> USE DEF TypeOK, moduleVars
<1>1. PICK l \in Loads : LoadStep(l) \/ UnloadStep(l) \/ ClientStep(l)
  BY DEF Next, Step
<1>2. ASSUME NEW mem \in Page, Allocate(l, mem)
      PROVE  /\ UNCHANGED img
             /\ \A k \in Loads : k # l =>
                   /\ base'[k] = base[k] /\ blocks'[k] = blocks[k]
                   /\ dll'[k] = dll[k]
             /\ pc'[l] # pc[l]
  BY <1>2 DEF Allocate, At, Goto
<1>3. ASSUME Return(l) \/ Unwind(l) \/ Unmap(l)
      PROVE  /\ UNCHANGED img
             /\ \A k \in Loads : k # l =>
                   /\ base'[k] = base[k] /\ blocks'[k] = blocks[k]
                   /\ dll'[k] = dll[k]
             /\ pc'[l] # pc[l]
  <2>1. /\ UNCHANGED img /\ pc'[l] # pc[l]
        /\ \A k \in Loads : k # l => dll'[k] = dll[k]
    BY <1>3 DEF Return, Unwind, Unmap, At, Goto
  <2>2. PICK b : Dispose(l, b)
    BY <1>3 DEF Return, Unwind, Unmap
  <2>3. QED
    BY <2>1, <2>2, DisposeOfOthers
<1>4. ASSUME MakeShared(l) \/ HandOver(l)
      PROVE  /\ UNCHANGED <<img, base, dll>>
             /\ \A k \in Loads : k # l => blocks'[k] = blocks[k]
             /\ pc'[l] # pc[l]
  BY <1>4 DEF MakeShared, HandOver, At, Goto
<1>5. ASSUME CopyHeaders(l) \/ MapSections(l) \/ Relocate(l)
             \/ ApplyPermissions(l) \/ RemoveDiscardable(l) \/ RegisterTable(l)
      PROVE  UNCHANGED <<img, base, blocks, dll>>
  BY <1>5 DEF CopyHeaders, MapSections, Relocate, ApplyPermissions,
              RemoveDiscardable, RegisterTable
<1>6. ASSUME AttachAsserts(l) \/ AttachFaults(l) \/ AttachIndirect(l)
             \/ Throw(l) \/ ReleaseAgain(l)
      PROVE  UNCHANGED <<img, base, blocks, dll>>
  BY <1>6 DEF AttachAsserts, AttachFaults, AttachIndirect, Throw, ReleaseAgain
<1>7. ASSUME NEW n, NEW m, ResolveImport(l, n, m) \/ FindForwarded(l, n, m)
                           \/ DropEntry(l, n)
      PROVE  UNCHANGED <<img, base, blocks, dll>>
  BY <1>7 DEF ResolveImport, FindForwarded, DropEntry
<1>8. ASSUME LoadModule(l) \/ ClientDrop(l) \/ Deregister(l) \/ CacheGone(l)
      PROVE  UNCHANGED <<img, base, blocks, dll>>
  BY <1>8 DEF LoadModule, ClientDrop, Deregister, CacheGone
<1>9. ASSUME Attach(l) \/ Detach(l) \/ MakeSharedThrows(l) \/ ConstructorThrows(l)
      PROVE  /\ UNCHANGED <<img, base>>
             /\ \A k \in Loads : k # l =>
                   dll'[k] = dll[k] /\ blocks'[k] = blocks[k]
             /\ pc'[l] # pc[l]
  BY <1>9 DEF Attach, Detach, MakeSharedThrows, ConstructorThrows, LeavesDll, At,
              Goto
<1>10. CASE LoadStep(l)
  BY <1>2, <1>3, <1>4, <1>5, <1>6, <1>7, <1>9, <1>10 DEF LoadStep
<1>11. CASE UnloadStep(l)
  BY <1>3, <1>7, <1>8, <1>9, <1>11 DEF UnloadStep
<1>12. CASE ClientStep(l)
  BY <1>7, <1>8, <1>12 DEF ClientStep
<1>13. QED
  BY <1>1, <1>10, <1>11, <1>12

-----------------------------------------------------------------------------
(* The pages of a load, by where it is.  PagesAsDeclared speaks of modules   *)
(* whose protections are applied; the invariant follows them from the        *)
(* reservation on, and needs that free pages are not committed.              *)

InHeaders(l, p) == p \in Span(base[l], img[l].headers)

InSection(l, p) == \E s \in img[l].sections : p \in SectionPages(l, s)

\* The copied headers, as long as no section lies over them.
OnlyHeaders(l, p) ==
    access[p] = IF InHeaders(l, p) THEN ReadWrite ELSE NotCommitted

Declared(l, p) ==
    \/ \E s \in img[l].sections :
          /\ p \in SectionPages(l, s)
          /\ access[p] = IF s.discardable THEN NotCommitted
                         ELSE {r \in s.rights : "read" \in s.rights}
    \/ ~ InSection(l, p) /\ OnlyHeaders(l, p)

DeclaredStages == Registered \cup {"register", "dropcache", "unmap"}

PageOfStage(l, p) ==
    /\ pc[l] = "headers" => access[p] = NotCommitted
    /\ pc[l] = "sections" => OnlyHeaders(l, p)
    /\ pc[l] \in {"relocations", "imports"} =>
          access[p] = IF InSection(l, p) \/ InHeaders(l, p) THEN ReadWrite
                      ELSE NotCommitted
    /\ pc[l] = "discard" =>
          \/ \E s \in img[l].sections :
                p \in SectionPages(l, s) /\ access[p] = Win32Access(s.rights)
          \/ ~ InSection(l, p) /\ OnlyHeaders(l, p)
    /\ pc[l] \in DeclaredStages => Declared(l, p)

PagesOfStage == \A l \in Loads : \A p \in Extent(l) : PageOfStage(l, p)

FreePagesUncommitted ==
    \A p \in Page : region[p] = Null => access[p] = NotCommitted

\* The stages in which a load owns memory.
MemoryStages == {"headers", "sections", "relocations", "imports", "discard"}
                    \cup DeclaredStages

LEMMA OwnedPages ==
    ASSUME TypeOK, Ownership, NEW l \in Loads, pc[l] \in MemoryStages
    PROVE  /\ blocks[l] # {}
           /\ base[l] \in Page /\ base[l] \in Extent(l)
           /\ Extent(l) = {p \in Page : region[p] = base[l]}
<1>1. blocks[l] # {}
  BY DEF Ownership, BlocksOfStage, MemoryStages, DeclaredStages, Registered,
         Unloading
<1>2. QED
  BY <1>1, OwnersBase DEF Ownership

\* What is said of a page depends on its protection and on the load's stage,
\* image and base alone.
LEMMA PageKept ==
    ASSUME NEW l \in Loads, NEW p, PageOfStage(l, p),
           img'[l] = img[l], base'[l] = base[l], access'[p] = access[p],
           \/ pc'[l] = pc[l]
           \/ pc[l] = "relocations" /\ pc'[l] = "imports"
           \/ pc[l] \in DeclaredStages /\ pc'[l] \in DeclaredStages
           \/ pc'[l] \notin MemoryStages
    PROVE  PageOfStage(l, p)'
<1>1. /\ InHeaders(l, p)' <=> InHeaders(l, p)
      /\ \A s : SectionPages(l, s)' = SectionPages(l, s)
  BY DEF InHeaders, SectionPages
<1>2. InSection(l, p)' <=> InSection(l, p)
  BY <1>1 DEF InSection
<1>3. OnlyHeaders(l, p)' <=> OnlyHeaders(l, p)
  BY <1>1 DEF OnlyHeaders
<1>4. Declared(l, p)' <=> Declared(l, p)
  BY <1>1, <1>2, <1>3 DEF Declared
<1>5. CASE pc'[l] = pc[l]
  BY <1>1, <1>2, <1>3, <1>4, <1>5 DEF PageOfStage
<1>6. CASE pc[l] = "relocations" /\ pc'[l] = "imports"
  BY <1>1, <1>2, <1>6 DEF PageOfStage, DeclaredStages, Registered
<1>7. CASE pc[l] \in DeclaredStages /\ pc'[l] \in DeclaredStages
  BY <1>4, <1>7 DEF PageOfStage, DeclaredStages, Registered
<1>8. CASE pc'[l] \notin MemoryStages
  BY <1>8 DEF PageOfStage, MemoryStages
<1>9. QED
  BY <1>5, <1>6, <1>7, <1>8

\* The four steps that set protections.
LEMMA CopyHeadersPages ==
    ASSUME TypeOK, Ownership, PagesOfStage, NEW l \in Loads, CopyHeaders(l),
           NEW p \in Extent(l)
    PROVE  PageOfStage(l, p)'
<1>1. pc[l] = "headers" /\ pc'[l] = "sections" /\ UNCHANGED <<img, base>>
  BY DEF CopyHeaders, At, Goto, TypeOK, moduleVars
<1>2. p \in Page
  BY <1>1, OwnedPages DEF MemoryStages
<1>3. access[p] = NotCommitted
  BY <1>1 DEF PagesOfStage, PageOfStage
<1>4. access'[p] = IF InHeaders(l, p) THEN ReadWrite ELSE access[p]
  BY <1>2 DEF CopyHeaders, SetPages, InHeaders
<1>5. InHeaders(l, p)' <=> InHeaders(l, p)
  BY <1>1 DEF InHeaders
<1>6. QED
  BY <1>1, <1>3, <1>4, <1>5 DEF PageOfStage, OnlyHeaders, DeclaredStages, Registered

LEMMA MapSectionsPages ==
    ASSUME TypeOK, Ownership, PagesOfStage, NEW l \in Loads, MapSections(l),
           NEW p \in Extent(l)
    PROVE  PageOfStage(l, p)'
<1>1. pc[l] = "sections" /\ pc'[l] = "relocations" /\ UNCHANGED <<img, base>>
  BY DEF MapSections, At, Goto, TypeOK, moduleVars
<1>2. p \in Page
  BY <1>1, OwnedPages DEF MemoryStages
<1>3. access[p] = IF InHeaders(l, p) THEN ReadWrite ELSE NotCommitted
  BY <1>1 DEF PagesOfStage, PageOfStage, OnlyHeaders
<1>4. access'[p] = IF InSection(l, p) THEN ReadWrite ELSE access[p]
  BY <1>2 DEF MapSections, SetPages, InSection
<1>5. /\ InHeaders(l, p)' <=> InHeaders(l, p)
      /\ InSection(l, p)' <=> InSection(l, p)
  BY <1>1 DEF InHeaders, InSection, SectionPages
<1>6. QED
  BY <1>1, <1>3, <1>4, <1>5 DEF PageOfStage, DeclaredStages, Registered

LEMMA ApplyPermissionsPages ==
    ASSUME TypeOK, Ownership, PagesOfStage, NEW l \in Loads, ApplyPermissions(l),
           NEW p \in Extent(l)
    PROVE  PageOfStage(l, p)'
<1>1. pc[l] = "imports" /\ pc'[l] = "discard" /\ UNCHANGED <<img, base>>
  BY DEF ApplyPermissions, At, Goto, TypeOK, moduleVars
<1>2. p \in Page
  BY <1>1, OwnedPages DEF MemoryStages
<1>3. access[p] = IF InSection(l, p) \/ InHeaders(l, p) THEN ReadWrite
                  ELSE NotCommitted
  BY <1>1 DEF PagesOfStage, PageOfStage
<1>4. /\ InHeaders(l, p)' <=> InHeaders(l, p)
      /\ InSection(l, p)' <=> InSection(l, p)
      /\ \A s : SectionPages(l, s)' = SectionPages(l, s)
  BY <1>1 DEF InHeaders, InSection, SectionPages
<1>5. CASE InSection(l, p)
  <2> DEFINE chosen == CHOOSE s \in img[l].sections : p \in SectionPages(l, s)
  <2>1. chosen \in img[l].sections /\ p \in SectionPages(l, chosen)
    BY <1>5 DEF InSection
  <2>2. access'[p] = Win32Access(chosen.rights)
    BY <1>2, <1>5 DEF ApplyPermissions, InSection
  <2> HIDE DEF chosen
  <2>3. \E s \in img'[l].sections :
            p \in SectionPages(l, s)' /\ access'[p] = Win32Access(s.rights)
    BY <1>1, <1>4, <2>1, <2>2
  <2>4. QED
    BY <1>1, <2>3 DEF PageOfStage, DeclaredStages, Registered
<1>6. CASE ~ InSection(l, p)
  <2>1. access'[p] = access[p]
    BY <1>2, <1>6 DEF ApplyPermissions, InSection
  <2>2. QED
    BY <1>1, <1>3, <1>4, <1>6, <2>1
       DEF PageOfStage, OnlyHeaders, DeclaredStages, Registered
<1>7. QED
  BY <1>5, <1>6

\* Sections share no page, so a page is discarded or kept as its only section
\* says.
LEMMA RemoveDiscardablePages ==
    ASSUME TypeOK, Ownership, PagesOfStage, NEW l \in Loads, RemoveDiscardable(l),
           NEW p \in Extent(l)
    PROVE  PageOfStage(l, p)'
<1>1. pc[l] = "discard" /\ pc'[l] = "register" /\ UNCHANGED <<img, base>>
  BY DEF RemoveDiscardable, At, Goto, TypeOK, moduleVars
<1>2. p \in Page
  BY <1>1, OwnedPages DEF MemoryStages
<1>3. /\ InHeaders(l, p)' <=> InHeaders(l, p)
      /\ InSection(l, p)' <=> InSection(l, p)
      /\ \A s : SectionPages(l, s)' = SectionPages(l, s)
  BY <1>1 DEF InHeaders, InSection, SectionPages
<1>4. access'[p] = IF \E s \in img[l].sections :
                          s.discardable /\ p \in SectionPages(l, s)
                   THEN NotCommitted ELSE access[p]
  BY <1>2 DEF RemoveDiscardable, SetPages
<1>5. SUFFICES Declared(l, p)'
  BY <1>1 DEF PageOfStage
<1>6. ASSUME NEW s \in img[l].sections, p \in SectionPages(l, s),
             access[p] = Win32Access(s.rights)
      PROVE  Declared(l, p)'
  <2>1. \A t \in img[l].sections : p \in SectionPages(l, t) => t = s
    <3>1. ASSUME NEW t \in img[l].sections, p \in SectionPages(l, t), t # s
          PROVE  FALSE
      <4>1. base[l] \in Int /\ p \in Int
        BY <1>1, <1>2, OwnedPages, PageNumbers DEF MemoryStages
      <4>2. s.va \in Nat /\ s.size \in Nat /\ t.va \in Nat /\ t.size \in Nat
        BY ImageParts DEF TypeOK
      <4>3. p - base[l] \in Span(s.va, s.size) \cap Span(t.va, t.size)
        BY <1>6, <3>1, <4>1, <4>2 DEF SectionPages, Span
      <4>4. QED
        BY <3>1, <4>3, LayoutAssumption DEF TypeOK
    <3>2. QED
      BY <3>1
  <2>2. access'[p] = IF s.discardable THEN NotCommitted
                     ELSE {r \in s.rights : "read" \in s.rights}
    <3>1. CASE s.discardable
      BY <1>4, <1>6, <3>1
    <3>2. CASE ~ s.discardable
      <4>1. access'[p] = Win32Access(s.rights)
        BY <1>4, <1>6, <2>1, <3>2
      <4>2. QED
        BY <3>2, <4>1 DEF Win32Access
    <3>3. QED
      BY <3>1, <3>2
  <2>3. s \in img'[l].sections /\ p \in SectionPages(l, s)'
    BY <1>1, <1>3, <1>6
  <2>4. QED
    BY <2>2, <2>3 DEF Declared
<1>7. CASE ~ InSection(l, p) /\ OnlyHeaders(l, p)
  <2>1. access'[p] = access[p]
    BY <1>4, <1>7 DEF InSection
  <2>2. QED
    BY <1>3, <1>7, <2>1 DEF Declared, OnlyHeaders
<1>8. QED
  BY <1>1, <1>6, <1>7 DEF PagesOfStage, PageOfStage

\* Memory is reserved from free pages, none of which is committed.
LEMMA AllocatePages ==
    ASSUME TypeOK, FreePagesUncommitted, NEW l \in Loads, NEW mem \in Page,
           Allocate(l, mem), NEW p \in Extent(l)'
    PROVE  PageOfStage(l, p)'
<1>1. pc'[l] = "headers" /\ base'[l] = mem /\ UNCHANGED <<img, access>>
  BY DEF Allocate, Goto, TypeOK
<1>2. p \in Span(mem, img[l].size)
  BY <1>1 DEF Extent
<1>3. p \in Page /\ region[p] = Null
  BY <1>2 DEF Allocate, CanReserve
<1>4. access'[p] = NotCommitted
  BY <1>1, <1>3 DEF FreePagesUncommitted
<1>5. QED
  BY <1>1, <1>4 DEF PageOfStage, DeclaredStages, Registered

\* The owner's block does nothing when it owns nothing.
LEMMA ReturnKeepsMemory ==
    ASSUME TypeOK, Ownership, NEW l \in Loads, Return(l)
    PROVE  UNCHANGED <<img, base, blocks, region, access, fault>>
<1>1. blocks[l] = {"module"}
  BY DEF Return, At, Ownership, BlocksOfStage
<1>2. blocks[l] \ {"local"} = blocks[l] /\ "local" \notin blocks[l]
  BY <1>1
<1>3. [blocks EXCEPT ![l] = @ \ {"local"}] = blocks
  BY <1>2 DEF TypeOK
<1>4. QED
  BY <1>2, <1>3 DEF Return, Dispose

\* What an own step of a load makes of its pages.
LEMMA OwnMovePages ==
    ASSUME TypeOK, Ownership, PagesOfStage, FreePagesUncommitted,
           NEW l \in Loads, OwnMove(l), NEW p \in Extent(l)'
    PROVE  PageOfStage(l, p)'
<1> USE DEF TypeOK, At, Goto, moduleVars, memVars
<1>1. ASSUME UNCHANGED <<img, base, access>>,
             \/ pc[l] = "relocations" /\ pc'[l] = "imports"
             \/ pc[l] \in DeclaredStages /\ pc'[l] \in DeclaredStages
      PROVE  PageOfStage(l, p)'
  <2>1. p \in Extent(l)
    BY <1>1 DEF Extent
  <2>2. PageOfStage(l, p)
    BY <2>1 DEF PagesOfStage
  <2>3. QED
    BY <1>1, <2>2, PageKept
<1>2. ASSUME UNCHANGED <<img, base>>
      PROVE  p \in Extent(l)
  BY <1>2 DEF Extent
<1>3. ASSUME NEW mem \in Page, Allocate(l, mem)
      PROVE  PageOfStage(l, p)'
  BY <1>3, AllocatePages
<1>4. CASE CopyHeaders(l)
  BY <1>2, <1>4, CopyHeadersPages DEF CopyHeaders
<1>5. CASE MapSections(l)
  BY <1>2, <1>5, MapSectionsPages DEF MapSections
<1>6. CASE ApplyPermissions(l)
  BY <1>2, <1>6, ApplyPermissionsPages DEF ApplyPermissions
<1>7. CASE RemoveDiscardable(l)
  BY <1>2, <1>7, RemoveDiscardablePages DEF RemoveDiscardable
<1>8. CASE Relocate(l)
  BY <1>1, <1>8 DEF Relocate
<1>9. CASE RegisterTable(l) \/ Attach(l) \/ AttachIndirect(l)
  BY <1>1, <1>9 DEF RegisterTable, Attach, AttachIndirect, DeclaredStages, Registered
<1>10. CASE MakeShared(l) \/ HandOver(l)
  BY <1>1, <1>10 DEF MakeShared, HandOver, DeclaredStages, Registered
<1>11. CASE Return(l)
  <2>1. UNCHANGED <<img, base, access>>
    BY <1>11, ReturnKeepsMemory
  <2>2. pc[l] = "return" /\ pc'[l] = "loaded"
    BY <1>11 DEF Return
  <2>3. QED
    BY <1>1, <2>1, <2>2 DEF DeclaredStages, Registered
<1>12. CASE \/ Detach(l) \/ Deregister(l)
            \/ CacheGone(l) /\ pc'[l] = "unmap"
  BY <1>1, <1>12 DEF Detach, Deregister, CacheGone, DeclaredStages, Registered
<1>13. CASE pc'[l] \in {"allocate", "unwind", "uncache", "unmake",
                        "release again", "idle"}
  BY <1>13 DEF PageOfStage, DeclaredStages, Registered
<1>14. CASE \/ LoadModule(l) \/ Throw(l) \/ MakeSharedThrows(l)
            \/ ConstructorThrows(l) \/ Unwind(l)
  BY <1>13, <1>14 DEF LoadModule, Throw, MakeSharedThrows, ConstructorThrows,
                      Unwind
<1>15. CASE Unmap(l)
  BY <1>13, <1>15 DEF Unmap
<1>16. CASE CacheGone(l)
  BY <1>12, <1>13, <1>16 DEF CacheGone
<1> HIDE DEF TypeOK, At, Goto, moduleVars, memVars
<1>17. QED
  BY <1>3, <1>4, <1>5, <1>6, <1>7, <1>8, <1>9, <1>10, <1>11, <1>12, <1>14,
     <1>15, <1>16 DEF OwnMove

\* A destructor leaves no committed page without an owner.
LEMMA DisposeFreesPages ==
    ASSUME TypeOK, FreePagesUncommitted, NEW l \in Loads, NEW b, Dispose(l, b)
    PROVE  FreePagesUncommitted'
  BY DEF Dispose, Release, Uncommit, FreePagesUncommitted, TypeOK

LEMMA FreePagesStayUncommitted ==
    ASSUME TypeOK, Ownership, FreePagesUncommitted, Next
    PROVE  FreePagesUncommitted'
<1>1. PICK l \in Loads : LoadStep(l) \/ UnloadStep(l) \/ ClientStep(l)
  BY DEF Next, Step
<1>2. ASSUME UNCHANGED <<region, access>>
      PROVE  FreePagesUncommitted'
  BY <1>2 DEF FreePagesUncommitted
<1>3. ASSUME NEW mem \in Page, Allocate(l, mem)
      PROVE  FreePagesUncommitted'
  <2>1. mem # Null
    BY PageNumbers
  <2>2. QED
    BY <1>3, <2>1 DEF Allocate, Reserve, FreePagesUncommitted
<1>4. ASSUME \/ CopyHeaders(l) \/ MapSections(l)
             \/ ApplyPermissions(l) \/ RemoveDiscardable(l)
      PROVE  FreePagesUncommitted'
  <2>1. /\ blocks[l] # {}
        /\ \A p \in Page : region[p] # base[l] =>
              region'[p] = region[p] /\ access'[p] = access[p]
    BY <1>4, ProtectionStepsIsolated
  <2>2. UNCHANGED region
    BY <1>4 DEF CopyHeaders, MapSections, ApplyPermissions, RemoveDiscardable
  <2>3. base[l] # Null
    BY <2>1, OwnersBase, PageNumbers DEF Ownership
  <2>4. QED
    BY <2>1, <2>2, <2>3 DEF FreePagesUncommitted
<1>5. ASSUME Return(l) \/ Unwind(l) \/ Unmap(l)
      PROVE  FreePagesUncommitted'
  BY <1>5, DisposeFreesPages DEF Return, Unwind, Unmap
<1>6. ASSUME Relocate(l) \/ RegisterTable(l) \/ Attach(l) \/ AttachAsserts(l)
             \/ AttachFaults(l) \/ AttachIndirect(l)
      PROVE  UNCHANGED <<region, access>>
  BY <1>6 DEF Relocate, RegisterTable, Attach, AttachAsserts, AttachFaults,
              AttachIndirect, memVars
<1>7. ASSUME ConstructorThrows(l) \/ ReleaseAgain(l)
      PROVE  FreePagesUncommitted'
  <2>1. \/ UNCHANGED <<region, access>>
        \/ /\ region' = Release(region, base[l])
           /\ access' = Uncommit(region, access, base[l])
    BY <1>7 DEF ConstructorThrows, ReleaseAgain
  <2>2. QED
    BY <1>2, <2>1 DEF FreePagesUncommitted, Release, Uncommit
<1>8. ASSUME MakeShared(l) \/ HandOver(l) \/ Throw(l) \/ MakeSharedThrows(l)
      PROVE  UNCHANGED <<region, access>>
  BY <1>8 DEF MakeShared, HandOver, Throw, MakeSharedThrows, memVars
<1>9. ASSUME NEW n, NEW m, ResolveImport(l, n, m) \/ FindForwarded(l, n, m)
                           \/ DropEntry(l, n)
      PROVE  UNCHANGED <<region, access>>
  BY <1>9 DEF ResolveImport, FindForwarded, DropEntry, memVars
<1>10. ASSUME LoadModule(l) \/ ClientDrop(l) \/ Detach(l) \/ Deregister(l)
             \/ CacheGone(l)
      PROVE  UNCHANGED <<region, access>>
  BY <1>10 DEF LoadModule, ClientDrop, Detach, Deregister, CacheGone, memVars
<1>11. CASE LoadStep(l)
  BY <1>2, <1>3, <1>4, <1>5, <1>6, <1>7, <1>8, <1>9, <1>11 DEF LoadStep
<1>12. CASE UnloadStep(l)
  BY <1>2, <1>5, <1>9, <1>10, <1>12 DEF UnloadStep
<1>13. CASE ClientStep(l)
  BY <1>2, <1>9, <1>10, <1>13 DEF ClientStep
<1>14. QED
  BY <1>1, <1>11, <1>12, <1>13

\* The pages of a load that does not move are those it had.
LEMMA StayingPages ==
    ASSUME TypeOK, Ownership, PagesOfStage, Next, EachLeavesOthersAlone,
           NEW l \in Loads, pc'[l] = pc[l], NEW p \in Extent(l)'
    PROVE  PageOfStage(l, p)'
<1>1. UNCHANGED img /\ base'[l] = base[l]
  BY StayingLoad
<1>2. p \in Extent(l)
  BY <1>1 DEF Extent
<1>3. PageOfStage(l, p)
  BY <1>2 DEF PagesOfStage
<1>4. CASE pc[l] \in MemoryStages
  <2>1. blocks[l] # {} /\ p \in Page /\ region[p] = base[l]
    BY <1>2, <1>4, OwnedPages
  <2>2. access'[p] = access[p]
    BY <2>1 DEF EachLeavesOthersAlone, LeavesOthersAlone
  <2>3. QED
    BY <1>1, <1>3, <2>2, PageKept
<1>5. CASE pc[l] \notin MemoryStages
  BY <1>5 DEF PageOfStage, MemoryStages
<1>6. QED
  BY <1>4, <1>5

\* From the registration of its exception table until its memory is released,
\* every page of a module has the protection its sections declare, whatever
\* other loads do in between.
THEOREM PagesCorrect == Spec => []PagesAsDeclared
<1> DEFINE Pages == PagesOfStage /\ FreePagesUncommitted
<1>1. Init => Pages
  <2> SUFFICES ASSUME Init PROVE Pages
    OBVIOUS
  <2>1. FreePagesUncommitted
    BY DEF Init, FreePagesUncommitted
  <2>2. ASSUME NEW l \in Loads, NEW p PROVE PageOfStage(l, p)
    BY DEF Init, PageOfStage, DeclaredStages, Registered
  <2>3. QED
    BY <2>1, <2>2 DEF PagesOfStage
<1>2. /\ TypeOK /\ ImportsOutliveImporter /\ BlocksOfStage /\ MemoryOwned
      /\ (Intact => Pages) /\ [Next]_vars
      /\ [Intact' => EachLeavesOthersAlone]_vars
      => (Intact => Pages)'
  <2> SUFFICES ASSUME TypeOK, ImportsOutliveImporter, BlocksOfStage, MemoryOwned,
                      Intact => Pages, [Next]_vars,
                      [Intact' => EachLeavesOthersAlone]_vars, Intact'
               PROVE  Pages'
    OBVIOUS
  <2>1. CASE UNCHANGED vars
    <3> Pages
      BY <2>1 DEF vars, Intact
    <3>1. FreePagesUncommitted'
      BY <2>1 DEF vars, FreePagesUncommitted
    <3>2. ASSUME NEW l \in Loads, NEW p \in Extent(l)' PROVE PageOfStage(l, p)'
      <4>1. UNCHANGED <<pc, img, base, access>>
        BY <2>1 DEF vars
      <4>2. p \in Extent(l)
        BY <4>1 DEF Extent
      <4>3. QED
        BY <4>1, <4>2, PageKept DEF PagesOfStage
    <3>3. QED
      BY <3>1, <3>2 DEF PagesOfStage
  <2>2. CASE vars' # vars
    <3>1. Next /\ EachLeavesOthersAlone
      BY <2>2
    <3> Ownership /\ Pages
      BY <3>1, OwnersInStep, NoStepAfterFault DEF Intact
    <3>2. FreePagesUncommitted'
      BY <3>1, FreePagesStayUncommitted
    <3>3. ASSUME NEW l \in Loads, NEW p \in Extent(l)' PROVE PageOfStage(l, p)'
      <4>1. CASE pc'[l] = pc[l]
        BY <3>1, <3>3, <4>1, StayingPages
      <4>2. CASE pc'[l] # pc[l] /\ OwnMove(l)
        BY <3>3, <4>2, OwnMovePages
      <4>3. CASE Retired(l)
        <5>1. /\ UNCHANGED <<img, base, access>>
              /\ pc[l] \in DeclaredStages /\ pc'[l] \in DeclaredStages
          BY <4>3 DEF Retired, DeclaredStages, Registered
        <5>2. p \in Extent(l)
          BY <3>3, <5>1 DEF Extent
        <5>3. QED
          BY <5>1, <5>2, PageKept DEF PagesOfStage
      <4>4. QED
        BY <3>1, <4>1, <4>2, <4>3, MovesOfLoad
    <3>4. QED
      BY <3>2, <3>3 DEF PagesOfStage
  <2>3. QED
    BY <2>1, <2>2
<1>3. (Intact => Pages) => PagesAsDeclared
  <2> SUFFICES ASSUME Pages, NEW l \in Loads, pc[l] \in DeclaredStages,
                      NEW p \in Extent(l)
               PROVE  Declared(l, p)
    BY DEF PagesAsDeclared, DeclaredStages, Declared, InSection, OnlyHeaders,
           InHeaders
  <2>1. QED
    BY DEF PagesOfStage, PageOfStage
<1> HIDE DEF Pages
<1>4. QED
  BY <1>1, <1>2, <1>3, TypeCorrect, ReferencesCorrect, OwnershipCorrect,
     IsolationCorrect, PTL DEF Spec, Isolation

-----------------------------------------------------------------------------
(* The entry point of a module that was told it is attached.                 *)

\* The stages at which DllMain has been called and will be called again.
Callable == {"make_shared", "handover", "return", "loaded", "detach"}

EntryStays ==
    \A l \in Loads : Direct /\ pc[l] \in Callable => Executable(EntryPage(l))

\* Who has been told, and not been told otherwise.
AttachedStages ==
    \A l \in Loads :
        dll[l] = "attached" => Direct /\ pc[l] \in Callable

\* What an image imports is in the cache of its module, from the moment its
\* protections are applied until DllMain has been called for the last time.
ImportsHeld ==
    \A l \in Loads :
        pc[l] \in Callable \cup {"discard", "register", "attach"} =>
            \A n \in img[l].imports : cache[l][n] # Absent

\* Entry point and exception table are in the memory of their own module.
LEMMA EntryAndTableInside ==
    ASSUME TypeOK, Ownership, NEW l \in Loads, pc[l] \in MemoryStages
    PROVE  /\ EntryPage(l) \in Extent(l) /\ TablePage(l) \in Extent(l)
           /\ Extent(l) \subseteq Page
<1>1. base[l] \in Int /\ Extent(l) \subseteq Page
  BY OwnedPages, PageNumbers
<1>2. img[l] \in Images
  BY DEF TypeOK
<1>3. /\ img[l].entry \in Nat /\ img[l].entry < img[l].size
      /\ img[l].pdata \in Nat /\ img[l].pdata < img[l].size
      /\ img[l].size \in Nat
  BY <1>2, ImagesAssumption, LayoutAssumption DEF Image
<1>4. QED
  BY <1>1, <1>3 DEF EntryPage, TablePage, Extent, Span

LEMMA EntryKept ==
    ASSUME NEW l \in Loads, UNCHANGED <<img, access>>, base'[l] = base[l],
           Executable(EntryPage(l))
    PROVE  Executable(EntryPage(l))'
  BY DEF Executable, EntryPage

LEMMA EntryStaysInStep ==
    ASSUME TypeOK, ImportsOutliveImporter, Ownership, EntryStays, Next,
           EachLeavesOthersAlone
    PROVE  EntryStays'
<1> SUFFICES ASSUME NEW l \in Loads, Direct, pc'[l] \in Callable
             PROVE  Executable(EntryPage(l))'
  BY DEF EntryStays
<1> USE DEF Callable
<1>1. CASE pc'[l] = pc[l]
  <2>1. Executable(EntryPage(l)) /\ pc[l] \in MemoryStages
    BY <1>1 DEF EntryStays, MemoryStages, DeclaredStages, Registered
  <2>2. EntryPage(l) \in Page /\ region[EntryPage(l)] = base[l] /\ blocks[l] # {}
    BY <2>1, EntryAndTableInside, OwnedPages
  <2>3. access'[EntryPage(l)] = access[EntryPage(l)]
    BY <1>1, <2>2 DEF EachLeavesOthersAlone, LeavesOthersAlone
  <2>4. EntryPage(l)' = EntryPage(l)
    BY <1>1, StayingLoad DEF EntryPage
  <2>5. QED
    BY <2>1, <2>3, <2>4 DEF Executable
<1>2. CASE Retired(l)
  BY <1>2, EntryKept DEF Retired, EntryStays
<1>3. CASE pc'[l] # pc[l] /\ OwnMove(l)
  <2> USE DEF TypeOK, At, Goto, moduleVars, memVars
  <2>1. CASE LoadModule(l) \/ \E mem \in Page : Allocate(l, mem)
    BY <2>1 DEF LoadModule, Allocate
  <2>2. CASE CopyHeaders(l) \/ MapSections(l) \/ Relocate(l)
    BY <2>2 DEF CopyHeaders, MapSections, Relocate
  <2>3. CASE ApplyPermissions(l) \/ RemoveDiscardable(l) \/ RegisterTable(l)
    BY <2>3 DEF ApplyPermissions, RemoveDiscardable, RegisterTable
  <2>4. CASE Attach(l) \/ AttachIndirect(l)
    BY <2>4, EntryKept DEF Attach, AttachIndirect
  <2>5. CASE MakeShared(l) \/ HandOver(l)
    BY <2>5, EntryKept DEF MakeShared, HandOver, EntryStays
  <2>6. CASE Return(l)
    BY <2>6, EntryKept, ReturnKeepsMemory DEF Return, EntryStays
  <2>7. CASE Throw(l) \/ MakeSharedThrows(l) \/ ConstructorThrows(l) \/ Unwind(l)
    BY <2>7 DEF Throw, MakeSharedThrows, ConstructorThrows, Unwind
  <2>8. CASE Detach(l) \/ Deregister(l) \/ CacheGone(l) \/ Unmap(l)
    BY <2>8 DEF Detach, Deregister, CacheGone, Unmap
  <2>9. QED
    BY <1>3, <2>1, <2>2, <2>3, <2>4, <2>5, <2>6, <2>7, <2>8 DEF OwnMove
<1>4. QED
  BY <1>1, <1>2, <1>3, MovesOfLoad

LEMMA AttachedInStep ==
    ASSUME TypeOK, ImportsOutliveImporter, AttachedStages, Next
    PROVE  AttachedStages'
<1> SUFFICES ASSUME NEW l \in Loads, dll'[l] = "attached"
             PROVE  Direct /\ pc'[l] \in Callable
  BY DEF AttachedStages
<1> USE DEF AttachedStages, Callable
<1>1. CASE pc'[l] = pc[l]
  BY <1>1, StayingLoad
<1>2. CASE Retired(l)
  BY <1>2 DEF Retired
<1>3. CASE pc'[l] # pc[l] /\ OwnMove(l)
  <2> USE DEF TypeOK, At, Goto, moduleVars
  <2>1. CASE LoadModule(l) \/ \E mem \in Page : Allocate(l, mem)
    BY <2>1 DEF LoadModule, Allocate
  <2>2. CASE CopyHeaders(l) \/ MapSections(l) \/ Relocate(l)
    BY <2>2 DEF CopyHeaders, MapSections, Relocate
  <2>3. CASE ApplyPermissions(l) \/ RemoveDiscardable(l) \/ RegisterTable(l)
    BY <2>3 DEF ApplyPermissions, RemoveDiscardable, RegisterTable
  <2>4. CASE Attach(l) \/ AttachIndirect(l)
    BY <2>4 DEF Attach, AttachIndirect
  <2>5. CASE MakeShared(l) \/ HandOver(l) \/ Return(l)
    BY <2>5 DEF MakeShared, HandOver, Return
  <2>6. CASE Throw(l) \/ MakeSharedThrows(l) \/ ConstructorThrows(l) \/ Unwind(l)
    BY <2>6 DEF Throw, MakeSharedThrows, ConstructorThrows, LeavesDll, Unwind
  <2>7. CASE Detach(l) \/ Deregister(l) \/ CacheGone(l) \/ Unmap(l)
    BY <2>7 DEF Detach, Deregister, CacheGone, Unmap
  <2>8. QED
    BY <1>3, <2>1, <2>2, <2>3, <2>4, <2>5, <2>6, <2>7 DEF OwnMove
<1>4. QED
  BY <1>1, <1>2, <1>3, MovesOfLoad

\* No step but those of its own load changes the cache of a module, and before
\* its destructors run it only grows.
LEMMA ImportsHeldInStep ==
    ASSUME TypeOK, ImportsOutliveImporter, ImportsHeld, Next
    PROVE  ImportsHeld'
<1> DEFINE Stages == Callable \cup {"discard", "register", "attach"}
<1>1. PICK k \in Loads : LoadStep(k) \/ UnloadStep(k) \/ ClientStep(k)
  BY DEF Next, Step
<1>2. ASSUME NEW l \in Loads, pc[l] \notin {"uncache", "dropcache", "unmake"},
             NEW n \in Names, cache[l][n] # Absent
      PROVE  cache'[l][n] # Absent
  <2>1. CASE OtherStep(k) \/ Return(k) \/ ClientDrop(k)
    BY <1>2, <2>1, OtherStepsKeepReferences DEF Return, ClientDrop
  <2>2. ASSUME NEW x \in Names, NEW m \in Answers(k) \cup {NoModule},
               ResolveImport(k, x, m) \/ FindForwarded(k, x, m)
        PROVE  cache'[l][n] # Absent
    <3>1. m # Absent
      BY ModulesAssumption DEF Answers
    <3>2. cache' = [cache EXCEPT ![k][x] = m]
      BY <2>2 DEF ResolveImport, FindForwarded
    <3>3. QED
      BY <1>2, <3>1, <3>2 DEF TypeOK
  <2>3. ASSUME NEW x \in Names, DropEntry(k, x)
        PROVE  cache'[l][n] # Absent
    BY <1>2, <2>3 DEF DropEntry, TypeOK
  <2>4. QED
    BY <1>1, <2>1, <2>2, <2>3 DEF LoadStep, UnloadStep, ClientStep, OtherStep
<1>3. ASSUME NEW l \in Loads, pc'[l] \in Stages
      PROVE  \A n \in img[l].imports : n \in Names /\ cache[l][n] # Absent
  <2>1. img[l].imports \subseteq Names
    <3>1. img[l] \in Images
      BY DEF TypeOK
    <3>2. QED
      BY <3>1, ImagesAssumption DEF Image
  <2>2. CASE pc[l] \in Stages
    BY <2>1, <2>2 DEF ImportsHeld
  <2>3. CASE pc[l] \notin Stages
    <3>1. OwnMove(l) /\ pc'[l] # pc[l]
      BY <1>3, <2>3, MovesOfLoad DEF Retired, Callable
    <3>2. ApplyPermissions(l)
      <4> USE DEF TypeOK, At, Goto, Callable
      <4>1. ~ (LoadModule(l) \/ \E mem \in Page : Allocate(l, mem))
        BY <1>3, <2>3 DEF LoadModule, Allocate
      <4>2. ~ (CopyHeaders(l) \/ MapSections(l) \/ Relocate(l))
        BY <1>3, <2>3 DEF CopyHeaders, MapSections, Relocate
      <4>3. ~ (RemoveDiscardable(l) \/ RegisterTable(l))
        BY <1>3, <2>3 DEF RemoveDiscardable, RegisterTable
      <4>4. ~ (Attach(l) \/ AttachIndirect(l) \/ MakeShared(l) \/ HandOver(l))
        BY <1>3, <2>3 DEF Attach, AttachIndirect, MakeShared, HandOver
      <4>5. ~ (Return(l) \/ Throw(l) \/ MakeSharedThrows(l))
        BY <1>3, <2>3 DEF Return, Throw, MakeSharedThrows
      <4>6. ~ (ConstructorThrows(l) \/ Unwind(l))
        BY <1>3, <2>3 DEF ConstructorThrows, Unwind
      <4>7. ~ (Detach(l) \/ Deregister(l) \/ CacheGone(l) \/ Unmap(l))
        BY <1>3, <2>3 DEF Detach, Deregister, CacheGone, Unmap
      <4> HIDE DEF TypeOK, At, Goto, Callable
      <4>8. QED
        BY <3>1, <4>1, <4>2, <4>3, <4>4, <4>5, <4>6, <4>7 DEF OwnMove
    <3>3. QED
      BY <2>1, <3>2 DEF ApplyPermissions
  <2>4. QED
    BY <2>2, <2>3
<1>4. ASSUME NEW l \in Loads, pc'[l] \in Stages,
             pc[l] \in {"uncache", "dropcache", "unmake"}
      PROVE  FALSE
  <2>1. OwnMove(l) /\ pc'[l] # pc[l]
    BY <1>4, MovesOfLoad DEF Retired, Callable
  <2>2. CacheGone(l)
    BY <1>4, <2>1 DEF OwnMove, At, LoadModule, Allocate, CopyHeaders, MapSections,
          Relocate, ApplyPermissions, RemoveDiscardable, RegisterTable, Attach,
          AttachIndirect, MakeShared, HandOver, Return, Throw, MakeSharedThrows,
          ConstructorThrows, Unwind, Detach, Deregister, Unmap
  <2>3. QED
    BY <1>4, <2>2 DEF CacheGone, Goto, TypeOK, Callable
<1>5. UNCHANGED img
  BY StayingLoad
<1>6. QED
  BY <1>2, <1>3, <1>4, <1>5 DEF ImportsHeld

\* DllMain of every module that was told it is attached can be called until it
\* is told otherwise, and finds what the module imported: no step of the module's
\* own load or of any other takes the execute right from its entry point, and
\* none lets go of an import.
THEOREM EntryCorrect == Spec => [](AttachedIsCallable /\ (Intact => EntryStays))
<1> DEFINE Entry == AttachedStages /\ ImportsHeld /\ (Intact => EntryStays)
<1>1. Init => Entry
  BY DEF Init, EntryStays, AttachedStages, ImportsHeld, Callable
<1>2. /\ TypeOK /\ ImportsOutliveImporter /\ BlocksOfStage /\ MemoryOwned
      /\ Entry /\ [Next]_vars /\ [Intact' => EachLeavesOthersAlone]_vars
      => Entry'
  <2> SUFFICES ASSUME TypeOK, ImportsOutliveImporter, BlocksOfStage, MemoryOwned,
                      Entry, [Next]_vars, [Intact' => EachLeavesOthersAlone]_vars
               PROVE  Entry'
    OBVIOUS
  <2>1. CASE UNCHANGED vars
    BY <2>1 DEF vars, EntryStays, AttachedStages, ImportsHeld, Executable,
                EntryPage, Intact
  <2>2. CASE vars' # vars
    <3>1. Next /\ Ownership /\ EntryStays
      BY <2>2, OwnersInStep, NoStepAfterFault DEF Intact
    <3>2. AttachedStages' /\ ImportsHeld'
      BY <3>1, AttachedInStep, ImportsHeldInStep
    <3>3. Intact' => EntryStays'
      BY <2>2, <3>1, EntryStaysInStep
    <3>4. QED
      BY <3>2, <3>3
  <2>3. QED
    BY <2>1, <2>2
<1>3. Entry => AttachedIsCallable /\ (Intact => EntryStays)
  BY DEF EntryStays, AttachedStages, ImportsHeld, AttachedIsCallable, Callable
<1> HIDE DEF Entry
<1>4. QED
  BY <1>1, <1>2, <1>3, TypeCorrect, ReferencesCorrect, OwnershipCorrect,
     IsolationCorrect, PTL DEF Spec, Isolation

-----------------------------------------------------------------------------
(* The exception tables.  Since each is in the memory of its own module, at  *)
(* most one module counts at any page.                                       *)

InTable(l) == HasTable(l) /\ pc[l] \in Registered

RegisteredAt(p) == {l \in Loads : InTable(l) /\ TablePage(l) = p}

\* Nobody else has a table where a module of which memory is left has its own.
LEMMA OneTable ==
    ASSUME TypeOK, Ownership, NEW l \in Loads, pc[l] \in MemoryStages
    PROVE  TablePage(l) \in Page /\ RegisteredAt(TablePage(l)) \subseteq {l}
<1>1. TablePage(l) \in Extent(l) /\ Extent(l) \subseteq Page /\ blocks[l] # {}
  BY EntryAndTableInside, OwnedPages
<1>2. ASSUME NEW k \in RegisteredAt(TablePage(l)), k # l
      PROVE  FALSE
  <2>1. k \in Loads /\ pc[k] \in MemoryStages /\ TablePage(k) = TablePage(l)
    BY DEF RegisteredAt, InTable, MemoryStages, DeclaredStages
  <2>2. TablePage(l) \in Extent(k) /\ blocks[k] # {}
    BY <2>1, EntryAndTableInside, OwnedPages
  <2>3. QED
    BY <1>1, <1>2, <2>1, <2>2 DEF Ownership, Owned
<1>3. QED
  BY <1>1, <1>2

\* The step of load k by which it enters or leaves the tables.
TableMove(k) ==
    RegisterTable(k) \/ MakeSharedThrows(k) \/ ConstructorThrows(k) \/ Deregister(k)

\* No other step changes what the tables hold.
LEMMA OtherTableSteps ==
    ASSUME TypeOK, ImportsOutliveImporter, Ownership, Next,
           \A k \in Loads : ~ TableMove(k)
    PROVE  /\ UNCHANGED <<tables, lost>>
           /\ \A p : RegisteredAt(p)' = RegisteredAt(p)
<1>1. UNCHANGED <<tables, lost>>
  <2>1. PICK l \in Loads : LoadStep(l) \/ UnloadStep(l) \/ ClientStep(l)
    BY DEF Next, Step
  <2>2. CASE LoadStep(l)
    BY <2>2 DEF LoadStep, TableMove, Allocate, CopyHeaders, MapSections, Relocate,
                ResolveImport, ApplyPermissions, RemoveDiscardable, Attach,
                AttachAsserts, AttachFaults, AttachIndirect, MakeShared,
                HandOver, Return, Throw, Unwind, ReleaseAgain
  <2>3. CASE UnloadStep(l)
    BY <2>3 DEF UnloadStep, TableMove, Detach, DropEntry, CacheGone, Unmap
  <2>4. CASE ClientStep(l)
    BY <2>4 DEF ClientStep, LoadModule, FindForwarded, ClientDrop
  <2>5. QED
    BY <2>1, <2>2, <2>3, <2>4
<1>2. ASSUME NEW k \in Loads
      PROVE  /\ InTable(k)' <=> InTable(k)
             /\ InTable(k) => TablePage(k)' = TablePage(k)
  <2>1. UNCHANGED img
    BY StayingLoad
  <2>2. HasTable(k)' <=> HasTable(k)
    BY <2>1 DEF HasTable
  <2>3. ASSUME /\ pc[k] \in Registered <=> pc'[k] \in Registered
               /\ pc[k] \in Registered => base'[k] = base[k]
        PROVE  /\ InTable(k)' <=> InTable(k)
               /\ InTable(k) => TablePage(k)' = TablePage(k)
    BY <2>1, <2>2, <2>3 DEF InTable, TablePage
  <2>4. CASE pc'[k] = pc[k]
    BY <2>3, <2>4, StayingLoad
  <2>5. CASE Retired(k)
    BY <2>3, <2>5 DEF Retired, Registered
  <2>6. CASE pc'[k] # pc[k] /\ OwnMove(k)
    <3> USE DEF TypeOK, At, Goto, moduleVars
    <3>1. CASE LoadModule(k) \/ \E mem \in Page : Allocate(k, mem)
      BY <2>3, <3>1 DEF LoadModule, Allocate, Registered
    <3>2. CASE CopyHeaders(k) \/ MapSections(k) \/ Relocate(k)
      BY <2>3, <3>2 DEF CopyHeaders, MapSections, Relocate, Registered
    <3>3. CASE ApplyPermissions(k) \/ RemoveDiscardable(k)
      BY <2>3, <3>3 DEF ApplyPermissions, RemoveDiscardable, Registered
    <3>4. CASE Attach(k) \/ AttachIndirect(k) \/ MakeShared(k) \/ HandOver(k)
      BY <2>3, <3>4 DEF Attach, AttachIndirect, MakeShared, HandOver, Registered
    <3>5. CASE Return(k)
      BY <2>3, <3>5, ReturnKeepsMemory DEF Return, Registered
    <3>6. CASE Throw(k)
      BY <2>3, <3>6 DEF Throw, Registered
    <3>7. CASE Unwind(k)
      BY <2>3, <3>7 DEF Unwind, Registered
    <3>8. CASE Detach(k) \/ CacheGone(k)
      BY <2>3, <3>8 DEF Detach, CacheGone, Registered
    <3>9. CASE Unmap(k)
      BY <2>3, <3>9 DEF Unmap, Registered
    <3> HIDE DEF TypeOK, At, Goto, moduleVars
    <3>10. ~ TableMove(k)
      OBVIOUS
    <3>11. QED
      BY <2>6, <3>1, <3>2, <3>3, <3>4, <3>5, <3>6, <3>7, <3>8, <3>9, <3>10
         DEF OwnMove, TableMove
  <2>7. QED
    BY <2>4, <2>5, <2>6, MovesOfLoad
<1>3. QED
  BY <1>1, <1>2 DEF RegisteredAt

\* A step of one load that leaves its memory where it is changes what the
\* tables hold at its own table's page only.
LEMMA TableOfMover ==
    ASSUME TypeOK, NEW l \in Loads, UNCHANGED <<img, base>>,
           \A k \in Loads : k # l => pc'[k] = pc[k], NEW p
    PROVE  RegisteredAt(p)' =
              IF HasTable(l) /\ TablePage(l) = p
              THEN IF pc'[l] \in Registered THEN RegisteredAt(p) \cup {l}
                   ELSE RegisteredAt(p) \ {l}
              ELSE RegisteredAt(p)
<1>1. ASSUME NEW k \in Loads
      PROVE  (HasTable(k)' <=> HasTable(k)) /\ TablePage(k)' = TablePage(k)
  BY DEF HasTable, TablePage
<1>2. \A k \in Loads : k # l => (InTable(k)' <=> InTable(k))
  BY <1>1 DEF InTable
<1>3. InTable(l)' <=> HasTable(l) /\ pc'[l] \in Registered
  BY <1>1 DEF InTable
<1>4. InTable(l) => HasTable(l)
  BY DEF InTable
<1>5. QED
  BY <1>1, <1>2, <1>3, <1>4 DEF RegisteredAt

LEMMA RegisterKeepsTables ==
    ASSUME TypeOK, Ownership, TablesBacked, NEW l \in Loads, RegisterTable(l)
    PROVE  TablesBacked'
<1>1. /\ pc[l] = "register" /\ pc'[l] = "attach" /\ UNCHANGED <<img, base, lost>>
      /\ \A k \in Loads : k # l => pc'[k] = pc[k]
  BY DEF RegisterTable, At, Goto, TypeOK, moduleVars
<1>2. RegisteredAt(TablePage(l)) = {}
  <2>1. l \notin RegisteredAt(TablePage(l))
    BY <1>1 DEF RegisteredAt, InTable, Registered
  <2>2. QED
    BY <1>1, <2>1, OneTable DEF MemoryStages, DeclaredStages
<1>3. ASSUME NEW p \in Page
      PROVE  tables'[p] = lost'[p] + Cardinality(RegisteredAt(p)')
  <2>1. tables[p] = lost[p] + Cardinality(RegisteredAt(p))
    BY DEF TablesBacked, RegisteredAt, InTable
  <2>2. tables[p] \in Nat /\ lost[p] \in Nat
    BY DEF TypeOK
  <2>3. CASE HasTable(l) /\ TablePage(l) = p
    <3>1. RegisteredAt(p)' = RegisteredAt(p) \cup {l}
      BY <1>1, <2>3, TableOfMover DEF Registered
    <3>2. RegisteredAt(p) = {} /\ RegisteredAt(p)' = {l}
      BY <1>2, <2>3, <3>1
    <3>3. Cardinality(RegisteredAt(p)') = 1 /\ Cardinality(RegisteredAt(p)) = 0
      BY <3>2, FS_EmptySet, FS_Singleton
    <3>4. tables'[p] = tables[p] + 1
      BY <2>3 DEF RegisterTable, TypeOK
    <3>5. QED
      BY <1>1, <2>1, <2>2, <3>3, <3>4
  <2>4. CASE ~ (HasTable(l) /\ TablePage(l) = p)
    <3>1. RegisteredAt(p)' = RegisteredAt(p)
      BY <1>1, <2>4, TableOfMover
    <3>2. tables'[p] = tables[p]
      BY <2>4 DEF RegisterTable, TypeOK
    <3>3. QED
      BY <1>1, <2>1, <3>1, <3>2
  <2>5. QED
    BY <2>3, <2>4
<1>4. QED
  BY <1>3 DEF TablesBacked, RegisteredAt, InTable

\* A load that is in the tables, is in them once.
LEMMA LeaverCounts ==
    ASSUME TypeOK, Ownership, TablesBacked, NEW l \in Loads, InTable(l)
    PROVE  /\ TablePage(l) \in Page /\ RegisteredAt(TablePage(l)) = {l}
           /\ tables[TablePage(l)] = lost[TablePage(l)] + 1
<1>1. TablePage(l) \in Page /\ RegisteredAt(TablePage(l)) \subseteq {l}
  BY OneTable DEF InTable, MemoryStages, DeclaredStages
<1>2. RegisteredAt(TablePage(l)) = {l}
  BY <1>1 DEF RegisteredAt
<1>3. Cardinality(RegisteredAt(TablePage(l))) = 1
  BY <1>2, FS_Singleton
<1>4. tables[TablePage(l)]
          = lost[TablePage(l)] + Cardinality(RegisteredAt(TablePage(l)))
  BY <1>1 DEF TablesBacked, RegisteredAt, InTable
<1>5. QED
  BY <1>1, <1>2, <1>3, <1>4

LEMMA LeavingKeepsTables ==
    ASSUME TypeOK, Ownership, TablesBacked, NEW l \in Loads,
           MakeSharedThrows(l) \/ ConstructorThrows(l) \/ Deregister(l)
    PROVE  TablesBacked'
<1>1. /\ pc[l] \in Registered /\ pc'[l] \notin Registered
      /\ UNCHANGED <<img, base>>
      /\ \A k \in Loads : k # l => pc'[k] = pc[k]
  BY DEF MakeSharedThrows, ConstructorThrows, Deregister, At, Goto, TypeOK,
         moduleVars, Registered
<1>2. ASSUME NEW p \in Page
      PROVE  tables'[p] = lost'[p] + Cardinality(RegisteredAt(p)')
  <2>1. tables[p] = lost[p] + Cardinality(RegisteredAt(p))
    BY DEF TablesBacked, RegisteredAt, InTable
  <2>2. tables[p] \in Nat /\ lost[p] \in Nat
    BY DEF TypeOK
  <2>3. CASE HasTable(l) /\ TablePage(l) = p
    <3>1. RegisteredAt(p) = {l} /\ tables[p] = lost[p] + 1
      BY <1>1, <2>3, LeaverCounts DEF InTable
    <3>2. RegisteredAt(p)' = {}
      BY <1>1, <2>3, <3>1, TableOfMover
    <3>3. Cardinality(RegisteredAt(p)') = 0
      BY <3>2, FS_EmptySet
    <3>4. \/ tables'[p] = tables[p] /\ lost'[p] = lost[p] + 1
          \/ tables'[p] = tables[p] - 1 /\ lost'[p] = lost[p]
      <4>1. CASE MakeSharedThrows(l) \/ ConstructorThrows(l)
        BY <2>3, <4>1 DEF MakeSharedThrows, ConstructorThrows, LeavesDll, TypeOK
      <4>2. CASE Deregister(l)
        <5>1. tables[TablePage(l)] > 0
          BY <2>2, <2>3, <3>1
        <5>2. tables' = [tables EXCEPT ![p] = @ - 1] /\ lost' = lost
          BY <2>3, <4>2, <5>1 DEF Deregister
        <5>3. QED
          BY <5>2 DEF TypeOK
      <4>3. QED
        BY <4>1, <4>2
    <3>5. QED
      BY <2>2, <3>1, <3>3, <3>4
  <2>4. CASE ~ (HasTable(l) /\ TablePage(l) = p)
    <3>1. RegisteredAt(p)' = RegisteredAt(p)
      BY <1>1, <2>4, TableOfMover
    <3>2. tables'[p] = tables[p] /\ lost'[p] = lost[p]
      BY <2>4 DEF MakeSharedThrows, ConstructorThrows, LeavesDll, Deregister,
                  TypeOK
    <3>3. QED
      BY <2>1, <3>1, <3>2
  <2>5. QED
    BY <2>3, <2>4
<1>3. QED
  BY <1>2 DEF TablesBacked, RegisteredAt, InTable

\* The exception tables the system knows are those of the modules that are
\* there, once each, and those a failed make_shared left behind: none is
\* removed twice, and none but these is forgotten.
THEOREM TablesCorrect == Spec => []TablesBacked
<1>1. Init => TablesBacked
  <2> SUFFICES ASSUME Init, NEW p \in Page
               PROVE  tables[p] = lost[p] + Cardinality(RegisteredAt(p))
    BY DEF TablesBacked, RegisteredAt, InTable
  <2>1. RegisteredAt(p) = {}
    BY DEF Init, RegisteredAt, InTable, Registered
  <2>2. Cardinality(RegisteredAt(p)) = 0
    BY <2>1, FS_EmptySet
  <2>3. QED
    BY <2>2 DEF Init
<1>2. /\ TypeOK /\ ImportsOutliveImporter /\ BlocksOfStage /\ MemoryOwned
      /\ TablesBacked /\ [Next]_vars
      => TablesBacked'
  <2> SUFFICES ASSUME TypeOK, ImportsOutliveImporter, BlocksOfStage, MemoryOwned,
                      TablesBacked, [Next]_vars
               PROVE  TablesBacked'
    OBVIOUS
  <2>1. CASE UNCHANGED vars
    BY <2>1 DEF vars, TablesBacked, HasTable, TablePage
  <2>2. CASE Next
    <3>1. Ownership
      BY <2>2, OwnersInStep
    <3>2. ASSUME NEW l \in Loads, RegisterTable(l) PROVE TablesBacked'
      BY <3>1, <3>2, RegisterKeepsTables
    <3>3. ASSUME NEW l \in Loads,
                 MakeSharedThrows(l) \/ ConstructorThrows(l) \/ Deregister(l)
          PROVE  TablesBacked'
      BY <3>1, <3>3, LeavingKeepsTables
    <3>4. ASSUME \A l \in Loads : ~ TableMove(l) PROVE TablesBacked'
      BY <2>2, <3>1, <3>4, OtherTableSteps DEF TablesBacked, RegisteredAt, InTable
    <3>5. QED
      BY <3>2, <3>3, <3>4 DEF TableMove
  <2>3. QED
    BY <2>1, <2>2
<1>3. QED
  BY <1>1, <1>2, TypeCorrect, ReferencesCorrect, OwnershipCorrect, PTL
     DEF Spec

-----------------------------------------------------------------------------
(* What ends the process: the call of what is no DllMain, and the image_mem  *)
(* of a load whose constructor threw with two owners.                        *)

\* No other step ends it.
LEMMA FaultsInStep ==
    ASSUME TypeOK, Ownership, EntryStays, TablesBacked, Next,
           NEW l \in Loads, LoadStep(l) \/ UnloadStep(l) \/ ClientStep(l),
           ~ AttachAsserts(l), ~ AttachFaults(l), ~ ReleaseAgain(l)
    PROVE  UNCHANGED fault
<1>1. ASSUME Return(l) \/ Unwind(l) \/ Unmap(l)
      PROVE  UNCHANGED fault
  <2>1. CASE Return(l)
    BY <2>1, ReturnKeepsMemory
  <2>2. CASE Unwind(l)
    <3>1. /\ blocks[l] \in {{}, {"local"}}
          /\ UNCHANGED img /\ Dispose(l, "local")
      BY <2>2 DEF Unwind, At, Ownership, BlocksOfStage
    <3>2. QED
      BY <3>1, DisposeKeepsOwnership DEF Ownership
  <2>3. CASE Unmap(l)
    <3>1. /\ blocks[l] \in {{}, {"module"}}
          /\ UNCHANGED img /\ Dispose(l, "module")
      BY <2>3 DEF Unmap, At, Ownership, BlocksOfStage, Unloading
    <3>2. QED
      BY <3>1, DisposeKeepsOwnership DEF Ownership
  <2>4. QED
    BY <1>1, <2>1, <2>2, <2>3
<1>2. ASSUME Detach(l) PROVE UNCHANGED fault
  BY <1>2 DEF Detach, At, EntryStays, Callable
<1>3. ASSUME Deregister(l) PROVE UNCHANGED fault
  <2>1. CASE HasTable(l)
    <3>1. InTable(l)
      BY <1>3, <2>1 DEF Deregister, At, InTable, Registered
    <3>2. TablePage(l) \in Page /\ tables[TablePage(l)] = lost[TablePage(l)] + 1
      BY <3>1, LeaverCounts
    <3>3. lost[TablePage(l)] \in Nat
      BY <3>2 DEF TypeOK
    <3>4. tables[TablePage(l)] > 0
      BY <3>2, <3>3
    <3>5. QED
      BY <1>3, <3>4 DEF Deregister
  <2>2. QED
    BY <1>3, <2>1 DEF Deregister
<1>4. CASE LoadStep(l)
  BY <1>1, <1>4, ConstructorReleases
                DEF LoadStep, Allocate, CopyHeaders, MapSections, Relocate,
                    ResolveImport, ApplyPermissions, RemoveDiscardable,
                    RegisterTable, Attach, AttachIndirect, MakeShared, HandOver,
                    Throw, MakeSharedThrows
<1>5. CASE UnloadStep(l)
  BY <1>1, <1>2, <1>3, <1>5 DEF UnloadStep, DropEntry, CacheGone
<1>6. CASE ClientStep(l)
  BY <1>6 DEF ClientStep, LoadModule, FindForwarded, ClientDrop
<1>7. QED
  BY <1>4, <1>5, <1>6

\* No destructor of a module throws, no exception table is unknown when it is
\* removed, DllMain of a loaded module can be called, and the destructor of a
\* memory block throws, or releases what is not its own, only for an image_mem
\* whose memory the block of a constructor that threw has released: the process
\* is ended there, or where initialize_dll calls what is no DllMain.
THEOREM FaultsCorrect == Spec => []FaultsExplained
<1>1. Init => FaultsExplained
  BY DEF Init, FaultsExplained
<1>2. /\ TypeOK /\ BlocksOfStage /\ MemoryOwned /\ (Intact => EntryStays)
      /\ TablesBacked /\ FaultsExplained /\ [Next]_vars
      => FaultsExplained'
  <2> SUFFICES ASSUME TypeOK, BlocksOfStage, MemoryOwned, Intact => EntryStays,
                      TablesBacked, FaultsExplained, [Next]_vars
               PROVE  FaultsExplained'
    OBVIOUS
  <2>1. CASE UNCHANGED vars
    BY <2>1 DEF vars, FaultsExplained, Executable, EntryPage
  <2>2. CASE Next
    <3>1. Ownership /\ EntryStays /\ fault = "none"
      BY <2>2, OwnersInStep, NoStepAfterFault DEF Intact
    <3>2. PICK l \in Loads : LoadStep(l) \/ UnloadStep(l) \/ ClientStep(l)
      BY <2>2 DEF Next, Step
    <3>3. CASE AttachAsserts(l) \/ AttachFaults(l)
      <4>1. /\ UNCHANGED <<pc, img, base, access>> /\ pc[l] = "attach"
            /\ ~ img[l].dynamic \/ ~ Executable(EntryPage(l))
            /\ fault' \in {"assertion", "access violation"}
        BY <3>3 DEF AttachAsserts, AttachFaults, At, moduleVars, memVars
      <4>2. Executable(EntryPage(l))' <=> Executable(EntryPage(l))
        BY <4>1 DEF Executable, EntryPage
      <4>3. QED
        BY <4>1, <4>2 DEF FaultsExplained
    <3>4. CASE ReleaseAgain(l)
      BY <3>4 DEF ReleaseAgain, At, FaultsExplained
    <3>5. CASE ~ AttachAsserts(l) /\ ~ AttachFaults(l) /\ ~ ReleaseAgain(l)
      BY <2>2, <3>1, <3>2, <3>5, FaultsInStep DEF FaultsExplained
    <3>6. QED
      BY <3>3, <3>4, <3>5
  <2>3. QED
    BY <2>1, <2>2
<1>3. QED
  BY <1>1, <1>2, TypeCorrect, OwnershipCorrect, EntryCorrect, TablesCorrect, PTL
     DEF Spec

-----------------------------------------------------------------------------
(***************************************************************************)
(* The loader implements ModuleLifecycle: under the mapping at the end of  *)
(* PELoader, its initial states are initial states of ModuleLifecycle, and *)
(* every one of its steps, up to the release of another load's memory, is  *)
(* a step of ModuleLifecycle or changes nothing there.                     *)
(***************************************************************************)

(***************************************************************************)
(* The mapping                                                             *)
(***************************************************************************)

PhaseOf(stage) == CASE stage = "idle" -> "absent"
                    [] stage \in Loading -> "loading"
                    [] stage = "loaded" -> "ready"
                    [] stage \in Unloading -> "retiring"

LEMMA PhasesOfStages ==
    /\ PhaseOf("idle") = "absent" /\ PhaseOf("loaded") = "ready"
    /\ \A stage \in Loading : PhaseOf(stage) = "loading"
    /\ \A stage \in Unloading : PhaseOf(stage) = "retiring"
  BY DEF PhaseOf, Loading, Unloading

LEMMA PhaseMapped == LifecyclePhase = [l \in Loads |-> PhaseOf(pc[l])]
  BY DEF LifecyclePhase, PhaseOf

\* The page belongs to whom the mapping says.
SpaceMapped ==
    \A p \in Page :
        /\ LifecycleSpace[p] \in Loads \cup {NoModule}
        /\ LifecycleSpace[p] = NoModule <=> region[p] = Null
        /\ \A l \in Loads :
              LifecycleSpace[p] = l <=> blocks[l] # {} /\ region[p] = base[l]

LEMMA OwnersMapped == TypeOK /\ Owned => SpaceMapped
<1> SUFFICES ASSUME TypeOK, Owned, NEW p \in Page
             PROVE  /\ LifecycleSpace[p] \in Loads \cup {NoModule}
                    /\ LifecycleSpace[p] = NoModule <=> region[p] = Null
                    /\ \A l \in Loads : LifecycleSpace[p] = l
                           <=> blocks[l] # {} /\ region[p] = base[l]
  BY DEF SpaceMapped
<1>1. NoModule \notin Loads
  BY ModulesAssumption
<1>2. CASE OwnersOf(region[p]) = {}
  <2>1. LifecycleSpace[p] = NoModule
    BY <1>2 DEF LifecycleSpace
  <2>2. \A l \in Loads : ~ (blocks[l] # {} /\ base[l] = region[p])
    BY <1>2 DEF OwnersOf
  <2>3. region[p] = Null
    BY <2>2 DEF Owned
  <2>4. QED
    BY <1>1, <2>1, <2>2, <2>3
<1>3. ASSUME NEW l \in OwnersOf(region[p])
      PROVE  /\ LifecycleSpace[p] = l /\ region[p] # Null
             /\ \A k \in Loads :
                   k # l => ~ (blocks[k] # {} /\ region[p] = base[k])
  <2>1. l \in Loads /\ blocks[l] # {} /\ base[l] = region[p]
    BY DEF OwnersOf
  <2>2. \A k \in Loads : blocks[k] # {} /\ base[k] = region[p] => k = l
    BY <2>1, OwnersDiffer
  <2>3. OwnersOf(region[p]) = {l}
    BY <2>1, <2>2 DEF OwnersOf
  <2>4. LifecycleSpace[p] = l
    BY <2>3 DEF LifecycleSpace
  <2>5. region[p] # Null
    BY <2>1, OwnersBase, PageNumbers
  <2>6. QED
    BY <2>2, <2>4, <2>5
<1>4. ASSUME NEW l \in OwnersOf(region[p])
      PROVE  l \in Loads /\ blocks[l] # {} /\ region[p] = base[l]
  BY DEF OwnersOf
<1>5. QED
  BY <1>1, <1>2, <1>3, <1>4

\* The mapped owners depend on bases, reservations and on who owns anything.
LEMMA SpaceKept ==
    ASSUME UNCHANGED <<base, region>>,
           \A k \in Loads : blocks'[k] = {} <=> blocks[k] = {}
    PROVE  UNCHANGED LifecycleSpace
<1> DEFINE Owner(owners) == IF owners = {} THEN NoModule
                            ELSE CHOOSE l \in Loads : l \in owners
<1>1. \A p \in Page : OwnersOf(region[p])' = OwnersOf(region[p])
  BY DEF OwnersOf
<1>2. /\ LifecycleSpace = [p \in Page |-> Owner(OwnersOf(region[p]))]
      /\ LifecycleSpace' = [p \in Page |-> Owner(OwnersOf(region[p])')]
  BY DEF LifecycleSpace
<1> HIDE DEF Owner
<1>3. QED
  BY <1>1, <1>2

LEMMA PhasesKept ==
    ASSUME \A k \in Loads : PhaseOf(pc'[k]) = PhaseOf(pc[k])
    PROVE  UNCHANGED LifecyclePhase
<1>1. LifecyclePhase' = [k \in Loads |-> PhaseOf(pc'[k])]
  BY DEF LifecyclePhase, PhaseOf
<1>2. QED
  BY <1>1, PhaseMapped

LEMMA UsesKept ==
    ASSUME UNCHANGED cache
    PROVE  UNCHANGED LifecycleUses
  BY DEF LifecycleUses

\* A load that moves takes its phase along.
LEMMA PhaseMoved ==
    ASSUME TypeOK, NEW l \in Loads, NEW stage, Goto(l, stage)
    PROVE  LifecyclePhase' = [LifecyclePhase EXCEPT ![l] = PhaseOf(stage)]
<1>1. \A k \in Loads : pc'[k] = IF k = l THEN stage ELSE pc[k]
  BY DEF Goto, TypeOK
<1>2. LifecyclePhase' = [k \in Loads |-> PhaseOf(pc'[k])]
  BY DEF LifecyclePhase, PhaseOf
<1>3. QED
  BY <1>1, <1>2, PhaseMapped

-----------------------------------------------------------------------------
(* Every step, by what it is in ModuleLifecycle.                             *)

\* A load that goes from one stage of a phase to another, and leaves memory and
\* references alone, does nothing there.
LEMMA SamePhase ==
    ASSUME TypeOK, NEW l \in Loads, NEW stage, Goto(l, stage),
           PhaseOf(stage) = PhaseOf(pc[l])
    PROVE  UNCHANGED LifecyclePhase
<1>1. \A k \in Loads : pc'[k] = IF k = l THEN stage ELSE pc[k]
  BY DEF Goto, TypeOK
<1>2. QED
  BY <1>1, PhasesKept

LEMMA LoadingSteps ==
    ASSUME TypeOK, Ownership, NEW l \in Loads,
           \/ CopyHeaders(l) \/ MapSections(l) \/ Relocate(l)
           \/ ApplyPermissions(l) \/ RemoveDiscardable(l) \/ RegisterTable(l)
           \/ Attach(l) \/ AttachAsserts(l) \/ AttachFaults(l)
           \/ AttachIndirect(l) \/ MakeShared(l) \/ HandOver(l)
           \/ Throw(l) \/ MakeSharedThrows(l)
    PROVE  UNCHANGED Lifecycle!lifecycleVars
<1>1. /\ UNCHANGED <<base, region, cache>>
      /\ UNCHANGED pc \/ \E stage \in Loading : pc[l] \in Loading /\ Goto(l, stage)
  <2> USE DEF At, moduleVars, memVars, Loading
  <2>1. CASE CopyHeaders(l) \/ MapSections(l) \/ Relocate(l)
    BY <2>1 DEF CopyHeaders, MapSections, Relocate
  <2>2. CASE ApplyPermissions(l) \/ RemoveDiscardable(l) \/ RegisterTable(l)
    BY <2>2 DEF ApplyPermissions, RemoveDiscardable, RegisterTable
  <2>3. CASE Attach(l) \/ AttachAsserts(l) \/ AttachFaults(l) \/ AttachIndirect(l)
    BY <2>3 DEF Attach, AttachAsserts, AttachFaults, AttachIndirect
  <2>4. CASE MakeShared(l) \/ HandOver(l) \/ Throw(l) \/ MakeSharedThrows(l)
    BY <2>4 DEF MakeShared, HandOver, Throw, MakeSharedThrows
  <2>5. QED
    BY <2>1, <2>2, <2>3, <2>4
<1>2. \A k \in Loads : blocks'[k] = {} <=> blocks[k] = {}
  <2>1. CASE MakeShared(l) \/ HandOver(l)
    <3>1. \A k \in Loads : k # l => blocks'[k] = blocks[k]
      BY <2>1 DEF MakeShared, HandOver, TypeOK
    <3>2. \/ blocks[l] = {"local"} /\ blocks'[l] = blocks[l] \cup {"module"}
          \/ blocks[l] = {"local", "module"} /\ blocks'[l] = blocks[l] \ {"local"}
      BY <2>1 DEF MakeShared, HandOver, At, TypeOK, Ownership, BlocksOfStage
    <3>3. blocks[l] # {} /\ blocks'[l] # {}
      BY <3>2
    <3>4. QED
      BY <3>1, <3>3
  <2>2. CASE ~ (MakeShared(l) \/ HandOver(l))
    BY <2>2 DEF CopyHeaders, MapSections, Relocate, ApplyPermissions,
                RemoveDiscardable, RegisterTable, Attach, AttachAsserts,
                AttachFaults, AttachIndirect, Throw, MakeSharedThrows, moduleVars
  <2>3. QED
    BY <2>1, <2>2
<1>3. UNCHANGED LifecyclePhase
  <2>1. CASE UNCHANGED pc
    BY <2>1, PhasesKept
  <2>2. CASE \E stage \in Loading : pc[l] \in Loading /\ Goto(l, stage)
    BY <2>2, SamePhase, PhasesOfStages
  <2>3. QED
    BY <1>1, <2>1, <2>2
<1>4. QED
  BY <1>1, <1>2, <1>3, SpaceKept, UsesKept DEF Lifecycle!lifecycleVars

LEMMA BeginSteps ==
    ASSUME TypeOK, NEW l \in Loads, LoadModule(l)
    PROVE  Lifecycle!Begin(l)
<1>1. /\ pc[l] = "idle" /\ Goto(l, "allocate")
      /\ UNCHANGED <<base, region, blocks, cache>>
  BY DEF LoadModule, At, moduleVars, memVars
<1>2. LifecyclePhase[l] = "absent"
  BY <1>1, PhaseMapped, PhasesOfStages
<1>3. LifecyclePhase' = [LifecyclePhase EXCEPT ![l] = "loading"]
  <2>1. PhaseOf("allocate") = "loading"
    BY PhasesOfStages DEF Loading
  <2>2. QED
    BY <1>1, <2>1, PhaseMoved
<1>4. QED
  BY <1>1, <1>2, <1>3, SpaceKept, UsesKept DEF Lifecycle!Begin

LEMMA ClaimSteps ==
    ASSUME TypeOK, Ownership, SpaceMapped, SpaceMapped',
           NEW l \in Loads, NEW mem \in Page, Allocate(l, mem)
    PROVE  Lifecycle!Claim(l)
<1> DEFINE pages == Span(mem, img[l].size)
<1>1. /\ pc[l] = "allocate" /\ Goto(l, "headers") /\ UNCHANGED <<img, cache>>
      /\ blocks[l] = {}
      /\ \A k \in Loads : base'[k] = IF k = l THEN mem ELSE base[k]
      /\ \A k \in Loads : blocks'[k] = IF k = l THEN {"local"} ELSE blocks[k]
      /\ \A p \in Page : region'[p] = IF p \in pages THEN mem ELSE region[p]
  BY DEF Allocate, At, Reserve, TypeOK, Ownership, BlocksOfStage
<1>2. pages \subseteq Page /\ mem \in pages /\ \A p \in pages : region[p] = Null
  <2>1. img[l].size \in Nat \ {0} /\ mem \in Int
    BY ImageParts, PageNumbers DEF TypeOK
  <2>2. QED
    BY <2>1 DEF Allocate, CanReserve, Span
<1> HIDE DEF pages
<1>3. LifecyclePhase[l] = "loading" /\ UNCHANGED LifecyclePhase
  <2>1. LifecyclePhase[l] = "loading"
    BY <1>1, PhaseMapped, PhasesOfStages DEF Loading
  <2>2. PhaseOf("headers") = PhaseOf(pc[l])
    BY <1>1, PhasesOfStages DEF Loading
  <2>3. QED
    BY <1>1, <2>1, <2>2, SamePhase
<1>4. Lifecycle!PagesOf(l) = {}
  BY <1>1 DEF Lifecycle!PagesOf, SpaceMapped
<1>5. pages \in (SUBSET Lifecycle!PagesOf(NoModule)) \ {{}}
  BY <1>2 DEF Lifecycle!PagesOf, SpaceMapped
<1>6. LifecycleSpace' = [p \in Page |-> IF p \in pages THEN l ELSE LifecycleSpace[p]]
  <2>1. ASSUME NEW p \in Page, p \in pages PROVE LifecycleSpace'[p] = l
    BY <1>1, <2>1 DEF SpaceMapped
  <2>2. ASSUME NEW p \in Page, p \notin pages
        PROVE  LifecycleSpace'[p] = LifecycleSpace[p]
    <3>1. region'[p] = region[p]
      BY <1>1, <2>2
    <3>2. CASE region[p] = Null
      BY <3>1, <3>2 DEF SpaceMapped
    <3>3. CASE region[p] # Null
      <4>1. PICK k \in Loads : LifecycleSpace[p] = k
        BY <3>3 DEF SpaceMapped
      <4>2. blocks[k] # {} /\ region[p] = base[k] /\ k # l
        BY <1>1, <4>1 DEF SpaceMapped
      <4>3. blocks'[k] # {} /\ region'[p] = base'[k]
        BY <1>1, <3>1, <4>2
      <4>4. QED
        BY <4>1, <4>3 DEF SpaceMapped
    <3>4. QED
      BY <3>2, <3>3
  <2>3. LifecycleSpace' = [p \in Page |-> LifecycleSpace'[p]]
    BY DEF LifecycleSpace
  <2>4. QED
    BY <2>1, <2>2, <2>3
<1>7. QED
  BY <1>1, <1>3, <1>4, <1>5, <1>6, UsesKept DEF Lifecycle!Claim

\* An entry for a module that load_module returned is a use of it; one for a
\* module of the system, or for none, is nothing.
LEMMA UseSteps ==
    ASSUME TypeOK, NEW l \in Loads, NEW n \in Names,
           NEW m \in Answers(l) \cup {NoModule},
           ResolveImport(l, n, m) \/ FindForwarded(l, n, m)
    PROVE  \/ m \in Loads /\ Lifecycle!Use(l, m)
           \/ UNCHANGED Lifecycle!lifecycleVars
<1>1. /\ pc[l] \in {"imports", "loaded"}
      /\ cache[l][n] = Absent /\ cache' = [cache EXCEPT ![l][n] = m]
      /\ UNCHANGED <<pc, base, region, blocks>>
  BY DEF ResolveImport, FindForwarded, At, moduleVars, memVars
<1>2. Absent \notin Loads /\ NoModule \notin Loads /\ System \notin Loads
  BY ModulesAssumption
<1>3. \A k \in Loads, x \in Names :
          cache'[k][x] = IF k = l /\ x = n THEN m ELSE cache[k][x]
  BY <1>1 DEF TypeOK
<1>4. UNCHANGED <<LifecyclePhase, LifecycleSpace>>
  BY <1>1, PhasesKept, SpaceKept
<1>5. CASE m \in Loads
  <2>1. pc[m] = "loaded"
    BY <1>2, <1>5 DEF Answers
  <2>2. LifecyclePhase[l] \in {"loading", "ready"} /\ LifecyclePhase[m] = "ready"
    BY <1>1, <1>5, <2>1, PhaseMapped, PhasesOfStages DEF Loading
  <2>3. LifecycleUses' = LifecycleUses \cup {<<l, m>>}
    <3>1. ASSUME NEW k \in Loads, NEW j \in Loads
          PROVE  (\E x \in Names : cache'[k][x] = j)
                     <=> (\E x \in Names : cache[k][x] = j) \/ <<k, j>> = <<l, m>>
      BY <1>1, <1>2, <1>3
    <3>2. QED
      BY <1>5, <3>1 DEF LifecycleUses
  <2>4. QED
    BY <1>4, <1>5, <2>2, <2>3 DEF Lifecycle!Use
<1>6. CASE m \notin Loads
  <2>1. ASSUME NEW k \in Loads, NEW j \in Loads
        PROVE  (\E x \in Names : cache'[k][x] = j)
                   <=> (\E x \in Names : cache[k][x] = j)
    BY <1>1, <1>2, <1>3, <1>6
  <2>2. UNCHANGED LifecycleUses
    BY <2>1 DEF LifecycleUses
  <2>3. QED
    BY <1>4, <2>2 DEF Lifecycle!lifecycleVars
<1>7. QED
  BY <1>5, <1>6

LEMMA PublishSteps ==
    ASSUME TypeOK, Ownership, SpaceMapped, NEW l \in Loads, Return(l)
    PROVE  Lifecycle!Publish(l)
<1>1. /\ pc[l] = "return" /\ Goto(l, "loaded") /\ UNCHANGED cache
      /\ blocks[l] = {"module"}
  BY DEF Return, At, Ownership, BlocksOfStage
<1>2. UNCHANGED <<base, region, blocks>>
  <2>1. blocks[l] \ {"local"} = blocks[l] /\ "local" \notin blocks[l]
    BY <1>1
  <2>2. [blocks EXCEPT ![l] = @ \ {"local"}] = blocks
    BY <2>1 DEF TypeOK
  <2>3. QED
    BY <2>1, <2>2 DEF Return, Dispose
<1>3. LifecyclePhase[l] = "loading"
  BY <1>1, PhaseMapped, PhasesOfStages DEF Loading
<1>4. LifecyclePhase' = [LifecyclePhase EXCEPT ![l] = "ready"]
  BY <1>1, PhaseMoved, PhasesOfStages
<1>5. Lifecycle!PagesOf(l) # {}
  <2>1. base[l] \in Page /\ region[base[l]] = base[l]
    BY <1>1, OwnersBase DEF Ownership
  <2>2. LifecycleSpace[base[l]] = l
    BY <1>1, <2>1 DEF SpaceMapped
  <2>3. QED
    BY <2>1, <2>2 DEF Lifecycle!PagesOf
<1>6. QED
  BY <1>1, <1>2, <1>3, <1>4, <1>5, SpaceKept, UsesKept DEF Lifecycle!Publish

\* A module is used when a cache holds it.
LEMMA UsedMapped ==
    ASSUME NEW m \in Loads
    PROVE  Lifecycle!Used(m, LifecycleUses)
               <=> \E k \in Loads, n \in Names : cache[k][n] = m
  BY DEF Lifecycle!Used, LifecycleUses

LEMMA RetireSteps ==
    ASSUME TypeOK, NEW l \in Loads, ClientDrop(l)
    PROVE  Lifecycle!Retire(l) \/ UNCHANGED Lifecycle!lifecycleVars
<1>1. pc[l] = "loaded" /\ UNCHANGED <<base, region, blocks, cache>>
  BY DEF ClientDrop, At, memVars
<1>2. CASE UNCHANGED pc
  BY <1>1, <1>2, PhasesKept, SpaceKept, UsesKept DEF Lifecycle!lifecycleVars
<1>3. CASE ~ Referenced(l, held', cache) /\ Goto(l, "detach")
  <2>1. LifecyclePhase[l] = "ready"
    BY <1>1, PhaseMapped, PhasesOfStages
  <2>2. LifecyclePhase' = [LifecyclePhase EXCEPT ![l] = "retiring"]
    BY <1>3, PhaseMoved, PhasesOfStages DEF Unloading
  <2>3. ~ Lifecycle!Used(l, LifecycleUses)
    BY <1>3, UsedMapped DEF Referenced
  <2>4. QED
    BY <1>1, <2>1, <2>2, <2>3, SpaceKept, UsesKept DEF Lifecycle!Retire
<1>4. QED
  BY <1>2, <1>3 DEF ClientDrop

\* What releases the memory of a load gives its pages back, and no others.
LEMMA ReleasedSpace ==
    ASSUME TypeOK, Ownership, SpaceMapped, SpaceMapped', NEW l \in Loads,
           blocks[l] # {}, region' = Release(region, base[l]),
           \A k \in Loads : k # l => blocks'[k] = blocks[k] /\ base'[k] = base[k]
    PROVE  LifecycleSpace' = [p \in Page |-> IF LifecycleSpace[p] = l THEN NoModule
                                            ELSE LifecycleSpace[p]]
<1>1. base[l] # Null
  BY OwnersBase, PageNumbers DEF Ownership
<1>2. \A p \in Page : region'[p] = IF region[p] = base[l] THEN Null ELSE region[p]
  BY DEF Release
<1>3. ASSUME NEW p \in Page, LifecycleSpace[p] = l
      PROVE  LifecycleSpace'[p] = NoModule
  <2>1. region[p] = base[l]
    BY <1>3 DEF SpaceMapped
  <2>2. QED
    BY <1>2, <2>1 DEF SpaceMapped
<1>4. ASSUME NEW p \in Page, LifecycleSpace[p] # l
      PROVE  LifecycleSpace'[p] = LifecycleSpace[p]
  <2>1. region'[p] = region[p]
    BY <1>2, <1>4 DEF SpaceMapped
  <2>2. CASE region[p] = Null
    BY <2>1, <2>2 DEF SpaceMapped
  <2>3. CASE region[p] # Null
    <3>1. PICK k \in Loads : LifecycleSpace[p] = k
      BY <2>3 DEF SpaceMapped
    <3>2. blocks[k] # {} /\ region[p] = base[k] /\ k # l
      BY <1>4, <3>1 DEF SpaceMapped
    <3>3. blocks'[k] # {} /\ region'[p] = base'[k]
      BY <1>2, <2>1, <3>2
    <3>4. QED
      BY <3>1, <3>3 DEF SpaceMapped
  <2>4. QED
    BY <2>2, <2>3
<1>5. LifecycleSpace' = [p \in Page |-> LifecycleSpace'[p]]
  BY DEF LifecycleSpace
<1>6. QED
  BY <1>3, <1>4, <1>5

\* So does the last block of a load.
LEMMA DisposedSpace ==
    ASSUME TypeOK, Ownership, SpaceMapped, SpaceMapped', NEW l \in Loads, NEW b,
           blocks[l] = {b}, Dispose(l, b)
    PROVE  LifecycleSpace' = [p \in Page |-> IF LifecycleSpace[p] = l THEN NoModule
                                            ELSE LifecycleSpace[p]]
<1>1. CanRelease(region, base[l])
  BY OwnersBase DEF CanRelease, Ownership
<1>2. /\ region' = Release(region, base[l])
      /\ \A k \in Loads : k # l => blocks'[k] = blocks[k] /\ base'[k] = base[k]
  BY <1>1 DEF Dispose, TypeOK
<1>3. QED
  BY <1>2, ReleasedSpace

\* And so does the constructor that throws.
LEMMA UnmakeSteps ==
    ASSUME TypeOK, Ownership, SpaceMapped, SpaceMapped', NEW l \in Loads,
           ConstructorThrows(l)
    PROVE  Lifecycle!Abandon(l)
<1>1. /\ pc[l] = "make_shared" /\ Goto(l, "unmake") /\ UNCHANGED <<base, cache>>
      /\ blocks[l] # {} /\ region' = Release(region, base[l])
      /\ \A k \in Loads : k # l => blocks'[k] = blocks[k]
  BY ConstructorReleases DEF ConstructorThrows, At
<1>2. LifecyclePhase[l] = "loading" /\ UNCHANGED LifecyclePhase
  <2>1. LifecyclePhase[l] = "loading"
    BY <1>1, PhaseMapped, PhasesOfStages DEF Loading
  <2>2. PhaseOf("unmake") = PhaseOf(pc[l])
    BY <1>1, PhasesOfStages DEF Loading
  <2>3. QED
    BY <1>1, <2>1, <2>2, SamePhase
<1>3. Lifecycle!PagesOf(l) # {}
  <2>1. base[l] \in Page /\ region[base[l]] = base[l]
    BY <1>1, OwnersBase DEF Ownership
  <2>2. QED
    BY <1>1, <2>1 DEF SpaceMapped, Lifecycle!PagesOf
<1>4. LifecycleSpace' = [p \in Page |-> IF LifecycleSpace[p] = l THEN NoModule
                                       ELSE LifecycleSpace[p]]
  BY <1>1, ReleasedSpace
<1>5. QED
  BY <1>1, <1>2, <1>3, <1>4, UsesKept DEF Lifecycle!Abandon

LEMMA AbandonSteps ==
    ASSUME TypeOK, Ownership, SpaceMapped, SpaceMapped', NEW l \in Loads, Unwind(l)
    PROVE  Lifecycle!Abandon(l) \/ UNCHANGED Lifecycle!lifecycleVars
<1>1. /\ pc[l] = "unwind" /\ Goto(l, "uncache") /\ UNCHANGED <<img, cache>>
      /\ blocks[l] \in {{}, {"local"}} /\ Dispose(l, "local")
  BY DEF Unwind, At, Ownership, BlocksOfStage
<1>2. LifecyclePhase[l] = "loading" /\ UNCHANGED LifecyclePhase
  <2>1. LifecyclePhase[l] = "loading"
    BY <1>1, PhaseMapped, PhasesOfStages DEF Loading
  <2>2. PhaseOf("uncache") = PhaseOf(pc[l])
    BY <1>1, PhasesOfStages DEF Loading
  <2>3. QED
    BY <1>1, <2>1, <2>2, SamePhase
<1>3. CASE blocks[l] = {}
  <2>1. UNCHANGED <<base, region>>
    BY <1>1, <1>3 DEF Dispose
  <2>2. \A k \in Loads : blocks'[k] = {} <=> blocks[k] = {}
    BY <1>1, <1>3 DEF Dispose, TypeOK
  <2>3. QED
    BY <1>1, <1>2, <2>1, <2>2, SpaceKept, UsesKept DEF Lifecycle!lifecycleVars
<1>4. CASE blocks[l] = {"local"}
  <2>1. base[l] \in Page /\ region[base[l]] = base[l]
    BY <1>4, OwnersBase DEF Ownership
  <2>2. Lifecycle!PagesOf(l) # {}
    BY <1>4, <2>1 DEF SpaceMapped, Lifecycle!PagesOf
  <2>3. LifecycleSpace' = [p \in Page |-> IF LifecycleSpace[p] = l THEN NoModule
                                         ELSE LifecycleSpace[p]]
    BY <1>1, <1>4, DisposedSpace
  <2>4. QED
    BY <1>1, <1>2, <2>2, <2>3, UsesKept DEF Lifecycle!Abandon
<1>5. QED
  BY <1>1, <1>3, <1>4

\* What CacheGone makes sure of, unmapping still finds.
UnmapEmpty ==
    \A l \in Loads : pc[l] = "unmap" => \A n \in Names : cache[l][n] = Absent

LEMMA VacateSteps ==
    ASSUME TypeOK, Ownership, SpaceMapped, SpaceMapped', UnmapEmpty,
           NEW l \in Loads, Unmap(l)
    PROVE  Lifecycle!Vacate(l)
<1>1. /\ pc[l] = "unmap" /\ Goto(l, "idle") /\ UNCHANGED <<img, cache>>
      /\ blocks[l] = {"module"} /\ Dispose(l, "module")
  BY DEF Unmap, At, Ownership, BlocksOfStage, Unloading
<1>2. LifecyclePhase[l] = "retiring"
  BY <1>1, PhaseMapped, PhasesOfStages DEF Unloading
<1>3. LifecyclePhase' = [LifecyclePhase EXCEPT ![l] = "absent"]
  BY <1>1, PhaseMoved, PhasesOfStages
<1>4. ~ \E m \in Loads : <<l, m>> \in LifecycleUses
  BY <1>1, ModulesAssumption DEF UnmapEmpty, LifecycleUses
<1>5. LifecycleSpace' = [p \in Page |-> IF LifecycleSpace[p] = l THEN NoModule
                                       ELSE LifecycleSpace[p]]
  BY <1>1, DisposedSpace
<1>6. QED
  BY <1>1, <1>2, <1>3, <1>4, <1>5, UsesKept DEF Lifecycle!Vacate

LEMMA EndSteps ==
    ASSUME TypeOK, Ownership, SpaceMapped, NEW l \in Loads, CacheGone(l)
    PROVE  Lifecycle!End(l) \/ UNCHANGED Lifecycle!lifecycleVars
<1>1. /\ UNCHANGED <<base, region, blocks, cache>>
      /\ \A n \in Names : cache[l][n] = Absent
      /\ \/ pc[l] = "uncache" /\ Goto(l, "idle")
         \/ pc[l] = "unmake" /\ Goto(l, "release again")
         \/ pc[l] = "dropcache" /\ Goto(l, "unmap")
  BY DEF CacheGone, moduleVars, memVars
<1>2. CASE pc[l] = "uncache" /\ Goto(l, "idle")
  <2>1. LifecyclePhase[l] = "loading"
    BY <1>2, PhaseMapped, PhasesOfStages DEF Loading
  <2>2. LifecyclePhase' = [LifecyclePhase EXCEPT ![l] = "absent"]
    BY <1>2, PhaseMoved, PhasesOfStages
  <2>3. blocks[l] = {}
    BY <1>2 DEF Ownership, BlocksOfStage
  <2>4. Lifecycle!PagesOf(l) = {}
    BY <2>3 DEF Lifecycle!PagesOf, SpaceMapped
  <2>5. ~ \E m \in Loads : <<l, m>> \in LifecycleUses
    BY <1>1, ModulesAssumption DEF LifecycleUses
  <2>6. QED
    BY <1>1, <2>1, <2>2, <2>4, <2>5, SpaceKept, UsesKept DEF Lifecycle!End
<1>3. CASE pc[l] = "dropcache" /\ Goto(l, "unmap")
  BY <1>1, <1>3, SamePhase, PhasesOfStages, SpaceKept, UsesKept
     DEF Lifecycle!lifecycleVars, Unloading
<1>4. CASE pc[l] = "unmake" /\ Goto(l, "release again")
  BY <1>1, <1>4, SamePhase, PhasesOfStages, SpaceKept, UsesKept
     DEF Lifecycle!lifecycleVars, Loading
<1>5. QED
  BY <1>1, <1>2, <1>3, <1>4

LEMMA UnloadingSteps ==
    ASSUME TypeOK, NEW l \in Loads, Detach(l) \/ Deregister(l)
    PROVE  UNCHANGED Lifecycle!lifecycleVars
<1>1. /\ UNCHANGED <<base, region, blocks, cache>> /\ pc[l] \in Unloading
      /\ \E stage \in Unloading : Goto(l, stage)
  BY DEF Detach, Deregister, At, moduleVars, memVars, Unloading
<1>2. QED
  BY <1>1, SamePhase, PhasesOfStages, SpaceKept, UsesKept
     DEF Lifecycle!lifecycleVars

\* Dropping an entry ends a use, unless the module is also in the cache under
\* another name; with the last one the module retires.
LEMMA UnuseSteps ==
    ASSUME TypeOK, ImportsOutliveImporter, NEW l \in Loads, NEW n \in Names,
           DropEntry(l, n)
    PROVE  \/ \E m \in Loads : Lifecycle!Unuse(l, m)
           \/ UNCHANGED Lifecycle!lifecycleVars
<1> DEFINE m == cache[l][n]
<1>1. /\ pc[l] \in {"uncache", "dropcache", "unmake"} /\ m # Absent
      /\ cache' = [cache EXCEPT ![l][n] = Absent]
      /\ UNCHANGED <<base, region, blocks, held>>
      /\ \/ m \in Loads /\ ~ Referenced(m, held, cache') /\ Goto(m, "detach")
         \/ (m \notin Loads \/ Referenced(m, held, cache')) /\ UNCHANGED pc
  BY DEF DropEntry, moduleVars, memVars
<1>2. \A k \in Loads, x \in Names :
          cache'[k][x] = IF k = l /\ x = n THEN Absent ELSE cache[k][x]
  BY <1>1 DEF TypeOK
<1>3. Absent \notin Loads
  BY ModulesAssumption
<1>4. m \in Loads => pc[m] = "loaded"
  BY DEF ImportsOutliveImporter
<1>5. UNCHANGED LifecycleSpace
  BY <1>1, SpaceKept
<1>6. m = cache[l][n]
  OBVIOUS
<1> HIDE DEF m
<1>7. CASE m \notin Loads
  <2>1. ASSUME NEW k \in Loads, NEW j \in Loads
        PROVE  (\E x \in Names : cache'[k][x] = j)
                   <=> (\E x \in Names : cache[k][x] = j)
    BY <1>2, <1>3, <1>6, <1>7
  <2>2. UNCHANGED LifecycleUses
    BY <2>1 DEF LifecycleUses
  <2>3. UNCHANGED LifecyclePhase
    BY <1>1, <1>7, PhasesKept
  <2>4. QED
    BY <1>5, <2>2, <2>3 DEF Lifecycle!lifecycleVars
<1>8. CASE m \in Loads /\ \E x \in Names : x # n /\ cache[l][x] = m
  <2>1. PICK x \in Names : x # n /\ cache[l][x] = m
    BY <1>8
  <2>2. cache'[l][x] = m
    BY <1>2, <2>1
  <2>3. UNCHANGED LifecyclePhase
    BY <1>1, <2>2, PhasesKept DEF Referenced
  <2>4. ASSUME NEW k \in Loads, NEW j \in Loads
        PROVE  (\E y \in Names : cache'[k][y] = j)
                   <=> (\E y \in Names : cache[k][y] = j)
    BY <1>2, <1>3, <1>6, <2>1, <2>2
  <2>5. UNCHANGED LifecycleUses
    BY <2>4 DEF LifecycleUses
  <2>6. QED
    BY <1>5, <2>3, <2>5 DEF Lifecycle!lifecycleVars
<1>9. CASE m \in Loads /\ ~ \E x \in Names : x # n /\ cache[l][x] = m
  <2>1. LifecyclePhase[l] \in {"loading", "retiring"}
    BY <1>1, PhaseMapped, PhasesOfStages DEF Loading, Unloading
  <2>2. <<l, m>> \in LifecycleUses
    BY <1>6, <1>9 DEF LifecycleUses
  <2>3. ASSUME NEW k \in Loads, NEW j \in Loads
        PROVE  (\E x \in Names : cache'[k][x] = j)
                   <=> (\E x \in Names : cache[k][x] = j) /\ <<k, j>> # <<l, m>>
    BY <1>2, <1>3, <1>6, <1>9
  <2>4. LifecycleUses' = LifecycleUses \ {<<l, m>>}
    BY <2>3 DEF LifecycleUses
  <2>5. \/ UNCHANGED LifecyclePhase
        \/ /\ ~ Lifecycle!Used(m, LifecycleUses')
           /\ LifecyclePhase' = [LifecyclePhase EXCEPT ![m] = "retiring"]
    <3>1. CASE UNCHANGED pc
      BY <3>1, PhasesKept
    <3>2. CASE ~ Referenced(m, held, cache') /\ Goto(m, "detach")
      <4>1. LifecyclePhase' = [LifecyclePhase EXCEPT ![m] = "retiring"]
        BY <1>9, <3>2, PhaseMoved, PhasesOfStages DEF Unloading
      <4>2. ~ \E k \in Loads, x \in Names : cache'[k][x] = m
        BY <3>2 DEF Referenced
      <4>3. ~ Lifecycle!Used(m, LifecycleUses')
        BY <1>9, <4>2 DEF Lifecycle!Used, LifecycleUses
      <4>4. QED
        BY <4>1, <4>3
    <3>3. QED
      BY <1>1, <3>1, <3>2
  <2>6. Lifecycle!Unuse(l, m)
    BY <1>5, <2>1, <2>2, <2>4, <2>5 DEF Lifecycle!Unuse
  <2>7. QED
    BY <1>9, <2>6
<1>10. QED
  BY <1>7, <1>8, <1>9

LEMMA UnmapFindsNoEntry == Spec => []UnmapEmpty
<1>1. Init => UnmapEmpty
  BY DEF Init, UnmapEmpty
<1>2. TypeOK /\ ImportsOutliveImporter /\ UnmapEmpty /\ [Next]_vars => UnmapEmpty'
  <2> SUFFICES ASSUME TypeOK, ImportsOutliveImporter, UnmapEmpty, [Next]_vars
               PROVE  UnmapEmpty'
    OBVIOUS
  <2> USE DEF UnmapEmpty
  <2>1. ASSUME NEW l \in Loads, OtherStep(l) PROVE UnmapEmpty'
    <3>1. UNCHANGED cache
      BY <2>1, OtherStepsKeepReferences
    <3>2. \A k \in Loads : pc'[k] = "unmap" =>
              pc[k] = "unmap" \/ \A n \in Names : cache[k][n] = Absent
      <4> USE DEF TypeOK, At, Goto
      <4>1. CASE \/ LoadModule(l) \/ \E mem \in Page : Allocate(l, mem)
                 \/ CopyHeaders(l) \/ MapSections(l) \/ Relocate(l)
        BY <4>1 DEF LoadModule, Allocate, CopyHeaders, MapSections, Relocate
      <4>2. CASE ApplyPermissions(l) \/ RemoveDiscardable(l) \/ RegisterTable(l)
        BY <4>2 DEF ApplyPermissions, RemoveDiscardable, RegisterTable
      <4>3. CASE Attach(l) \/ AttachAsserts(l) \/ AttachFaults(l) \/ AttachIndirect(l)
        BY <4>3 DEF Attach, AttachAsserts, AttachFaults, AttachIndirect
      <4>4. CASE \/ MakeShared(l) \/ HandOver(l) \/ Throw(l) \/ MakeSharedThrows(l)
                 \/ ConstructorThrows(l) \/ ReleaseAgain(l) \/ Unwind(l)
        BY <4>4 DEF MakeShared, HandOver, Throw, MakeSharedThrows,
                    ConstructorThrows, ReleaseAgain, Unwind
      <4>5. CASE Detach(l) \/ Deregister(l) \/ Unmap(l)
        BY <4>5 DEF Detach, Deregister, Unmap
      <4>6. CASE CacheGone(l)
        BY <4>6 DEF CacheGone
      <4> HIDE DEF TypeOK, At, Goto
      <4>7. QED
        BY <2>1, <4>1, <4>2, <4>3, <4>4, <4>5, <4>6 DEF OtherStep
    <3>3. QED
      BY <3>1, <3>2
  <2>2. ASSUME NEW l \in Loads, NEW n \in Names,
               NEW m \in Answers(l) \cup {NoModule},
               ResolveImport(l, n, m) \/ FindForwarded(l, n, m)
        PROVE  UnmapEmpty'
    <3>1. pc[l] # "unmap" /\ UNCHANGED pc /\ cache' = [cache EXCEPT ![l][n] = m]
      BY <2>2 DEF ResolveImport, FindForwarded, At
    <3>2. QED
      BY <3>1 DEF TypeOK
  <2>3. ASSUME NEW l \in Loads, Return(l) PROVE UnmapEmpty'
    BY <2>3 DEF Return, Goto, TypeOK
  <2>4. ASSUME NEW l \in Loads, ClientDrop(l) PROVE UnmapEmpty'
    BY <2>4 DEF ClientDrop, Goto, TypeOK
  <2>5. ASSUME NEW l \in Loads, NEW n \in Names, DropEntry(l, n) PROVE UnmapEmpty'
    <3>1. \A k \in Loads : pc'[k] = "unmap" => pc[k] = "unmap"
      BY <2>5 DEF DropEntry, Goto, TypeOK
    <3>2. \A k \in Loads, x \in Names :
              cache[k][x] = Absent => cache'[k][x] = Absent
      BY <2>5 DEF DropEntry, TypeOK
    <3>3. QED
      BY <3>1, <3>2
  <2>6. CASE UNCHANGED vars
    BY <2>6 DEF vars
  <2>7. QED
    BY <2>1, <2>2, <2>3, <2>4, <2>5, <2>6
       DEF Next, Step, LoadStep, UnloadStep, ClientStep, OtherStep
<1>3. QED
  BY <1>1, <1>2, TypeCorrect, ReferencesCorrect, PTL DEF Spec

\* Every step of the loader is a step of ModuleLifecycle, or none.
LEMMA StepsMapped ==
    ASSUME TypeOK, ImportsOutliveImporter, Ownership, UnmapEmpty,
           SpaceMapped, SpaceMapped', Intact', Next
    PROVE  [Lifecycle!Next]_(Lifecycle!lifecycleVars)
<1>1. ASSUME NEW l \in Loads, LoadModule(l) PROVE Lifecycle!Next
  BY <1>1, BeginSteps DEF Lifecycle!Next
<1>2. ASSUME NEW l \in Loads, NEW mem \in Page, Allocate(l, mem)
      PROVE  Lifecycle!Next
  BY <1>2, ClaimSteps DEF Lifecycle!Next
<1>3. ASSUME NEW l \in Loads, NEW n \in Names,
             NEW m \in Answers(l) \cup {NoModule},
             ResolveImport(l, n, m) \/ FindForwarded(l, n, m)
      PROVE  Lifecycle!Next \/ UNCHANGED Lifecycle!lifecycleVars
  BY <1>3, UseSteps DEF Lifecycle!Next
<1>4. ASSUME NEW l \in Loads, Return(l) PROVE Lifecycle!Next
  BY <1>4, PublishSteps DEF Lifecycle!Next
<1>5. ASSUME NEW l \in Loads, ClientDrop(l)
      PROVE  Lifecycle!Next \/ UNCHANGED Lifecycle!lifecycleVars
  BY <1>5, RetireSteps DEF Lifecycle!Next
<1>6. ASSUME NEW l \in Loads, NEW n \in Names, DropEntry(l, n)
      PROVE  Lifecycle!Next \/ UNCHANGED Lifecycle!lifecycleVars
  BY <1>6, UnuseSteps DEF Lifecycle!Next
<1>7. ASSUME NEW l \in Loads, Unwind(l)
      PROVE  Lifecycle!Next \/ UNCHANGED Lifecycle!lifecycleVars
  BY <1>7, AbandonSteps DEF Lifecycle!Next
<1>8. ASSUME NEW l \in Loads, Unmap(l) PROVE Lifecycle!Next
  BY <1>8, VacateSteps DEF Lifecycle!Next
<1>9. ASSUME NEW l \in Loads, CacheGone(l)
      PROVE  Lifecycle!Next \/ UNCHANGED Lifecycle!lifecycleVars
  BY <1>9, EndSteps DEF Lifecycle!Next
<1>10. ASSUME NEW l \in Loads, Detach(l) \/ Deregister(l)
       PROVE  UNCHANGED Lifecycle!lifecycleVars
  BY <1>10, UnloadingSteps
<1>11. ASSUME NEW l \in Loads, ConstructorThrows(l) PROVE Lifecycle!Next
  BY <1>11, UnmakeSteps DEF Lifecycle!Next
<1>12. ASSUME NEW l \in Loads, ReleaseAgain(l)
       PROVE  UNCHANGED Lifecycle!lifecycleVars
  <2>1. UNCHANGED <<pc, base, region, blocks, cache>>
    BY <1>12 DEF ReleaseAgain, Intact, moduleVars
  <2>2. QED
    BY <2>1, PhasesKept, SpaceKept, UsesKept DEF Lifecycle!lifecycleVars
<1>13. ASSUME NEW l \in Loads, LoadStep(l)
       PROVE  Lifecycle!Next \/ UNCHANGED Lifecycle!lifecycleVars
  BY <1>2, <1>3, <1>4, <1>7, <1>13, <1>11, <1>12, LoadingSteps DEF LoadStep
<1>14. ASSUME NEW l \in Loads, UnloadStep(l) \/ ClientStep(l)
       PROVE  Lifecycle!Next \/ UNCHANGED Lifecycle!lifecycleVars
  BY <1>1, <1>3, <1>5, <1>6, <1>8, <1>9, <1>10, <1>14 DEF UnloadStep, ClientStep
<1>15. QED
  BY <1>13, <1>14 DEF Next, Step

\* The loader keeps every promise of ModuleLifecycle: a module becomes ready with
\* pages of its own, is used only while it is ready, retires when nobody uses
\* it, and leaves nothing, whatever other loads do and whichever fail, until an
\* image_mem that is no owner releases the memory of another load.
THEOREM LifecycleImplemented == Spec => ImplementsLifecycle
<1>1. Init => Lifecycle!Init
  <2> SUFFICES ASSUME Init PROVE Lifecycle!Init
    OBVIOUS
  <2>1. LifecyclePhase = [l \in Loads |-> "absent"]
    BY PhaseMapped, PhasesOfStages DEF Init
  <2>2. LifecycleSpace = [p \in Page |-> NoModule]
    <3>1. \A mem : OwnersOf(mem) = {}
      BY DEF Init, OwnersOf
    <3>2. QED
      BY <3>1 DEF LifecycleSpace
  <2>3. LifecycleUses = {}
    BY ModulesAssumption DEF Init, LifecycleUses
  <2>4. QED
    BY <2>1, <2>2, <2>3 DEF Lifecycle!Init
<1>2. TypeOK /\ MemoryOwned => (Intact => SpaceMapped)
  BY OwnersMapped DEF MemoryOwned
<1>3. /\ TypeOK /\ ImportsOutliveImporter /\ BlocksOfStage /\ MemoryOwned
      /\ UnmapEmpty /\ (Intact => SpaceMapped) /\ (Intact => SpaceMapped)'
      /\ [Next]_vars
      => [Intact' => Lifecycle!Next]_(Lifecycle!lifecycleVars)
  <2> SUFFICES ASSUME TypeOK, ImportsOutliveImporter, BlocksOfStage, MemoryOwned,
                      UnmapEmpty, Intact => SpaceMapped,
                      (Intact => SpaceMapped)', [Next]_vars, Intact'
               PROVE  [Lifecycle!Next]_(Lifecycle!lifecycleVars)
    OBVIOUS
  <2>1. CASE Next
    <3>1. Ownership /\ Intact
      BY <2>1, OwnersInStep, NoStepAfterFault DEF Intact
    <3>2. SpaceMapped /\ SpaceMapped'
      BY <3>1
    <3>3. QED
      BY <2>1, <3>1, <3>2, StepsMapped
  <2>2. CASE UNCHANGED vars
    <3>1. UNCHANGED <<pc, base, region, blocks, cache>>
      BY <2>2 DEF vars
    <3>2. QED
      BY <3>1, PhasesKept, SpaceKept, UsesKept DEF Lifecycle!lifecycleVars
  <2>3. QED
    BY <2>1, <2>2
<1>4. QED
  BY <1>1, <1>2, <1>3, TypeCorrect, ReferencesCorrect, OwnershipCorrect,
     UnmapFindsNoEntry, PTL DEF Spec, ImplementsLifecycle

=============================================================================
