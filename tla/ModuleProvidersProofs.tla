----------------------- MODULE ModuleProvidersProofs -----------------------
(***************************************************************************)
(* Proofs about ModuleProviders: the handles of every module are counted   *)
(* right, a module in use stays loaded, and there is one SystemModule for  *)
(* each name that is not looked up while its module is being loaded.       *)
(***************************************************************************)
EXTENDS ModuleProviders, FiniteSetTheorems, TLAPS

\* The SystemModules under n, and the lookups of n that have a handle.
ModulesOf(n) == {o \in Live : name[o] = n}
LookupsOf(n) == {i \in DOMAIN calls : calls[i].of = n}

\* Only as many SystemModules as were made, and each has a name.
LiveHaveNames ==
    /\ IsFiniteSet(Live)
    /\ \A o \in Live : name[o] \in Names

\* A weak_ptr that is not expired refers to a SystemModule of its name.
EntriesAreLive ==
    \A n \in Names :
        weak[n] # Absent => weak[n] \in Live /\ name[weak[n]] = n

\* Each lookup on the stack but the innermost is in a DllMain, and what is
\* above it was asked for from there.
StackOfAsks ==
    \A i, j \in DOMAIN calls :
        i < j => /\ calls[i].stage = "DllMain"
                 /\ Reaches(calls[i].of, calls[j].of)

\* No entry while a module is being looked up,
NoneYet ==
    \A i \in DOMAIN calls :
        ~ ComesBack(calls[i].of) => weak[calls[i].of] = Absent

\* and then the entry is the one SystemModule.
EntryIsTheOne ==
    \A o \in Live : cached[o] /\ ~ ComesBack(name[o]) => weak[name[o]] = o

\* The inductive invariant.
ProvidersInv ==
    /\ TypeOK /\ HandlesCounted
    /\ LiveHaveNames /\ EntriesAreLive
    /\ StackOfAsks /\ NoneYet /\ EntryIsTheOne

-----------------------------------------------------------------------------
(* What DllMain may come to *)

\* What a DllMain may look up, it reaches.
LEMMA AskedIsReached ==
    ASSUME NEW n \in Names, NEW m \in Names, <<n, m>> \in Asks
    PROVE  Reaches(n, m)
BY DEF Reaches

\* And so it does what the DllMain of something it reaches may look up.
LEMMA AskedFurtherIsReached ==
    ASSUME NEW n \in Names, NEW m \in Names, NEW k \in Names,
           Reaches(n, m), <<m, k>> \in Asks
    PROVE  Reaches(n, k)
BY DEF Reaches

-----------------------------------------------------------------------------
(* Counting *)

\* Lookups are finitely many.
LEMMA LookupsAreFinite ==
    ASSUME NEW n, TypeOK
    PROVE  IsFiniteSet(LookupsOf(n)) /\ Cardinality(LookupsOf(n)) \in Nat
<1>1. DOMAIN calls = 1 .. Len(calls) /\ Len(calls) \in Nat
  BY DEF TypeOK
<1>2. IsFiniteSet(1 .. Len(calls))
  BY <1>1, FS_Interval
<1>3. LookupsOf(n) \subseteq 1 .. Len(calls)
  BY <1>1 DEF LookupsOf
<1> QED BY <1>2, <1>3, FS_Subset, FS_CardinalityType

\* So are the SystemModules under a name.
LEMMA ModulesAreFinite ==
    ASSUME NEW n, LiveHaveNames
    PROVE  IsFiniteSet(ModulesOf(n)) /\ Cardinality(ModulesOf(n)) \in Nat
<1>1. ModulesOf(n) \subseteq Live
  BY DEF ModulesOf
<1> QED BY <1>1, FS_Subset, FS_CardinalityType DEF LiveHaveNames

\* A lookup that starts adds one under its name.
LEMMA PushCounts ==
    ASSUME TypeOK, NEW n \in Names, NEW s \in {"DllMain", "returned"},
           calls' = Append(calls, [of |-> n, stage |-> s]), NEW k \in Names
    PROVE  Cardinality(LookupsOf(k))' =
               Cardinality(LookupsOf(k)) + (IF k = n THEN 1 ELSE 0)
<1> DEFINE L == Len(calls)
<1>1. L \in Nat /\ DOMAIN calls = 1 .. L /\ DOMAIN calls' = 1 .. L + 1
  BY DEF TypeOK
<1>2. calls'[L + 1].of = n /\ \A i \in 1 .. L : calls'[i] = calls[i]
  BY <1>1 DEF TypeOK
<1>3. IsFiniteSet(LookupsOf(k)) /\ Cardinality(LookupsOf(k)) \in Nat
  BY LookupsAreFinite
<1>4. L + 1 \notin LookupsOf(k)
  BY <1>1 DEF LookupsOf
<1>5. CASE k = n
  <2>1. LookupsOf(k)' = LookupsOf(k) \cup {L + 1}
    BY <1>1, <1>2, <1>5 DEF LookupsOf
  <2> QED BY <2>1, <1>3, <1>4, <1>5, FS_AddElement
<1>6. CASE k # n
  <2>1. LookupsOf(k)' = LookupsOf(k)
    BY <1>1, <1>2, <1>6 DEF LookupsOf
  <2> QED BY <2>1, <1>3, <1>6
<1> QED BY <1>5, <1>6

\* One that ends takes one away.
LEMMA PopCounts ==
    ASSUME TypeOK, calls # <<>>, calls' = Pop, NEW k \in Names
    PROVE  Cardinality(LookupsOf(k))' =
               Cardinality(LookupsOf(k)) - (IF k = Top.of THEN 1 ELSE 0)
<1> DEFINE L == Len(calls)
<1>1. /\ L \in Nat /\ L > 0 /\ DOMAIN calls = 1 .. L
      /\ DOMAIN calls' = 1 .. L - 1
  BY DEF TypeOK, Pop
<1>2. \A i \in 1 .. L - 1 : calls'[i] = calls[i]
  BY <1>1 DEF TypeOK, Pop
<1>3. IsFiniteSet(LookupsOf(k)) /\ Cardinality(LookupsOf(k)) \in Nat
  BY LookupsAreFinite
<1>4. CASE k = Top.of
  <2>1. L \in LookupsOf(k)
    BY <1>1, <1>4 DEF LookupsOf, Top
  <2>2. LookupsOf(k)' = LookupsOf(k) \ {L}
    BY <1>1, <1>2, <1>4 DEF LookupsOf, Top
  <2> QED BY <2>1, <2>2, <1>3, <1>4, FS_RemoveElement
<1>5. CASE k # Top.of
  <2>1. LookupsOf(k)' = LookupsOf(k)
    BY <1>1, <1>2, <1>5 DEF LookupsOf, Top
  <2> QED BY <2>1, <1>3, <1>5
<1> QED BY <1>4, <1>5

\* DllMain's return changes the name of none.
LEMMA ReturnCounts ==
    ASSUME TypeOK, DllMainReturns, NEW k \in Names
    PROVE  Cardinality(LookupsOf(k))' = Cardinality(LookupsOf(k))
<1>1. Len(calls) \in Nat /\ DOMAIN calls' = DOMAIN calls
  BY DEF TypeOK, DllMainReturns
<1>2. \A i \in DOMAIN calls : calls'[i].of = calls[i].of
  BY <1>1 DEF TypeOK, DllMainReturns
<1>3. LookupsOf(k)' = LookupsOf(k)
  BY <1>1, <1>2 DEF LookupsOf
<1> QED BY <1>3

\* A new SystemModule adds one under its name.
LEMMA MakeCounts ==
    ASSUME TypeOK, LiveHaveNames, NEW n \in Names, NEW o \in Objects \ Live,
           name' = [name EXCEPT ![o] = n], shared' = [shared EXCEPT ![o] = 1]
    PROVE  /\ Live' = Live \cup {o}
           /\ LiveHaveNames'
           /\ \A k \in Names :
                Cardinality(ModulesOf(k))' =
                    Cardinality(ModulesOf(k)) + (IF k = n THEN 1 ELSE 0)
<1>1. Live' = Live \cup {o}
  BY DEF TypeOK, Live
<1>2. name'[o] = n /\ \A p \in Live : name'[p] = name[p]
  BY DEF TypeOK, Live
<1>3. LiveHaveNames'
  BY <1>1, <1>2, FS_AddElement DEF LiveHaveNames
<1>4. ASSUME NEW k \in Names
      PROVE  Cardinality(ModulesOf(k))' =
                 Cardinality(ModulesOf(k)) + (IF k = n THEN 1 ELSE 0)
  <2>1. IsFiniteSet(ModulesOf(k)) /\ Cardinality(ModulesOf(k)) \in Nat
    BY ModulesAreFinite
  <2>2. CASE k = n
    <3>1. ModulesOf(k)' = ModulesOf(k) \cup {o}
      BY <1>1, <1>2, <2>2 DEF ModulesOf
    <3>2. o \notin ModulesOf(k)
      BY DEF ModulesOf
    <3> QED BY <3>1, <3>2, <2>1, <2>2, FS_AddElement
  <2>3. CASE k # n
    <3>1. ModulesOf(k)' = ModulesOf(k)
      BY <1>1, <1>2, <2>3 DEF ModulesOf
    <3> QED BY <3>1, <2>1, <2>3
  <2> QED BY <2>2, <2>3
<1> QED BY <1>1, <1>3, <1>4

\* The last reference that goes takes one away.
LEMMA LastDropCounts ==
    ASSUME TypeOK, LiveHaveNames, NEW o \in Live, Drop(o), ~ shared[o] > 1
    PROVE  /\ Live' = Live \ {o}
           /\ LiveHaveNames'
           /\ \A k \in Names :
                Cardinality(ModulesOf(k))' =
                    Cardinality(ModulesOf(k)) - (IF k = name[o] THEN 1 ELSE 0)
<1>0. o \in Objects /\ shared[o] = 1
  BY DEF TypeOK, Live
<1>1. Live' = Live \ {o}
  BY <1>0 DEF TypeOK, Live, Drop
<1>2. \A p \in Live' : name'[p] = name[p]
  BY <1>1 DEF TypeOK, Live, Drop
<1>3. LiveHaveNames'
  BY <1>1, <1>2, FS_RemoveElement DEF LiveHaveNames
<1>4. ASSUME NEW k \in Names
      PROVE  Cardinality(ModulesOf(k))' =
                 Cardinality(ModulesOf(k)) - (IF k = name[o] THEN 1 ELSE 0)
  <2>1. IsFiniteSet(ModulesOf(k)) /\ Cardinality(ModulesOf(k)) \in Nat
    BY ModulesAreFinite
  <2>2. CASE k = name[o]
    <3>1. ModulesOf(k)' = ModulesOf(k) \ {o}
      BY <1>1, <1>2, <2>2 DEF ModulesOf
    <3>2. o \in ModulesOf(k)
      BY <2>2 DEF ModulesOf
    <3> QED BY <3>1, <3>2, <2>1, <2>2, FS_RemoveElement
  <2>3. CASE k # name[o]
    <3>1. ModulesOf(k)' = ModulesOf(k)
      BY <1>1, <1>2, <2>3 DEF ModulesOf
    <3> QED BY <3>1, <2>1, <2>3
  <2> QED BY <2>2, <2>3
<1> QED BY <1>1, <1>3, <1>4

\* A count that changes between live and live leaves the sets alone.
LEMMA SharingKeepsModules ==
    ASSUME TypeOK, LiveHaveNames, NEW o \in Live, NEW x \in Nat \ {0},
           shared' = [shared EXCEPT ![o] = x], UNCHANGED name
    PROVE  /\ Live' = Live /\ LiveHaveNames'
           /\ \A k \in Names : ModulesOf(k)' = ModulesOf(k)
<1>1. Live' = Live
  BY DEF TypeOK, Live
<1> QED BY <1>1 DEF LiveHaveNames, ModulesOf

\* What is counted is there, and the module of what is there is loaded.
LEMMA CountedIsLoaded ==
    ASSUME ProvidersInv
    PROVE  HeldIsLoaded
<1> SUFFICES ASSUME NEW o \in Live
             PROVE  handles[name[o]] > 0
  BY DEF HeldIsLoaded
<1> DEFINE n == name[o]
<1>1. n \in Names
  BY DEF ProvidersInv, LiveHaveNames
<1>2. IsFiniteSet(ModulesOf(n)) /\ Cardinality(ModulesOf(n)) \in Nat
  BY ModulesAreFinite DEF ProvidersInv
<1>3. o \in ModulesOf(n)
  BY DEF ModulesOf
<1>4. Cardinality(ModulesOf(n)) # 0
  BY <1>2, <1>3, FS_EmptySet
<1>5. Cardinality(LookupsOf(n)) \in Nat
  BY LookupsAreFinite DEF ProvidersInv
<1>6. handles[n] = Cardinality(ModulesOf(n)) + Cardinality(LookupsOf(n))
                   + others[n] + lost[n]
  BY <1>1 DEF ProvidersInv, HandlesCounted, ModulesOf, LookupsOf
<1>7. others[n] \in Nat /\ lost[n] \in Nat
  <2>1. others[n] \in 0 .. 1 /\ lost[n] \in 0 .. MaxLost
    BY <1>1 DEF ProvidersInv, TypeOK
  <2> QED BY <2>1, ProvidersAssumption
<1> HIDE DEF n
<1>8. handles[n] > 0
  BY <1>2, <1>4, <1>5, <1>6, <1>7
<1> QED BY <1>8 DEF n

-----------------------------------------------------------------------------
(* One step *)

\* What a stack has on it.
Lookups == [of : Names, stage : {"DllMain", "returned"}]

\* A sequence that is not empty has a last element, and the others.
LEMMA LastAndFront ==
    ASSUME NEW S, NEW s \in Seq(S), s # <<>>
    PROVE  /\ Len(s) \in Nat \ {0} /\ DOMAIN s = 1 .. Len(s)
           /\ Len(s) \in DOMAIN s /\ s[Len(s)] \in S
           /\ SubSeq(s, 1, Len(s) - 1) \in Seq(S)
           /\ DOMAIN SubSeq(s, 1, Len(s) - 1) = 1 .. Len(s) - 1
           /\ \A i \in 1 .. Len(s) - 1 : SubSeq(s, 1, Len(s) - 1)[i] = s[i]
OBVIOUS

\* A sequence stays one when an element of it is changed.
LEMMA ChangedElement ==
    ASSUME NEW S, NEW s \in Seq(S), NEW i \in DOMAIN s, NEW x \in S
    PROVE  [s EXCEPT ![i] = x] \in Seq(S)
OBVIOUS

\* The innermost lookup, where there is one, and the shape of the stack.
LEMMA TopOfStack ==
    ASSUME TypeOK, calls # <<>>
    PROVE  /\ Len(calls) \in DOMAIN calls /\ Top \in Lookups /\ Top.of \in Names
           /\ DOMAIN calls = 1 .. Len(calls) /\ Len(calls) \in Nat \ {0}
<1>1. calls \in Seq(Lookups)
  BY DEF TypeOK, Lookups
<1> HIDE DEF Lookups
<1>2. /\ Len(calls) \in DOMAIN calls /\ Top \in Lookups
      /\ DOMAIN calls = 1 .. Len(calls) /\ Len(calls) \in Nat \ {0}
  BY <1>1, LastAndFront DEF Top
<1> QED BY <1>2 DEF Lookups

\* Lookups are of names.
LEMMA NamesOnStack ==
    ASSUME TypeOK
    PROVE  \A i \in DOMAIN calls : calls[i].of \in Names
<1>1. calls \in Seq(Lookups)
  BY DEF TypeOK, Lookups
<1>2. ASSUME NEW S, calls \in Seq(S)
      PROVE  \A i \in DOMAIN calls : calls[i] \in S
  BY <1>2
<1>3. \A i \in DOMAIN calls : calls[i] \in Lookups
  BY <1>1, <1>2
<1> QED BY <1>3 DEF Lookups

\* What remains when the innermost lookup ends.
LEMMA PopKeepsTheRest ==
    ASSUME TypeOK, calls # <<>>, calls' = Pop
    PROVE  /\ calls' \in Seq(Lookups)
           /\ DOMAIN calls' = 1 .. Len(calls) - 1
           /\ \A i \in DOMAIN calls' : i \in DOMAIN calls /\ calls'[i] = calls[i]
<1>1. calls \in Seq(Lookups)
  BY DEF TypeOK, Lookups
<1> QED BY <1>1, LastAndFront DEF Pop

\* The values stay what they are meant to be: no count goes below zero.
LEMMA TypeSteps ==
    ASSUME ProvidersInv, Next
    PROVE  TypeOK'
<1> USE ProvidersAssumption
<1>a. TypeOK
  BY DEF ProvidersInv
<1>1. ASSUME NEW n \in Names, LookupFinds(n)
      PROVE  TypeOK'
  BY <1>1, <1>a DEF LookupFinds, Locks, TypeOK
<1>2. ASSUME NEW n \in Names, LookupLoads(n)
      PROVE  TypeOK'
  <2>1. handles' \in [Names -> Nat]
    BY <1>2, <1>a DEF LookupLoads, TypeOK
  <2>2. calls' \in Seq([of : Names, stage : {"DllMain", "returned"}])
    BY <1>2, <1>a DEF LookupLoads, TypeOK
  <2> QED BY <2>1, <2>2, <1>2, <1>a DEF LookupLoads, TypeOK
<1>3. ASSUME NEW n \in Names, LookupInProcessThrows(n)
      PROVE  TypeOK'
  BY <1>3, <1>a DEF LookupInProcessThrows, HandleOf, TypeOK
<1>4. ASSUME NEW n \in Names, OthersLoad(n)
      PROVE  TypeOK'
  BY <1>4, <1>a DEF OthersLoad, TypeOK
<1>5. ASSUME NEW n \in Names, OthersFree(n)
      PROVE  TypeOK'
  <2>1. handles[n] > 0
    <3>1. /\ Cardinality(ModulesOf(n)) \in Nat
          /\ Cardinality(LookupsOf(n)) \in Nat
      BY ModulesAreFinite, LookupsAreFinite DEF ProvidersInv
    <3>2. handles[n] = Cardinality(ModulesOf(n)) + Cardinality(LookupsOf(n))
                       + others[n] + lost[n]
      BY DEF ProvidersInv, HandlesCounted, ModulesOf, LookupsOf
    <3>3. others[n] = 1 /\ lost[n] \in Nat
      BY <1>5, <1>a DEF OthersFree, TypeOK
    <3> QED BY <3>1, <3>2, <3>3
  <2> QED BY <2>1, <1>5, <1>a DEF OthersFree, TypeOK
<1>6. ASSUME NEW n \in Names, NEW o \in Objects, LookupInProcess(n, o)
      PROVE  TypeOK'
  BY <1>6, <1>a DEF LookupInProcess, HandleOf, TypeOK
<1>7. ASSUME DllMainReturns
      PROVE  TypeOK'
  <2>1. calls \in Seq(Lookups)
    BY <1>a DEF TypeOK, Lookups
  <2>2. [Top EXCEPT !.stage = "returned"] \in Lookups
    BY <1>7, <1>a, TopOfStack DEF DllMainReturns, Lookups
  <2>3. calls' = [calls EXCEPT ![Len(calls)] = [Top EXCEPT !.stage = "returned"]]
    BY <1>7 DEF DllMainReturns, Top
  <2>4. calls' \in Seq(Lookups)
    BY <2>1, <2>2, <2>3, <1>7, <1>a, TopOfStack, ChangedElement DEF DllMainReturns
  <2> QED BY <2>4, <1>7, <1>a DEF DllMainReturns, TypeOK, Lookups
<1>8. ASSUME LoadFails
      PROVE  TypeOK'
  BY <1>8, <1>a, PopKeepsTheRest, TopOfStack DEF LoadFails, TypeOK, Lookups
<1>9. ASSUME WrapThrows
      PROVE  TypeOK'
  <2>1. Top.of \in Names /\ calls' \in Seq(Lookups)
    BY <1>9, <1>a, PopKeepsTheRest, TopOfStack DEF WrapThrows
  <2>2. lost' \in [Names -> 0 .. MaxLost]
    BY <2>1, <1>9, <1>a DEF WrapThrows, TypeOK
  <2> QED BY <2>1, <2>2, <1>9, <1>a DEF WrapThrows, TypeOK, Lookups
<1>10. ASSUME NEW o \in Objects, Wrap(o)
       PROVE  TypeOK'
  <2>1. Top.of \in Names /\ calls' \in Seq(Lookups)
    BY <1>10, <1>a, PopKeepsTheRest, TopOfStack DEF Wrap
  <2>2. /\ shared' \in [Objects -> 0 .. MaxShared]
        /\ weak' \in [Names -> Objects \cup {Absent}]
        /\ name' \in [Objects -> Names \cup {Absent}]
        /\ cached' \in [Objects -> BOOLEAN]
    BY <2>1, <1>10, <1>a DEF Wrap, TypeOK
  <2> QED BY <2>1, <2>2, <1>10, <1>a DEF Wrap, TypeOK, Lookups
<1>11. ASSUME NEW o \in Objects, Drop(o)
       PROVE  TypeOK'
  <2>1. o \in Live /\ shared' = [shared EXCEPT ![o] = @ - 1]
        /\ shared[o] \in 1 .. MaxShared
    BY <1>11, <1>a DEF Drop, Live, TypeOK
  <2>2. shared' \in [Objects -> 0 .. MaxShared]
    BY <2>1, <1>a DEF TypeOK
  <2>3. name[o] \in Names /\ handles[name[o]] > 0
    BY <2>1, CountedIsLoaded DEF HeldIsLoaded, ProvidersInv, LiveHaveNames
  <2>4. CASE shared[o] > 1
    BY <2>2, <2>4, <1>11, <1>a DEF Drop, TypeOK
  <2>5. CASE ~ shared[o] > 1
    <3>1. handles' \in [Names -> Nat]
      <4>1. handles' = [handles EXCEPT ![name[o]] = @ - 1]
        BY <2>5, <1>11 DEF Drop, FreeLibrary
      <4>2. handles \in [Names -> Nat] /\ handles[name[o]] - 1 \in Nat
        BY <2>3, <1>a DEF TypeOK
      <4> QED BY <4>1, <4>2
    <3> QED BY <3>1, <2>2, <2>5, <1>11, <1>a DEF Drop, TypeOK
  <2> QED BY <2>4, <2>5
<1> QED
  BY <1>1, <1>2, <1>3, <1>4, <1>5, <1>6, <1>7, <1>8, <1>9, <1>10, <1>11
  DEF Next

\* Handles are counted right, step by step: where the system counts one more
\* or one less there is a SystemModule more or less, or a lookup, or what the
\* rest of the process has, or what was lost.
LEMMA CountSteps ==
    ASSUME ProvidersInv, Next
    PROVE  HandlesCounted' /\ LiveHaveNames'
<1> DEFINE M(n) == Cardinality(ModulesOf(n))
           C(n) == Cardinality(LookupsOf(n))
           Balanced == \A n \in Names :
                           handles'[n] = M(n)' + C(n)' + others'[n] + lost'[n]
<1>a. TypeOK /\ LiveHaveNames
  BY DEF ProvidersInv
<1>b. \A n \in Names :
          /\ handles[n] = M(n) + C(n) + others[n] + lost[n]
          /\ M(n) \in Nat /\ C(n) \in Nat
  BY <1>a, ModulesAreFinite, LookupsAreFinite
  DEF ProvidersInv, HandlesCounted, ModulesOf, LookupsOf
<1>c. \A n \in Names : handles[n] \in Int /\ others[n] \in Int /\ lost[n] \in Int
  <2>1. \A n \in Names : handles[n] \in Nat /\ others[n] \in 0 .. 1 /\ lost[n] \in 0 .. MaxLost
    BY <1>a DEF TypeOK
  <2> QED BY <2>1, ProvidersAssumption
<1>e. UNCHANGED calls => \A n \in Names : C(n)' = C(n)
  BY DEF LookupsOf
<1>f. UNCHANGED <<shared, name>> =>
          LiveHaveNames' /\ \A n \in Names : M(n)' = M(n)
  BY <1>a DEF ModulesOf, Live, LiveHaveNames
<1>g. Balanced => HandlesCounted'
  BY DEF HandlesCounted, ModulesOf, LookupsOf
<1> HIDE DEF M, C
<1>1. ASSUME NEW n \in Names, LookupFinds(n)
      PROVE  Balanced /\ LiveHaveNames'
  <2>1. weak[n] \in Live /\ shared[weak[n]] \in Nat /\ shared[weak[n]] + 1 \in Nat \ {0}
    BY <1>1, <1>a DEF LookupFinds, Locks, ProvidersInv, EntriesAreLive, TypeOK, Live
  <2>2. LiveHaveNames' /\ \A k \in Names : M(k)' = M(k)
    BY <2>1, <1>1, <1>a, SharingKeepsModules DEF LookupFinds, M
  <2> QED BY <2>2, <1>1, <1>b, <1>e DEF LookupFinds
<1>2. ASSUME NEW n \in Names, LookupLoads(n)
      PROVE  Balanced /\ LiveHaveNames'
  <2>1. \A k \in Names : C(k)' = C(k) + (IF k = n THEN 1 ELSE 0)
    <3>1. PICK s \in {"DllMain", "returned"} :
              calls' = Append(calls, [of |-> n, stage |-> s])
      BY <1>2 DEF LookupLoads
    <3> QED BY <3>1, <1>a, PushCounts DEF C
  <2>2. \A k \in Names : handles'[k] = handles[k] + (IF k = n THEN 1 ELSE 0)
    BY <1>2, <1>a DEF LookupLoads, TypeOK
  <2>u. UNCHANGED <<others, lost, name, shared>>
    BY <1>2 DEF LookupLoads
  <2>3. LiveHaveNames' /\ \A k \in Names : M(k)' = M(k)
    BY <2>u, <1>f
  <2> QED BY <2>1, <2>2, <2>3, <2>u, <1>b, <1>c
<1>3. ASSUME NEW n \in Names, LookupInProcessThrows(n)
      PROVE  Balanced /\ LiveHaveNames'
  <2>1. \A k \in Names :
            /\ handles'[k] = handles[k] + (IF k = n THEN 1 ELSE 0)
            /\ lost'[k] = lost[k] + (IF k = n THEN 1 ELSE 0)
    BY <1>3, <1>a DEF LookupInProcessThrows, HandleOf, TypeOK
  <2> QED BY <2>1, <1>3, <1>b, <1>c, <1>e, <1>f DEF LookupInProcessThrows
<1>4. ASSUME NEW n \in Names, OthersLoad(n)
      PROVE  Balanced /\ LiveHaveNames'
  <2>1. \A k \in Names :
            /\ handles'[k] = handles[k] + (IF k = n THEN 1 ELSE 0)
            /\ others'[k] = others[k] + (IF k = n THEN 1 ELSE 0)
    <3>1. /\ handles' = [handles EXCEPT ![n] = handles[n] + 1]
          /\ others' = [others EXCEPT ![n] = 1] /\ others[n] = 0
      BY <1>4 DEF OthersLoad
    <3>2. \A k \in Names : handles[k] \in Int /\ others[k] \in Int
      BY <1>c
    <3> QED BY <3>1, <3>2, <1>a DEF TypeOK
  <2>u. UNCHANGED <<lost, name, shared, calls>>
    BY <1>4 DEF OthersLoad
  <2> QED BY <2>1, <2>u, <1>b, <1>c, <1>e, <1>f
<1>5. ASSUME NEW n \in Names, OthersFree(n)
      PROVE  Balanced /\ LiveHaveNames'
  <2>1. \A k \in Names :
            /\ handles'[k] = handles[k] - (IF k = n THEN 1 ELSE 0)
            /\ others'[k] = others[k] - (IF k = n THEN 1 ELSE 0)
    <3>1. handles[n] \in Int /\ others[n] \in Int
      BY <1>c
    <3> QED BY <3>1, <1>c, <1>5, <1>a DEF OthersFree, TypeOK
  <2>u. UNCHANGED <<lost, name, shared, calls>>
    BY <1>5 DEF OthersFree
  <2> QED BY <2>1, <2>u, <1>b, <1>c, <1>e, <1>f
<1>6. ASSUME NEW n \in Names, NEW o \in Objects, LookupInProcess(n, o)
      PROVE  Balanced /\ LiveHaveNames'
  <2>1. \A k \in Names : handles'[k] = handles[k] + (IF k = n THEN 1 ELSE 0)
    BY <1>6, <1>a DEF LookupInProcess, HandleOf, TypeOK
  <2>2. LiveHaveNames' /\ \A k \in Names : M(k)' = M(k) + (IF k = n THEN 1 ELSE 0)
    BY <1>6, <1>a, MakeCounts DEF LookupInProcess, M
  <2> QED BY <2>1, <2>2, <1>6, <1>b, <1>c, <1>e DEF LookupInProcess
<1>7. ASSUME DllMainReturns
      PROVE  Balanced /\ LiveHaveNames'
  <2>1. \A k \in Names : C(k)' = C(k)
    BY <1>7, <1>a, ReturnCounts DEF C
  <2> QED BY <2>1, <1>7, <1>b, <1>f DEF DllMainReturns
<1>8. ASSUME LoadFails
      PROVE  Balanced /\ LiveHaveNames'
  <2>1. Top.of \in Names /\ handles[Top.of] = 1
    BY <1>8, <1>a, TopOfStack DEF LoadFails
  <2>2. \A k \in Names : C(k)' = C(k) - (IF k = Top.of THEN 1 ELSE 0)
    BY <1>8, <1>a, PopCounts DEF LoadFails, C
  <2>3. \A k \in Names : handles'[k] = handles[k] - (IF k = Top.of THEN 1 ELSE 0)
    BY <2>1, <1>8, <1>a DEF LoadFails, TypeOK
  <2>u. UNCHANGED <<others, lost, name, shared>>
    BY <1>8 DEF LoadFails
  <2> QED BY <2>2, <2>3, <2>u, <1>b, <1>c, <1>f
<1>9. ASSUME WrapThrows
      PROVE  Balanced /\ LiveHaveNames'
  <2>1. \A k \in Names : C(k)' = C(k) - (IF k = Top.of THEN 1 ELSE 0)
    BY <1>9, <1>a, PopCounts DEF WrapThrows, C
  <2>2. \A k \in Names : lost'[k] = lost[k] + (IF k = Top.of THEN 1 ELSE 0)
    BY <1>9, <1>a DEF WrapThrows, TypeOK
  <2>u. UNCHANGED <<handles, others, name, shared>>
    BY <1>9 DEF WrapThrows
  <2> QED BY <2>1, <2>2, <2>u, <1>b, <1>c, <1>f
<1>10. ASSUME NEW o \in Objects, Wrap(o)
       PROVE  Balanced /\ LiveHaveNames'
  <2>1. Top.of \in Names
    BY <1>10, <1>a, TopOfStack DEF Wrap
  <2>2. \A k \in Names : C(k)' = C(k) - (IF k = Top.of THEN 1 ELSE 0)
    BY <1>10, <1>a, PopCounts DEF Wrap, C
  <2>3. LiveHaveNames' /\ \A k \in Names : M(k)' = M(k) + (IF k = Top.of THEN 1 ELSE 0)
    BY <2>1, <1>10, <1>a, MakeCounts DEF Wrap, M
  <2> QED BY <2>2, <2>3, <1>10, <1>b, <1>c DEF Wrap
<1>11. ASSUME NEW o \in Objects, Drop(o)
       PROVE  Balanced /\ LiveHaveNames'
  <2>1. o \in Live
    BY <1>11 DEF Drop
  <2>2. CASE shared[o] > 1
    <3>1. shared[o] - 1 \in Nat \ {0} /\ shared' = [shared EXCEPT ![o] = shared[o] - 1]
      BY <2>2, <1>11, <1>a, ProvidersAssumption DEF Drop, TypeOK
    <3>2. LiveHaveNames' /\ \A k \in Names : M(k)' = M(k)
      BY <2>1, <2>2, <3>1, <1>11, <1>a, SharingKeepsModules DEF Drop, M
    <3> QED BY <3>2, <2>2, <1>11, <1>b, <1>e DEF Drop
  <2>3. CASE ~ shared[o] > 1
    <3>1. /\ LiveHaveNames'
          /\ \A k \in Names : M(k)' = M(k) - (IF k = name[o] THEN 1 ELSE 0)
      BY <2>1, <2>3, <1>11, <1>a, LastDropCounts DEF M
    <3>2. \A k \in Names : handles'[k] = handles[k] - (IF k = name[o] THEN 1 ELSE 0)
      BY <2>3, <1>11, <1>a DEF Drop, FreeLibrary, TypeOK
    <3> QED BY <3>1, <3>2, <2>3, <1>11, <1>b, <1>c, <1>e DEF Drop
  <2> QED BY <2>2, <2>3
<1> QED
  BY <1>1, <1>2, <1>3, <1>4, <1>5, <1>6, <1>7, <1>8, <1>9, <1>10, <1>11, <1>g
  DEF Next

\* A lookup that is made from a DllMain is of something that module reaches,
\* and so do all the modules further down.
LEMMA StackSteps ==
    ASSUME ProvidersInv, Next
    PROVE  StackOfAsks'
<1>a. TypeOK /\ StackOfAsks
  BY DEF ProvidersInv
<1>b. Len(calls) \in Nat /\ DOMAIN calls = 1 .. Len(calls)
  BY <1>a DEF TypeOK
<1>c. \A i \in DOMAIN calls : calls[i].of \in Names
  BY <1>a, NamesOnStack
<1>1. CASE UNCHANGED calls
  BY <1>1, <1>a DEF StackOfAsks
<1>2. CASE calls # <<>> /\ calls' = Pop
  BY <1>2, <1>a, <1>b, PopKeepsTheRest DEF StackOfAsks
<1>3. ASSUME DllMainReturns
      PROVE  StackOfAsks'
  <2>1. DOMAIN calls' = 1 .. Len(calls)
    BY <1>3, <1>b DEF DllMainReturns
  <2>2. \A i \in 1 .. Len(calls) :
            /\ calls'[i].of = calls[i].of
            /\ i < Len(calls) => calls'[i] = calls[i]
    BY <1>3, <1>a, <1>b DEF DllMainReturns, TypeOK
  <2> SUFFICES ASSUME NEW i \in 1 .. Len(calls), NEW j \in 1 .. Len(calls), i < j
               PROVE  /\ calls'[i].stage = "DllMain"
                      /\ Reaches(calls'[i].of, calls'[j].of)
    BY <2>1 DEF StackOfAsks
  <2>3. i < Len(calls)
    BY <1>b
  <2>4. calls[i].stage = "DllMain" /\ Reaches(calls[i].of, calls[j].of)
    BY <1>a, <1>b DEF StackOfAsks
  <2>5. calls'[i] = calls[i]
    BY <2>2, <2>3
  <2>6. calls'[i].of = calls[i].of /\ calls'[j].of = calls[j].of
    BY <2>2
  <2> QED BY <2>4, <2>5, <2>6
<1>4. ASSUME NEW n \in Names, LookupLoads(n)
      PROVE  StackOfAsks'
  <2> DEFINE L == Len(calls)
  <2>1. /\ DOMAIN calls' = 1 .. L + 1 /\ calls'[L + 1].of = n
        /\ \A i \in 1 .. L : calls'[i] = calls[i]
    BY <1>4, <1>a, <1>b DEF LookupLoads, TypeOK
  <2>2. ASSUME NEW i \in 1 .. L
        PROVE  calls[i].stage = "DllMain" /\ Reaches(calls[i].of, n)
    <3>1. L \in DOMAIN calls /\ L > 0 /\ calls # <<>>
      BY <1>b
    <3>2. calls[L].stage = "DllMain" /\ <<calls[L].of, n>> \in Asks
      BY <3>1, <1>4 DEF LookupLoads, MayAsk, Top
    <3>3. CASE i = L
      BY <3>1, <3>2, <3>3, <1>c, AskedIsReached
    <3>4. CASE i # L
      <4>0. L \in Nat /\ DOMAIN calls = 1 .. L
        BY <1>b
      <4>1. i < L /\ i \in DOMAIN calls
        <5> HIDE DEF L
        <5> QED BY <4>0, <3>4
      <4>2. calls[i].stage = "DllMain" /\ Reaches(calls[i].of, calls[L].of)
        BY <3>1, <4>1, <1>a DEF StackOfAsks
      <4> QED BY <4>1, <4>2, <3>1, <3>2, <1>b, <1>c, AskedFurtherIsReached
    <3> QED BY <3>3, <3>4
  <2>3. ASSUME NEW i \in DOMAIN calls', NEW j \in DOMAIN calls', i < j
        PROVE  calls'[i].stage = "DllMain" /\ Reaches(calls'[i].of, calls'[j].of)
    <3>1. CASE j = L + 1
      BY <3>1, <2>1, <2>2, <2>3, <1>b
    <3>2. CASE j # L + 1
      BY <3>2, <2>1, <2>3, <1>a, <1>b DEF StackOfAsks
    <3> QED BY <3>1, <3>2
  <2>4. \A x, y : Reaches(x, y)' <=> Reaches(x, y)
    BY DEF Reaches
  <2> QED BY <2>3, <2>4 DEF StackOfAsks
<1>5. CASE \E n \in Names :
               \/ LookupFinds(n) \/ LookupInProcessThrows(n)
               \/ OthersLoad(n) \/ OthersFree(n)
               \/ \E o \in Objects : LookupInProcess(n, o) \/ Drop(o)
  BY <1>1, <1>5
  DEF LookupFinds, LookupInProcessThrows, OthersLoad, OthersFree,
      LookupInProcess, Drop
<1>6. CASE LoadFails \/ WrapThrows \/ \E o \in Objects : Wrap(o)
  BY <1>2, <1>6 DEF LoadFails, WrapThrows, Wrap
<1>7. CASE \E o \in Objects : Drop(o)
  BY <1>1, <1>7 DEF Drop
<1> QED BY <1>3, <1>4, <1>5, <1>6, <1>7 DEF Next

\* What is kept about the entries when neither the map nor the SystemModules
\* under a name change: the lookups may become fewer, or another one starts
\* that found no entry.
LEMMA EntriesKept ==
    ASSUME ProvidersInv, UNCHANGED <<weak, name, cached>>, Live' = Live,
           \A i \in DOMAIN calls' :
               \/ i \in DOMAIN calls /\ calls'[i].of = calls[i].of
               \/ weak[calls'[i].of] = Absent
    PROVE  EntriesAreLive' /\ NoneYet' /\ EntryIsTheOne'
BY DEF ProvidersInv, EntriesAreLive, NoneYet, EntryIsTheOne, ComesBack, Reaches

\* An entry is of a SystemModule of that name, there is none while the module
\* is looked up, unless it was looked up from there, and it is of the only one.
LEMMA EntrySteps ==
    ASSUME ProvidersInv, Next
    PROVE  EntriesAreLive' /\ NoneYet' /\ EntryIsTheOne'
<1>a. TypeOK /\ LiveHaveNames /\ EntriesAreLive /\ StackOfAsks /\ NoneYet /\ EntryIsTheOne
  BY DEF ProvidersInv
<1>b. Len(calls) \in Nat /\ DOMAIN calls = 1 .. Len(calls)
  BY <1>a DEF TypeOK
<1>c. Absent \notin Names \cup Objects
  BY ProvidersAssumption
<1>d. \A n : ComesBack(n)' <=> ComesBack(n)
  BY DEF ComesBack, Reaches
<1>1. ASSUME NEW n \in Names, LookupFinds(n)
      PROVE  EntriesAreLive' /\ NoneYet' /\ EntryIsTheOne'
  <2>1. weak[n] \in Live /\ shared[weak[n]] + 1 \in Nat \ {0}
    BY <1>1, <1>a DEF LookupFinds, Locks, EntriesAreLive, TypeOK, Live
  <2>2. Live' = Live
    BY <2>1, <1>1, <1>a, SharingKeepsModules DEF LookupFinds
  <2> QED BY <2>2, <1>1, EntriesKept DEF LookupFinds
<1>2. ASSUME NEW n \in Names, LookupLoads(n)
      PROVE  EntriesAreLive' /\ NoneYet' /\ EntryIsTheOne'
  <2>1. weak[n] = Absent /\ UNCHANGED <<weak, name, cached, shared>>
    BY <1>2 DEF LookupLoads, Locks
  <2>2. \A i \in DOMAIN calls' :
            \/ i \in DOMAIN calls /\ calls'[i].of = calls[i].of
            \/ calls'[i].of = n
    BY <1>2, <1>a, <1>b DEF LookupLoads, TypeOK
  <2>3. Live' = Live
    BY <2>1 DEF Live
  <2> QED BY <2>1, <2>2, <2>3, EntriesKept
<1>3. ASSUME UNCHANGED <<weak, name, cached, shared, calls>>
      PROVE  EntriesAreLive' /\ NoneYet' /\ EntryIsTheOne'
  <2>1. Live' = Live
    BY <1>3 DEF Live
  <2> QED BY <2>1, <1>3, EntriesKept
<1>4. ASSUME NEW n \in Names, NEW o \in Objects, LookupInProcess(n, o)
      PROVE  EntriesAreLive' /\ NoneYet' /\ EntryIsTheOne'
  <2>1. Live' = Live \cup {o} /\ o \notin Live
    BY <1>4, <1>a, MakeCounts DEF LookupInProcess
  <2>2. ~ cached'[o] /\ \A p \in Live : name'[p] = name[p] /\ cached'[p] = cached[p]
    BY <2>1, <1>4, <1>a DEF LookupInProcess, TypeOK, Live
  <2>3. UNCHANGED <<weak, calls>>
    BY <1>4 DEF LookupInProcess
  <2> QED BY <2>1, <2>2, <2>3, <1>a, <1>d DEF EntriesAreLive, NoneYet, EntryIsTheOne
<1>5. ASSUME DllMainReturns
      PROVE  EntriesAreLive' /\ NoneYet' /\ EntryIsTheOne'
  <2>1. \A i \in DOMAIN calls' : i \in DOMAIN calls /\ calls'[i].of = calls[i].of
    BY <1>5, <1>a, <1>b DEF DllMainReturns, TypeOK
  <2>2. UNCHANGED <<weak, name, cached, shared>> /\ Live' = Live
    BY <1>5 DEF DllMainReturns, Live
  <2> QED BY <2>1, <2>2, EntriesKept
<1>6. ASSUME WrapThrows
      PROVE  EntriesAreLive' /\ NoneYet' /\ EntryIsTheOne'
  <2>1. \A i \in DOMAIN calls' : i \in DOMAIN calls /\ calls'[i].of = calls[i].of
    BY <1>6, <1>a, PopKeepsTheRest DEF WrapThrows
  <2>2. UNCHANGED <<weak, name, cached, shared>> /\ Live' = Live
    BY <1>6 DEF WrapThrows, Live
  <2> QED BY <2>1, <2>2, EntriesKept
<1>7. ASSUME LoadFails
      PROVE  EntriesAreLive' /\ NoneYet' /\ EntryIsTheOne'
  <2>1. Len(calls) \in DOMAIN calls /\ Top.of \in Names
    BY <1>7, <1>a, TopOfStack DEF LoadFails
  <2>2. ~ ComesBack(Top.of) => weak[Top.of] = Absent
    BY <2>1, <1>a DEF NoneYet, Top
  <2>3. \A n \in Names : weak'[n] = IF n = Top.of THEN Absent ELSE weak[n]
    BY <2>1, <1>7, <1>a DEF LoadFails, TypeOK
  <2>4. UNCHANGED <<name, cached, shared>> /\ Live' = Live
    BY <1>7 DEF LoadFails, Live
  <2>5. \A i \in DOMAIN calls' : i \in DOMAIN calls /\ calls'[i] = calls[i]
    BY <1>7, <1>a, PopKeepsTheRest DEF LoadFails
  <2>6. \A i \in DOMAIN calls : calls[i].of \in Names
    BY <1>a, NamesOnStack
  <2>7. EntriesAreLive'
    BY <2>3, <2>4, <1>a DEF EntriesAreLive
  <2>8. NoneYet'
    BY <2>3, <2>5, <2>6, <1>a, <1>d DEF NoneYet
  <2>9. EntryIsTheOne'
    BY <2>2, <2>3, <2>4, <1>a, <1>c, <1>d DEF EntryIsTheOne, LiveHaveNames, Live
  <2> QED BY <2>7, <2>8, <2>9
<1>8. ASSUME NEW o \in Objects, Wrap(o)
      PROVE  EntriesAreLive' /\ NoneYet' /\ EntryIsTheOne'
  <2> DEFINE n == Top.of
             L == Len(calls)
  <2>1. L \in DOMAIN calls /\ n \in Names /\ calls[L].of = n
    BY <1>8, <1>a, TopOfStack DEF Wrap, Top
  <2>2. Live' = Live \cup {o} /\ o \notin Live
    BY <2>1, <1>8, <1>a, MakeCounts DEF Wrap
  <2>3. \A k \in Names : weak'[k] = IF k = n THEN o ELSE weak[k]
    BY <2>1, <1>8, <1>a DEF Wrap, TypeOK
  <2>4. name'[o] = n /\ \A p \in Live : name'[p] = name[p] /\ cached'[p] = cached[p]
    BY <2>1, <2>2, <1>8, <1>a DEF Wrap, TypeOK, Live
  <2>5. /\ DOMAIN calls' = 1 .. L - 1
        /\ \A i \in DOMAIN calls' : i \in DOMAIN calls /\ calls'[i] = calls[i]
    BY <1>8, <1>a, PopKeepsTheRest DEF Wrap
  <2>6. \A i \in DOMAIN calls : calls[i].of \in Names
    BY <1>a, NamesOnStack
  <2> HIDE DEF n
  <2>7. EntriesAreLive'
    BY <2>2, <2>3, <2>4, <1>a, <1>c DEF EntriesAreLive
  <2>8. NoneYet'
    <3> SUFFICES ASSUME NEW i \in DOMAIN calls', ~ ComesBack(calls'[i].of)
                 PROVE  weak'[calls'[i].of] = Absent
      BY <1>d DEF NoneYet
    <3>1. calls'[i] = calls[i] /\ calls[i].of \in Names /\ i < L
      BY <2>1, <2>5, <2>6, <1>b
    <3>2. calls[i].of # n
      BY <2>1, <2>5, <3>1, <1>a DEF StackOfAsks, ComesBack
    <3> QED BY <2>3, <2>5, <3>1, <3>2, <1>a DEF NoneYet
  <2>9. EntryIsTheOne'
    <3>1. ~ ComesBack(n) => weak[n] = Absent
      BY <2>1, <1>a DEF NoneYet
    <3> SUFFICES ASSUME NEW p \in Live', cached'[p], ~ ComesBack(name'[p])
                 PROVE  weak'[name'[p]] = p
      BY <1>d DEF EntryIsTheOne
    <3>2. CASE p = o
      BY <3>2, <2>1, <2>3, <2>4
    <3>3. CASE p # o
      <4>1. p \in Live /\ p \in Objects /\ weak[name[p]] = p /\ name[p] \in Names
        BY <3>3, <2>2, <2>4, <1>a DEF EntryIsTheOne, LiveHaveNames, Live
      <4> QED BY <4>1, <3>1, <2>3, <2>4, <1>c
    <3> QED BY <3>2, <3>3
  <2> QED BY <2>7, <2>8, <2>9
<1>9. ASSUME NEW o \in Objects, Drop(o)
      PROVE  EntriesAreLive' /\ NoneYet' /\ EntryIsTheOne'
  <2>1. o \in Live /\ UNCHANGED calls
    BY <1>9 DEF Drop
  <2>2. CASE shared[o] > 1
    <3>1. shared[o] - 1 \in Nat \ {0} /\ shared' = [shared EXCEPT ![o] = shared[o] - 1]
      BY <2>2, <1>9, <1>a, ProvidersAssumption DEF Drop, TypeOK
    <3>2. Live' = Live
      BY <2>1, <2>2, <3>1, <1>9, <1>a, SharingKeepsModules DEF Drop
    <3> QED BY <2>1, <2>2, <3>2, <1>9, EntriesKept DEF Drop
  <2>3. CASE ~ shared[o] > 1
    <3>1. Live' = Live \ {o}
      BY <2>1, <2>3, <1>9, <1>a, LastDropCounts
    <3>2. \A p \in Live' : name'[p] = name[p] /\ cached'[p] = cached[p]
      BY <2>3, <3>1, <1>9, <1>a DEF Drop, TypeOK, Live
    <3>3. \A n \in Names : weak'[n] = IF weak[n] = o THEN Absent ELSE weak[n]
      BY <2>3, <1>9 DEF Drop
    <3>4. \A i \in DOMAIN calls : calls[i].of \in Names
      BY <1>a, NamesOnStack
    <3>5. EntriesAreLive'
      BY <3>1, <3>2, <3>3, <1>a DEF EntriesAreLive
    <3>6. NoneYet'
      BY <2>1, <3>3, <3>4, <1>a, <1>d DEF NoneYet
    <3>7. EntryIsTheOne'
      BY <3>1, <3>2, <3>3, <1>a, <1>d DEF EntryIsTheOne, LiveHaveNames
    <3> QED BY <3>5, <3>6, <3>7
  <2> QED BY <2>2, <2>3
<1>10. CASE \E n \in Names :
                LookupInProcessThrows(n) \/ OthersLoad(n) \/ OthersFree(n)
  BY <1>3, <1>10 DEF LookupInProcessThrows, OthersLoad, OthersFree
<1> QED
  BY <1>1, <1>2, <1>4, <1>5, <1>6, <1>7, <1>8, <1>9, <1>10 DEF Next

-----------------------------------------------------------------------------
(* Theorems *)

\* At first there is nothing to count.
LEMMA ProvidersInitially ==
    ASSUME Init
    PROVE  ProvidersInv
<1>1. TypeOK
  BY ProvidersAssumption DEF Init, TypeOK
<1>2. Live = {} /\ calls = <<>> /\ DOMAIN calls = {}
  BY DEF Init, Live
<1>3. LiveHaveNames
  BY <1>2, FS_EmptySet DEF LiveHaveNames
<1>4. HandlesCounted
  <2> SUFFICES ASSUME NEW n \in Names
               PROVE  handles[n] = Cardinality(ModulesOf(n))
                          + Cardinality(LookupsOf(n)) + others[n] + lost[n]
    BY DEF HandlesCounted, ModulesOf, LookupsOf
  <2>1. ModulesOf(n) = {} /\ LookupsOf(n) = {}
    BY <1>2 DEF ModulesOf, LookupsOf
  <2>2. handles[n] = 0 /\ others[n] = 0 /\ lost[n] = 0
    BY DEF Init
  <2> QED BY <2>1, <2>2, FS_EmptySet
<1>5. EntriesAreLive
  BY DEF Init, EntriesAreLive
<1>6. StackOfAsks /\ NoneYet /\ EntryIsTheOne
  BY <1>2 DEF StackOfAsks, NoneYet, EntryIsTheOne
<1> QED BY <1>1, <1>3, <1>4, <1>5, <1>6 DEF ProvidersInv

\* The inductive invariant holds whatever DllMain looks up, for any number of
\* names and SystemModules.
THEOREM ProvidersInvariant == Spec => []ProvidersInv
<1>1. Init => ProvidersInv
  BY ProvidersInitially
<1>2. ProvidersInv /\ [Next]_vars => ProvidersInv'
  <2>1. ProvidersInv /\ Next => ProvidersInv'
    BY TypeSteps, CountSteps, StackSteps, EntrySteps DEF ProvidersInv
  <2>2. ASSUME ProvidersInv, UNCHANGED vars
        PROVE  ProvidersInv'
    <3>1. UNCHANGED <<handles, others, weak, name, cached, shared, lost, calls>>
      BY <2>2 DEF vars
    <3>2. TypeOK'
      BY <2>2, <3>1 DEF ProvidersInv, TypeOK
    <3>3. Live' = Live
      BY <3>1 DEF Live
    <3>4. HandlesCounted' /\ LiveHaveNames' /\ EntriesAreLive'
      BY <2>2, <3>1, <3>3
      DEF ProvidersInv, HandlesCounted, LiveHaveNames, EntriesAreLive
    <3>5. StackOfAsks' /\ NoneYet' /\ EntryIsTheOne'
      BY <2>2, <3>1, <3>3
      DEF ProvidersInv, StackOfAsks, NoneYet, EntryIsTheOne, ComesBack, Reaches
    <3> QED BY <3>2, <3>4, <3>5 DEF ProvidersInv
  <2> QED BY <2>1, <2>2
<1> QED BY <1>1, <1>2, PTL DEF Spec

\* No count of handles goes below zero, in whatever order references go.
THEOREM ProvidersType == Spec => []TypeOK
<1>1. ProvidersInv => TypeOK
  BY DEF ProvidersInv
<1> QED BY <1>1, ProvidersInvariant, PTL

\* FreeLibrary is called once for each handle of LoadLibraryA and
\* GetModuleHandleExA, but for those lost to a make_shared that threw.
THEOREM HandlesCorrect == Spec => []HandlesCounted
<1>1. ProvidersInv => HandlesCounted
  BY DEF ProvidersInv
<1> QED BY <1>1, ProvidersInvariant, PTL

\* A module somebody has a SystemModule of is not unloaded, whoever frees it.
THEOREM HeldCorrect == Spec => []HeldIsLoaded
<1>1. ProvidersInv => HeldIsLoaded
  BY CountedIsLoaded
<1> QED BY <1>1, ProvidersInvariant, PTL

\* All users of a name share one SystemModule, if looking it up does not come
\* back to that name.
THEOREM SharingCorrect == Spec => []OnePerName
<1>1. ProvidersInv => OnePerName
  BY DEF ProvidersInv, EntryIsTheOne, OnePerName
<1> QED BY <1>1, ProvidersInvariant, PTL

=============================================================================
