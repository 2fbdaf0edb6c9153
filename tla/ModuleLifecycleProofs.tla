----------------------- MODULE ModuleLifecycleProofs -----------------------
(***************************************************************************)
(* What a module's life promises to the ones that use it, for any number   *)
(* of modules and pages.  PELoader!ImplementsLifecycle carries it over.    *)
(***************************************************************************)
EXTENDS ModuleLifecycle, TLAPS

IInv == TypeOK /\ UsedModulesAreReady /\ AbsentLeavesNothing

\* Nothing changes for the modules whose phases, uses and pages do not.
LEMMA OthersStay ==
    ASSUME IInv, NEW l \in Loads,
           \A k \in Loads \ {l} : phase'[k] = phase[k] /\ PagesOf(k)' \subseteq PagesOf(k),
           phase'[l] = "absent" => PagesOf(l)' = {} /\ ~ \E m \in Loads : <<l, m>> \in uses',
           uses' = uses
    PROVE  AbsentLeavesNothing'
  BY DEF IInv, AbsentLeavesNothing

LEMMA StepKeepsIInv ==
    ASSUME IInv, [Next]_lifecycleVars
    PROVE  IInv'
  <1> USE NobodyAssumption DEF IInv
  <1>1. ASSUME NEW l \in Loads, Begin(l)
        PROVE  IInv'
    <2>1. TypeOK'
      BY <1>1 DEF TypeOK, Begin, Phase
    <2>2. UsedModulesAreReady'
      BY <1>1 DEF TypeOK, Begin, UsedModulesAreReady
    <2>3. AbsentLeavesNothing'
      BY <1>1 DEF TypeOK, Begin, AbsentLeavesNothing, PagesOf
    <2> QED
      BY <2>1, <2>2, <2>3
  <1>2. ASSUME NEW l \in Loads, Claim(l)
        PROVE  IInv'
    <2> PICK pages \in (SUBSET PagesOf(Nobody)) \ {{}} :
            space' = [p \in Page |-> IF p \in pages THEN l ELSE space[p]]
      BY <1>2 DEF Claim
    <2>1. TypeOK'
      BY <1>2 DEF TypeOK, Claim
    <2>2. UsedModulesAreReady'
      BY <1>2 DEF Claim, UsedModulesAreReady
    <2>3. \A k \in Loads \ {l} : PagesOf(k)' \subseteq PagesOf(k)
      BY DEF PagesOf
    <2>4. AbsentLeavesNothing'
      BY <1>2, <2>3, OthersStay DEF Claim
    <2> QED
      BY <2>1, <2>2, <2>4
  <1>3. ASSUME NEW l \in Loads, NEW m \in Loads, Use(l, m)
        PROVE  IInv'
    <2>1. TypeOK'
      BY <1>3 DEF TypeOK, Use
    <2>2. UsedModulesAreReady'
      BY <1>3 DEF Use, UsedModulesAreReady
    <2>3. AbsentLeavesNothing'
      BY <1>3 DEF Use, AbsentLeavesNothing, PagesOf
    <2> QED
      BY <2>1, <2>2, <2>3
  <1>4. ASSUME NEW l \in Loads, NEW m \in Loads, Unuse(l, m)
        PROVE  IInv'
    <2>1. phase[m] = "ready" /\ l # m
      BY <1>4 DEF Unuse, UsedModulesAreReady
    <2>2. TypeOK'
      BY <1>4 DEF TypeOK, Unuse, Phase
    <2>3. UsedModulesAreReady'
      BY <1>4, <2>1 DEF TypeOK, Unuse, UsedModulesAreReady, Used
    <2>4. AbsentLeavesNothing'
      BY <1>4, <2>1 DEF TypeOK, Unuse, AbsentLeavesNothing, PagesOf
    <2> QED
      BY <2>2, <2>3, <2>4
  <1>5. ASSUME NEW l \in Loads, Publish(l)
        PROVE  IInv'
    <2>1. TypeOK'
      BY <1>5 DEF TypeOK, Publish, Phase
    <2>2. UsedModulesAreReady'
      BY <1>5 DEF TypeOK, Publish, UsedModulesAreReady
    <2>3. AbsentLeavesNothing'
      BY <1>5 DEF TypeOK, Publish, AbsentLeavesNothing, PagesOf
    <2> QED
      BY <2>1, <2>2, <2>3
  <1>6. ASSUME NEW l \in Loads, Retire(l)
        PROVE  IInv'
    <2>1. TypeOK'
      BY <1>6 DEF TypeOK, Retire, Phase
    <2>2. UsedModulesAreReady'
      BY <1>6 DEF TypeOK, Retire, UsedModulesAreReady, Used
    <2>3. AbsentLeavesNothing'
      BY <1>6 DEF TypeOK, Retire, AbsentLeavesNothing, PagesOf
    <2> QED
      BY <2>1, <2>2, <2>3
  <1>7. ASSUME NEW l \in Loads, Abandon(l)
        PROVE  IInv'
    <2>1. TypeOK'
      BY <1>7 DEF TypeOK, Abandon
    <2>2. UsedModulesAreReady'
      BY <1>7 DEF Abandon, UsedModulesAreReady
    <2>3. \A k \in Loads \ {l} : PagesOf(k)' \subseteq PagesOf(k)
      BY <1>7 DEF Abandon, PagesOf
    <2>4. AbsentLeavesNothing'
      BY <1>7, <2>3, OthersStay DEF Abandon
    <2> QED
      BY <2>1, <2>2, <2>4
  <1>8. ASSUME NEW l \in Loads, Vacate(l)
        PROVE  IInv'
    <2>1. TypeOK'
      BY <1>8 DEF TypeOK, Vacate, Phase
    <2>2. UsedModulesAreReady'
      BY <1>8 DEF TypeOK, Vacate, UsedModulesAreReady
    <2>3. /\ \A k \in Loads \ {l} : phase'[k] = phase[k] /\ PagesOf(k)' \subseteq PagesOf(k)
          /\ PagesOf(l)' = {}
      BY <1>8 DEF Vacate, TypeOK, PagesOf
    <2>4. AbsentLeavesNothing'
      BY <1>8, <2>3, OthersStay DEF Vacate
    <2> QED
      BY <2>1, <2>2, <2>4
  <1>9. ASSUME NEW l \in Loads, End(l)
        PROVE  IInv'
    <2>1. TypeOK'
      BY <1>9 DEF TypeOK, End, Phase
    <2>2. UsedModulesAreReady'
      BY <1>9 DEF TypeOK, End, UsedModulesAreReady
    <2>3. AbsentLeavesNothing'
      BY <1>9 DEF TypeOK, End, AbsentLeavesNothing, PagesOf
    <2> QED
      BY <2>1, <2>2, <2>3
  <1>10. CASE UNCHANGED lifecycleVars
    BY <1>10 DEF lifecycleVars, TypeOK, UsedModulesAreReady, AbsentLeavesNothing, PagesOf
  <1> QED
    BY <1>1, <1>2, <1>3, <1>4, <1>5, <1>6, <1>7, <1>8, <1>9, <1>10 DEF Next

LEMMA InitIInv == Init => IInv
  BY NobodyAssumption
     DEF Init, IInv, TypeOK, Phase, UsedModulesAreReady, AbsentLeavesNothing, PagesOf

\* A module that another one uses is ready to be called, and one that is
\* absent has no pages and uses nobody.
THEOREM LifeIsSafe == Spec => [](UsedModulesAreReady /\ AbsentLeavesNothing)
  <1>1. IInv /\ [Next]_lifecycleVars => IInv'
    BY StepKeepsIInv
  <1>2. IInv => UsedModulesAreReady /\ AbsentLeavesNothing
    BY DEF IInv
  <1> QED
    BY InitIInv, <1>1, <1>2, PTL DEF Spec

=============================================================================
