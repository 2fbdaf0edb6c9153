-------------------------- MODULE ModuleLifecycle --------------------------
(***************************************************************************)
(* What the library promises of a module brought into a process with       *)
(* load_module: it has pages of its own while it is there, it keeps the    *)
(* modules it uses alive, it is retired only when nobody uses it, and      *)
(* nothing of it is left once it is absent, be it after a failed load or   *)
(* after the last reference to it was dropped.                             *)
(*                                                                         *)
(* A definition introduced by "Mutant:" is the one after it with a bug.    *)
(***************************************************************************)
EXTENDS Integers

CONSTANTS
    Loads,   \* the modules being loaded
    Page,    \* the pages of the process
    Nobody   \* the owner of a free page

ASSUME NobodyAssumption == Nobody \notin Loads

VARIABLES
    phase,   \* where each module is in its life
    space,   \* the module each page belongs to
    uses     \* <<l, m>>: module l holds a reference to module m

lifecycleVars == <<phase, space, uses>>

Phase == {"absent", "loading", "ready", "retiring"}

TypeOK ==
    /\ phase \in [Loads -> Phase]
    /\ space \in [Page -> Loads \cup {Nobody}]
    /\ uses \subseteq Loads \X Loads

PagesOf(l) == {p \in Page : space[p] = l}

Used(m, relation) == \E k \in Loads : <<k, m>> \in relation

Init ==
    /\ phase = [l \in Loads |-> "absent"]
    /\ space = [p \in Page |-> Nobody]
    /\ uses = {}

Begin(l) ==
    /\ phase[l] = "absent"
    /\ phase' = [phase EXCEPT ![l] = "loading"]
    /\ UNCHANGED <<space, uses>>

\* A loading module takes free pages, once.
Claim(l) ==
    /\ phase[l] = "loading"
    /\ PagesOf(l) = {}
    /\ \E pages \in (SUBSET PagesOf(Nobody)) \ {{}} :
          space' = [p \in Page |-> IF p \in pages THEN l ELSE space[p]]
    /\ UNCHANGED <<phase, uses>>

\* Only a module that is ready can be used.
Use(l, m) ==
    /\ phase[l] \in {"loading", "ready"}
    /\ phase[m] = "ready"
    /\ uses' = uses \cup {<<l, m>>}
    /\ UNCHANGED <<phase, space>>

Publish(l) ==
    /\ phase[l] = "loading"
    /\ PagesOf(l) # {}
    /\ phase' = [phase EXCEPT ![l] = "ready"]
    /\ UNCHANGED <<space, uses>>

\* Mutant: a module is retired when the client lets go of it.
RetireUsed(l) ==
    /\ phase[l] = "ready"
    /\ phase' = [phase EXCEPT ![l] = "retiring"]
    /\ UNCHANGED <<space, uses>>

Retire(l) ==
    /\ phase[l] = "ready"
    /\ ~ Used(l, uses)
    /\ phase' = [phase EXCEPT ![l] = "retiring"]
    /\ UNCHANGED <<space, uses>>

\* A module on its way out lets go of another one, which may be retired by it.
Unuse(l, m) ==
    /\ phase[l] \in {"loading", "retiring"}
    /\ <<l, m>> \in uses
    /\ uses' = uses \ {<<l, m>>}
    /\ \/ UNCHANGED phase
       \/ /\ ~ Used(m, uses')
          /\ phase' = [phase EXCEPT ![m] = "retiring"]
    /\ UNCHANGED space

\* A load that failed gives up its pages before it lets go of other modules.
Abandon(l) ==
    /\ phase[l] = "loading"
    /\ PagesOf(l) # {}
    /\ space' = [p \in Page |-> IF space[p] = l THEN Nobody ELSE space[p]]
    /\ UNCHANGED <<phase, uses>>

\* A module that is unloaded gives them up last.
Vacate(l) ==
    /\ phase[l] = "retiring"
    /\ ~ \E m \in Loads : <<l, m>> \in uses
    /\ space' = [p \in Page |-> IF space[p] = l THEN Nobody ELSE space[p]]
    /\ phase' = [phase EXCEPT ![l] = "absent"]
    /\ UNCHANGED uses

\* Mutant: a failed load ends with the modules it imported.
EndEarly(l) ==
    /\ phase[l] = "loading"
    /\ PagesOf(l) = {}
    /\ phase' = [phase EXCEPT ![l] = "absent"]
    /\ UNCHANGED <<space, uses>>

\* Nothing is left of a failed load.
End(l) ==
    /\ phase[l] = "loading"
    /\ PagesOf(l) = {}
    /\ ~ \E m \in Loads : <<l, m>> \in uses
    /\ phase' = [phase EXCEPT ![l] = "absent"]
    /\ UNCHANGED <<space, uses>>

Next ==
    \E l \in Loads :
        \/ Begin(l)
        \/ Claim(l)
        \/ \E m \in Loads : Use(l, m) \/ Unuse(l, m)
        \/ Publish(l)
        \/ Retire(l)
        \/ Abandon(l)
        \/ Vacate(l)
        \/ End(l)

Spec == Init /\ [][Next]_lifecycleVars

-----------------------------------------------------------------------------

\* A module that another one uses is ready to be called: it is neither being
\* retired nor gone (the shared_ptr held by the importer's ModuleCache).
UsedModulesAreReady ==
    \A l, m \in Loads : <<l, m>> \in uses => phase[m] = "ready"

\* Nothing is left behind by a module that is absent.
AbsentLeavesNothing ==
    \A l \in Loads : phase[l] = "absent" =>
        PagesOf(l) = {} /\ ~ \E m \in Loads : <<l, m>> \in uses

=============================================================================
