-------------------------- MODULE ModuleProviders --------------------------
(***************************************************************************)
(* Modules of the operating system: system_module_provider with its static *)
(* map of weak references, the provider of the current process, and the    *)
(* handles of the SystemModules both of them make.                         *)
(*                                                                         *)
(* One thread; the map has no lock, so more are undefined behaviour.  But  *)
(* LoadLibraryA runs the DllMain of what it loads, which may look up other *)
(* modules, and so a lookup may find itself further down on its own stack. *)
(*                                                                         *)
(* A definition introduced by "Mutant:" is the one after it with a bug.    *)
(***************************************************************************)
EXTENDS Integers, Sequences, FiniteSets

CONSTANTS
    Names,      \* names of modules
    Objects,    \* storage for SystemModules
    Asks,       \* <<n, m>>: the DllMain of n may look up m
    Absent,     \* no entry, no SystemModule, or the name of neither
    MaxShared,  \* bound: shared_ptrs to one SystemModule
    MaxLost     \* bound: handles lost under one name

ASSUME ProvidersAssumption ==
    /\ Asks \subseteq Names \X Names
    /\ Absent \notin Names \cup Objects
    /\ MaxShared \in Nat \ {0} /\ MaxLost \in Nat

VARIABLES
    handles,   \* the system's reference count of each module
    others,    \* of these, the one the rest of the process has
    weak,      \* module_cache: what the weak_ptr under a name was made from
    name,      \* the module a SystemModule has a handle of
    cached,    \* whether it was made by system_module_provider
    shared,    \* the number of shared_ptrs to it
    lost,      \* handles nobody frees any more, per name
    calls      \* the calls of LoadLibraryA on the stack, the innermost last

vars == <<handles, others, weak, name, cached, shared, lost, calls>>

TypeOK ==
    /\ handles \in [Names -> Nat]
    /\ others \in [Names -> 0 .. 1]
    /\ weak \in [Names -> Objects \cup {Absent}]
    /\ name \in [Objects -> Names \cup {Absent}]
    /\ cached \in [Objects -> BOOLEAN]
    /\ shared \in [Objects -> 0 .. MaxShared]
    /\ lost \in [Names -> 0 .. MaxLost]
    /\ calls \in Seq([of : Names, stage : {"DllMain", "returned"}])

Init ==
    /\ handles = [n \in Names |-> 0]
    /\ others = [n \in Names |-> 0]
    /\ weak = [n \in Names |-> Absent]
    /\ name = [o \in Objects |-> Absent]
    /\ cached = [o \in Objects |-> FALSE]
    /\ shared = [o \in Objects |-> 0]
    /\ lost = [n \in Names |-> 0]
    /\ calls = <<>>

-----------------------------------------------------------------------------

Live == {o \in Objects : shared[o] > 0}

Top == calls[Len(calls)]

\* Code of the client runs: outside of any lookup or in a DllMain.
ClientRuns == calls # <<>> => Top.stage = "DllMain"

\* n is what the code that runs may look up.
MayAsk(n) == calls # <<>> => (Top.stage = "DllMain" /\ <<Top.of, n>> \in Asks)

\* Mutant: an entry of the map is never found again.
LocksNothing(n) == FALSE

\* weak_ptr::lock. The SystemModule may be gone, and its storage in use again
\* by another one: that has a control block of its own.
Locks(n) == weak[n] # Absent

\* get_module finds a SystemModule.
LookupFinds(n) ==
    /\ MayAsk(n) /\ Locks(n)
    /\ shared[weak[n]] < MaxShared
    /\ shared' = [shared EXCEPT ![weak[n]] = @ + 1]
    /\ UNCHANGED <<handles, others, weak, name, cached, lost, calls>>

\* get_module finds none, and calls LoadLibraryA. DllMain runs if the module
\* is not loaded yet; one whose DllMain is running counts as loaded.
LookupLoads(n) ==
    /\ MayAsk(n) /\ ~ Locks(n)
    /\ calls' = Append(calls, [of |-> n,
                   stage |-> IF handles[n] = 0 THEN "DllMain" ELSE "returned"])
    /\ handles' = [handles EXCEPT ![n] = @ + 1]
    /\ UNCHANGED <<others, weak, name, cached, shared, lost>>

Pop == SubSeq(calls, 1, Len(calls) - 1)

DllMainReturns ==
    /\ calls # <<>> /\ Top.stage = "DllMain"
    /\ calls' = [calls EXCEPT ![Len(calls)].stage = "returned"]
    /\ UNCHANGED <<handles, others, weak, name, cached, shared, lost>>

\* LoadLibraryA returns null: there is no such module, or DllMain refused.
\* (If others have a handle by then, what becomes of the module is theirs.)
LoadFails ==
    /\ calls # <<>> /\ Top.stage = "DllMain"
    /\ handles[Top.of] = 1
    /\ handles' = [handles EXCEPT ![Top.of] = 0]
    /\ weak' = [weak EXCEPT ![Top.of] = Absent]
    /\ calls' = Pop
    /\ UNCHANGED <<others, name, cached, shared, lost>>

\* make_shared<SystemModule>, the entry in the map, and the return.
Wrap(o) ==
    /\ calls # <<>> /\ Top.stage = "returned"
    /\ o \notin Live
    /\ name' = [name EXCEPT ![o] = Top.of]
    /\ cached' = [cached EXCEPT ![o] = TRUE]
    /\ shared' = [shared EXCEPT ![o] = 1]
    /\ weak' = [weak EXCEPT ![Top.of] = o]
    /\ calls' = Pop
    /\ UNCHANGED <<handles, others, lost>>

\* make_shared throws: nobody frees the handle.
WrapThrows ==
    /\ calls # <<>> /\ Top.stage = "returned"
    /\ lost[Top.of] < MaxLost
    /\ lost' = [lost EXCEPT ![Top.of] = @ + 1]
    /\ calls' = Pop
    /\ UNCHANGED <<handles, others, weak, name, cached, shared>>

\* Mutant: GET_MODULE_HANDLE_EX_FLAG_UNCHANGED_REFCOUNT.
HandleUncounted(n) == handles

\* GetModuleHandleExA(0, ...)
HandleOf(n) == [handles EXCEPT ![n] = @ + 1]

\* CurrentProcessModuleProvider::get_module, of a module that is loaded.
LookupInProcess(n, o) ==
    /\ MayAsk(n) /\ handles[n] > 0
    /\ o \notin Live
    /\ handles' = HandleOf(n)
    /\ name' = [name EXCEPT ![o] = n]
    /\ cached' = [cached EXCEPT ![o] = FALSE]
    /\ shared' = [shared EXCEPT ![o] = 1]
    /\ UNCHANGED <<others, weak, lost, calls>>

\* The same, and make_shared throws.
LookupInProcessThrows(n) ==
    /\ MayAsk(n) /\ handles[n] > 0
    /\ lost[n] < MaxLost
    /\ handles' = HandleOf(n)
    /\ lost' = [lost EXCEPT ![n] = @ + 1]
    /\ UNCHANGED <<others, weak, name, cached, shared, calls>>

\* Mutant: a moved-from SystemModule frees its handle too.
FreeTwice(o) == [handles EXCEPT ![name[o]] = @ - 2]

\* Mutant: the handle is kept.
FreeNothing(o) == handles

\* ~SystemModule: FreeLibrary
FreeLibrary(o) == [handles EXCEPT ![name[o]] = @ - 1]

\* A shared_ptr goes. With the last one the SystemModule does, and every
\* weak_ptr to it expires.
Drop(o) ==
    /\ ClientRuns /\ o \in Live
    /\ shared' = [shared EXCEPT ![o] = @ - 1]
    /\ IF shared[o] > 1
       THEN UNCHANGED <<handles, name, cached, weak>>
       ELSE /\ handles' = FreeLibrary(o)
            /\ name' = [name EXCEPT ![o] = Absent]
            /\ cached' = [cached EXCEPT ![o] = FALSE]
            /\ weak' = [n \in Names |-> IF weak[n] = o THEN Absent ELSE weak[n]]
    /\ UNCHANGED <<others, lost, calls>>

\* The rest of the process loads a module by itself, or frees it.
OthersLoad(n) ==
    /\ calls = <<>> /\ others[n] = 0
    /\ others' = [others EXCEPT ![n] = 1]
    /\ handles' = [handles EXCEPT ![n] = @ + 1]
    /\ UNCHANGED <<weak, name, cached, shared, lost, calls>>

OthersFree(n) ==
    /\ calls = <<>> /\ others[n] = 1
    /\ others' = [others EXCEPT ![n] = 0]
    /\ handles' = [handles EXCEPT ![n] = @ - 1]
    /\ UNCHANGED <<weak, name, cached, shared, lost, calls>>

Next ==
    \/ \E n \in Names : \/ LookupFinds(n) \/ LookupLoads(n)
                        \/ LookupInProcessThrows(n)
                        \/ OthersLoad(n) \/ OthersFree(n)
                        \/ \E o \in Objects : LookupInProcess(n, o)
    \/ DllMainReturns \/ LoadFails \/ WrapThrows
    \/ \E o \in Objects : Wrap(o) \/ Drop(o)

Spec == Init /\ [][Next]_vars

-----------------------------------------------------------------------------
(* Properties *)

\* The system counts, for each module, one handle for each SystemModule there
\* is, for each lookup that has one it did not wrap yet, and for the rest of
\* the process; beyond these only what failed allocations lost.
HandlesCounted ==
    \A n \in Names :
        handles[n] = Cardinality({o \in Live : name[o] = n})
                     + Cardinality({i \in DOMAIN calls : calls[i].of = n})
                     + others[n] + lost[n]

\* While there is a shared_ptr to a SystemModule, its module stays loaded,
\* whoever else frees it.
HeldIsLoaded == \A o \in Live : handles[name[o]] > 0

\* The DllMain of n, or that of a module looked up meanwhile, may look up m:
\* m is in every set that has what n asks for and what its members ask for.
Reaches(n, m) ==
    \A S \in SUBSET Names :
        (\A p \in Asks : p[1] \in S \cup {n} => p[2] \in S) => m \in S

\* n may be looked up while it is being loaded.
ComesBack(n) == Reaches(n, n)

\* All users of system_module_provider share one SystemModule under a name.
\* Only if the name is looked up again while its module is being loaded is
\* there another one: the inner lookup's, which the outer one overwrites.
OnePerName ==
    \A o, p \in Live :
        cached[o] /\ cached[p] /\ name[o] = name[p] /\ ~ ComesBack(name[o])
            => o = p

=============================================================================
