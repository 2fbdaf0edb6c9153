---------------------------- MODULE SymbolLookup ----------------------------
(***************************************************************************)
(* The symbols of a module: get_data and get_proc, which follow forwarders *)
(* from module to module through their ModuleCaches, and the thunks of a   *)
(* module that is being loaded, which are filled with what its imports     *)
(* answer.  An address stays good as long as something keeps the module it *)
(* is in: a chain of caches, each of which holds the next module.          *)
(*                                                                         *)
(* One thread, as the caches have no lock.  But the ModuleProvider behind  *)
(* them is code of the client, or of a DllMain: while a lookup waits for   *)
(* its answer it may look up symbols, load and drop modules, and ask the   *)
(* very module the lookup began with.                                      *)
(*                                                                         *)
(* PELoader has the loads this module leaves out, on any number of threads *)
(* and without symbols.  A definition introduced by "Mutant:" is the one   *)
(* after it with a bug.                                                    *)
(***************************************************************************)
EXTENDS Integers, Sequences, FiniteSetsExt

CONSTANTS
    Modules,    \* modules that are ever made, each of them once
    Names,      \* module names, as import descriptors and forwarders use them
    Symbols,    \* names of symbols
    Exports,    \* what the export directory of a module says of a symbol
    Imports,    \* the import entries of a module, in order: <<name, symbol>>
    Serves,     \* <<n, m>>: a provider asked for n may answer with m
    Null,       \* the null pointer
    Absent,     \* the ModuleCache has no entry under this name
    Unasked,    \* the client did not ask for this symbol
    MaxNested,  \* bound: providers that are being asked at one time
    MaxCalls    \* bound: calls on the stack

\* A forwarder without a dot is as good as no entry.
Export == [kind : {"own", "none"}]
          \cup [kind : {"forwarder"}, name : Names, symbol : Symbols]

ASSUME LookupAssumption ==
    /\ Exports \in [Modules -> [Symbols -> Export]]
    /\ Imports \in [Modules -> Seq(Names \X Symbols)]
    /\ Serves \subseteq Names \X Modules
    /\ {Null, Absent, Unasked} \cap Modules = {}
    /\ {Null, Absent, Unasked} \cap (Modules \X Symbols) = {}
    /\ Null # Absent /\ Null # Unasked
    /\ MaxNested \in Nat /\ MaxCalls \in Nat

VARIABLES
    life,      \* of each module
    held,      \* the client has a shared_ptr to it
    cache,     \* _module_entries of its ModuleCache
    thunks,    \* the thunks that were written, in the order of Imports
    calls,     \* the calls on the stack, the innermost last
    answers,   \* what the client was last told of each symbol of a module
    reentered  \* a cache asked for a name while it was waiting for that name

vars == <<life, held, cache, thunks, calls, answers, reentered>>

Address == Modules \X Symbols

\* find_symbol; ModuleCache::get_module, waiting for its provider, or about to
\* return this module to the call below; resolve_pe_image_imports.
Call == [op : {"find"}, of : Modules, symbol : Symbols]
        \cup [op : {"provide"}, of : Modules, name : Names]
        \cup [op : {"given"}, of : Modules \cup {Null}]
        \cup [op : {"load"}, of : Modules]

TypeOK ==
    /\ life \in [Modules -> {"new", "loading", "loaded", "gone"}]
    /\ held \in [Modules -> BOOLEAN]
    /\ cache \in [Modules -> [Names -> Modules \cup {Null, Absent}]]
    /\ thunks \in [Modules -> Seq(Address)]
    /\ calls \in Seq(Call) /\ Len(calls) <= MaxCalls
    /\ answers \in [Modules -> [Symbols -> Address \cup {Null, Unasked}]]
    /\ reentered \in BOOLEAN

NoEntries == [n \in Names |-> Absent]

NotAsked == [s \in Symbols |-> Unasked]

Init ==
    /\ life = [m \in Modules |-> "new"]
    /\ held = [m \in Modules |-> FALSE]
    /\ cache = [m \in Modules |-> NoEntries]
    /\ thunks = [m \in Modules |-> <<>>]
    /\ calls = <<>>
    /\ answers = [m \in Modules |-> NotAsked]
    /\ reentered = FALSE

-----------------------------------------------------------------------------
(* The stack *)

Top == calls[Len(calls)]

Below(i) == SubSeq(calls, 1, i)

\* The innermost call that is none of the given operations, by its place.
InnermostBut(ops, depth) ==
    Max({0} \cup {i \in 1 .. depth : calls[i].op \notin ops})

Enter(call) ==
    /\ Len(calls) < MaxCalls
    /\ calls' = Append(calls, call)

\* Mutant: the caches hold their modules by weak_ptr.
WeaklyReferenced(m) == held[m] \/ \E i \in DOMAIN calls : calls[i].of = m

\* A shared_ptr to m exists: the client's, one in a cache, or the local
\* variable on which a call that runs was made.
Referenced(m) ==
    \/ held[m]
    \/ \E k \in Modules, n \in Names : cache[k][n] = m
    \/ \E i \in DOMAIN calls : calls[i].of = m

\* No destructor is due.
Settled == \A m \in Modules : life[m] = "loaded" => Referenced(m)

Runs(op) == Settled /\ calls # <<>> /\ Top.op = op

\* Code of the client runs: outside of any call, or asked as a provider.
ClientRuns == Settled /\ (calls # <<>> => Top.op = "provide")

-----------------------------------------------------------------------------
(* ModuleCache::get_module *)

\* Mutant: a module that was not found is asked for again.
FoundBefore(m, n) == cache[m][n] \in Modules

InCache(m, n) == cache[m][n] # Absent

\* What get_module does for module m: return what it has under this name, or
\* ask its provider.
GetModule(m, n) ==
    IF InCache(m, n) THEN [op |-> "given", of |-> cache[m][n]]
                     ELSE [op |-> "provide", of |-> m, name |-> n]

AskForModule(m, n) ==
    LET call == GetModule(m, n) IN
    /\ Enter(call)
    /\ reentered' = (reentered \/ \E i \in DOMAIN calls :
                                     calls[i] = call /\ call.op = "provide")
    /\ UNCHANGED <<life, held, cache, thunks, answers>>

ProviderAnswers(x) ==
    LET m == Top.of
        n == Top.name
    IN  /\ Runs("provide")
        /\ IF x = Null THEN TRUE ELSE <<n, x>> \in Serves /\ life[x] = "loaded"
        /\ cache' = [cache EXCEPT ![m][n] = x]
        /\ calls' = Append(Below(Len(calls) - 1), [op |-> "given", of |-> x])
        /\ UNCHANGED <<life, held, thunks, answers, reentered>>

-----------------------------------------------------------------------------
(* How calls end *)

\* These modules go, and with them their memory and their caches; what was told
\* of their symbols is of no use to anybody.
Gone(ms) ==
    /\ life' = [m \in Modules |-> IF m \in ms THEN "gone" ELSE life[m]]
    /\ cache' = [m \in Modules |-> IF m \in ms THEN NoEntries ELSE cache[m]]
    /\ thunks' = [m \in Modules |-> IF m \in ms THEN <<>> ELSE thunks[m]]
    /\ answers' = [m \in Modules |-> IF m \in ms THEN NotAsked ELSE answers[m]]

\* An exception leaves the calls above this depth, and takes along what was
\* being loaded there.
Unwind(depth) ==
    LET failed == {m \in Modules : \E i \in depth + 1 .. Len(calls) :
                       calls[i] = [op |-> "load", of |-> m]}
    IN  /\ calls' = Below(depth)
        /\ Gone(failed)
        /\ UNCHANGED <<held, reentered>>

\* The calls of find_symbol return, one through the other, to the client.
ReturnToClient(depth, result) ==
    LET asked == calls[depth + 1] IN
    /\ calls' = Below(depth)
    /\ answers' = [answers EXCEPT ![asked.of][asked.symbol] = result]
    /\ UNCHANGED <<life, held, cache, thunks, reentered>>

\* Mutant: the thunk is written whatever the address is.
WriteThunk(depth, result) ==
    LET m == calls[depth].of IN
    /\ calls' = Below(depth)
    /\ thunks' = [thunks EXCEPT ![m] = Append(@, result)]
    /\ UNCHANGED <<life, held, cache, answers, reentered>>

\* They return to the load of m: "Image has unresolved imports", or the thunk
\* is written.
ReturnToLoad(depth, result) ==
    LET m == calls[depth].of IN
    IF result = Null
    THEN Unwind(depth - 1)
    ELSE /\ calls' = Below(depth)
         /\ thunks' = [thunks EXCEPT ![m] = Append(@, result)]
         /\ UNCHANGED <<life, held, cache, answers, reentered>>

\* find_symbol, and the ones that forwarded to it, have this result.
Return(result) ==
    LET depth == InnermostBut({"find", "given"}, Len(calls)) IN
    IF depth > 0 /\ calls[depth].op = "load"
    THEN ReturnToLoad(depth, result)
    ELSE ReturnToClient(depth, result)

\* An exception of the provider ends the call of the client that it came from.
ProviderThrows ==
    /\ Runs("provide")
    /\ Unwind(InnermostBut({"find", "load"}, Len(calls) - 1))

-----------------------------------------------------------------------------
(* find_symbol, and resolve_pe_image_imports, which is like it *)

Entry(call) == Exports[call.of][call.symbol]

FindOwn ==
    /\ Runs("find") /\ Entry(Top).kind = "own"
    /\ Return(<<Top.of, Top.symbol>>)

FindNothing ==
    /\ Runs("find") /\ Entry(Top).kind = "none"
    /\ Return(Null)

FindForwarded ==
    /\ Runs("find") /\ Entry(Top).kind = "forwarder"
    /\ AskForModule(Top.of, Entry(Top).name)

\* Each entry asks for its module anew; the code does once for a descriptor,
\* and nobody else has this cache yet.
NextImport(m) == Imports[m][Len(thunks[m]) + 1]

ImportsLeft(m) == Len(thunks[m]) < Len(Imports[m])

LoadImport ==
    /\ Runs("load") /\ ImportsLeft(Top.of)
    /\ AskForModule(Top.of, NextImport(Top.of)[1])

\* The symbol the call that asked for a module now looks up in it.
WantedSymbol(call) ==
    IF call.op = "find" THEN Entry(call).symbol ELSE NextImport(call.of)[2]

\* Mutant: the symbol is looked up in the module that forwards it.
LookUpHere(caller) == [op |-> "find", of |-> caller.of, symbol |-> WantedSymbol(caller)]

LookUpThere(caller) == [op |-> "find", of |-> Top.of, symbol |-> WantedSymbol(caller)]

ModuleGiven ==
    /\ Runs("given")
    /\ IF Top.of = Null
       THEN Return(Null)
       ELSE /\ calls' = Append(Below(Len(calls) - 1), LookUpThere(calls[Len(calls) - 1]))
            /\ UNCHANGED <<life, held, cache, thunks, answers, reentered>>

\* Mutant: the module is given a new cache, and not the one its imports were
\* looked up with.
LoadDoneAfresh ==
    /\ Runs("load") /\ ~ImportsLeft(Top.of)
    /\ life' = [life EXCEPT ![Top.of] = "loaded"]
    /\ held' = [held EXCEPT ![Top.of] = TRUE]
    /\ cache' = [cache EXCEPT ![Top.of] = NoEntries]
    /\ calls' = Below(Len(calls) - 1)
    /\ UNCHANGED <<thunks, answers, reentered>>

\* The module goes to the client, and its cache goes with it.
LoadDone ==
    /\ Runs("load") /\ ~ImportsLeft(Top.of)
    /\ life' = [life EXCEPT ![Top.of] = "loaded"]
    /\ held' = [held EXCEPT ![Top.of] = TRUE]
    /\ calls' = Below(Len(calls) - 1)
    /\ UNCHANGED <<cache, thunks, answers, reentered>>

-----------------------------------------------------------------------------
(* The client, and the end of a module *)

Nested == Cardinality({i \in DOMAIN calls : calls[i].op = "provide"})

Ask(m, s) ==
    /\ ClientRuns /\ Nested < MaxNested
    /\ held[m]
    /\ Enter([op |-> "find", of |-> m, symbol |-> s])
    /\ UNCHANGED <<life, held, cache, thunks, answers, reentered>>

Load(m) ==
    /\ ClientRuns /\ Nested < MaxNested
    /\ life[m] = "new"
    /\ life' = [life EXCEPT ![m] = "loading"]
    /\ Enter([op |-> "load", of |-> m])
    /\ UNCHANGED <<held, cache, thunks, answers, reentered>>

Drop(m) ==
    /\ ClientRuns
    /\ held[m]
    /\ held' = [held EXCEPT ![m] = FALSE]
    /\ UNCHANGED <<life, cache, thunks, calls, answers, reentered>>

\* The last shared_ptr went: the destructor, which gives up the module's cache.
Destroy(m) ==
    /\ life[m] = "loaded"
    /\ ~Referenced(m)
    /\ Gone({m})
    /\ UNCHANGED <<held, calls, reentered>>

Lookup == FindOwn \/ FindNothing \/ FindForwarded \/ ModuleGiven

Import == LoadImport \/ LoadDone

ProviderReturns ==
    \/ \E x \in Modules \cup {Null} : ProviderAnswers(x)
    \/ ProviderThrows

Next ==
    \/ Lookup \/ Import \/ ProviderReturns
    \/ \E m \in Modules : Load(m) \/ Drop(m) \/ Destroy(m)
    \/ \E m \in Modules, s \in Symbols : Ask(m, s)

\* The library's code runs on.  A provider may do as it likes for a while, and
\* call back as often as it likes, but every one of its calls does return.
Fairness ==
    /\ WF_vars(Lookup \/ Import \/ \E m \in Modules : Destroy(m))
    /\ \A k \in 1 .. MaxNested : SF_vars(Nested = k /\ ProviderReturns)

Spec == Init /\ [][Next]_vars /\ Fairness

-----------------------------------------------------------------------------
(* Properties *)

\* The address a client was told for a symbol of a module is in a module that
\* is still loaded, however far the forwarders went and whatever was dropped
\* since; unless a lookup came back to a cache that was waiting for the same
\* name, which makes the cache forget the first of the two modules.
AnswersLive ==
    \A m \in Modules, s \in Symbols :
        (~reentered /\ answers[m][s] \in Address)
            => life[answers[m][s][1]] = "loaded"

\* Every thunk that was written points into a loaded module, from the moment
\* it is written until the module it belongs to is gone.
ThunksLive ==
    ~reentered => \A m \in Modules : \A i \in DOMAIN thunks[m] :
                     life[thunks[m][i][1]] = "loaded"

\* A symbol that was looked up twice has the same address both times; and one
\* that was not found is not found later either, though its forwarder's module
\* could be loaded by now, unless the name was asked for again within.
AnswersStay ==
    [][\A m \in Modules, s \in Symbols :
        (answers[m][s] # Unasked /\ life'[m] # "gone" /\ ~reentered')
            => answers'[m][s] = answers[m][s]]_vars

\* Every lookup and every load comes to its end: forwarders are followed to the
\* last, or something throws.
CallsEnd == calls # <<>> ~> calls = <<>>

=============================================================================
