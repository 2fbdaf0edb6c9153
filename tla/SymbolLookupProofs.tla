------------------------ MODULE SymbolLookupProofs ------------------------
(***************************************************************************)
(* Proofs about SymbolLookup: what a symbol was answered with and what a   *)
(* thunk points to is in a loaded module, for all modules, forwarders and  *)
(* providers, unless a lookup came back to a cache that waits.             *)
(*                                                                         *)
(* The argument is about chains of caches.  An address is in a module that *)
(* the one that was asked reaches; every cache on the way has a reference  *)
(* of the next module, so that no destructor is due; and entries are never *)
(* replaced.                                                               *)
(***************************************************************************)
EXTENDS SymbolLookup, WellFoundedInduction, TLAPS

\* A set of modules that has what the cache of m and those of its members have.
Closed(S, m) ==
    \A k \in S \cup {m}, n \in Names : cache[k][n] \in Modules => cache[k][n] \in S

\* A chain of caches leads from m to t: t is in every such set.
Reaches(m, t) == \A S \in SUBSET Modules : Closed(S, m) => t \in S

\* What is above what on the stack.
StackShape ==
    \A i \in DOMAIN calls :
        /\ calls[i].op = "given" => i = Len(calls)
        /\ calls[i].op \in {"provide", "given"} =>
               i > 1 /\ calls[i - 1].op \in {"find", "load"}
        /\ calls[i].op = "provide" => calls[i].of = calls[i - 1].of
        /\ calls[i].op = "load" /\ i > 1 => calls[i - 1].op = "provide"
        /\ calls[i].op = "find" /\ i < Len(calls) =>
               Entry(calls[i]).kind = "forwarder"
        /\ calls[i].op = "load" /\ i < Len(calls) => ImportsLeft(calls[i].of)

\* What the client or a cache has is loaded, and modules that are not have been
\* told nothing.
OwnersLive ==
    /\ \A m \in Modules : held[m] => life[m] = "loaded"
    /\ \A k \in Modules, n \in Names :
           cache[k][n] \in Modules => life[cache[k][n]] = "loaded"
    /\ \A m \in Modules, s \in Symbols :
           answers[m][s] # Unasked => life[m] = "loaded"
    /\ \A m \in Modules : thunks[m] # <<>> => life[m] \in {"loading", "loaded"}

\* What a lookup is in is loaded, and what is being loaded is so by one call.
CallsLive ==
    \A i \in DOMAIN calls :
        /\ calls[i].op \in {"find", "given"} /\ calls[i].of # Null =>
               life[calls[i].of] = "loaded"
        /\ calls[i].op = "load" =>
               /\ life[calls[i].of] = "loading"
               /\ \A j \in DOMAIN calls : calls[j] = calls[i] => j = i

\* A cache that waits for a name waits for it once, and has nothing under it.
WaitsOnce ==
    \A i \in DOMAIN calls :
        calls[i].op = "provide" =>
            /\ cache[calls[i].of][calls[i].name] = Absent
            /\ \A j \in DOMAIN calls : calls[j] = calls[i] => j = i

\* A call that looks up on behalf of another does so in a module the other's
\* reaches.
StackReaches ==
    \A i, j \in DOMAIN calls :
        /\ i < j /\ calls[i].op \in {"find", "load"} /\ calls[j].of # Null
        /\ \A k \in i + 1 .. j : calls[k].op \in {"find", "given"}
        => Reaches(calls[i].of, calls[j].of)

\* What was answered is in the module itself or one it reaches.
AnswersReached ==
    \A m \in Modules, s \in Symbols :
        answers[m][s] \in Address =>
            answers[m][s][1] = m \/ Reaches(m, answers[m][s][1])

\* And so is what a thunk points to, in another one.
ThunksReached ==
    \A m \in Modules : \A i \in DOMAIN thunks[m] : Reaches(m, thunks[m][i][1])

\* The inductive invariant.  Once a cache was asked for a name while it waited
\* for that name, a chain may be broken.
LookupInv ==
    /\ TypeOK /\ StackShape /\ OwnersLive /\ CallsLive
    /\ ~reentered => WaitsOnce /\ StackReaches /\ AnswersReached /\ ThunksReached

-----------------------------------------------------------------------------
(* Chains of caches *)

LEMMA EntryIsReached ==
    ASSUME NEW m \in Modules, NEW n \in Names, cache[m][n] \in Modules
    PROVE  Reaches(m, cache[m][n])
BY DEF Reaches, Closed

LEMMA ReachedFurther ==
    ASSUME NEW m \in Modules, NEW k \in Modules, NEW t \in Modules,
           Reaches(m, k), Reaches(k, t)
    PROVE  Reaches(m, t)
<1> SUFFICES ASSUME NEW S \in SUBSET Modules, Closed(S, m)
             PROVE  t \in S
  BY DEF Reaches
<1>1. k \in S
  BY DEF Reaches
<1>2. Closed(S, k)
  BY <1>1 DEF Closed
<1> QED BY <1>2 DEF Reaches

\* The same after a step.
LEMMA EntryNext ==
    ASSUME NEW m \in Modules, NEW n \in Names, NEW t \in Modules, cache'[m][n] = t
    PROVE  Reaches(m, t)'
BY DEF Reaches, Closed

LEMMA FurtherNext ==
    ASSUME NEW m \in Modules, NEW k \in Modules, NEW t \in Modules
    PROVE  (Reaches(m, k) /\ Reaches(k, t) => Reaches(m, t))'
<1>1. Reaches(m, k) /\ Reaches(k, t) => Reaches(m, t)
  BY ReachedFurther
<1> QED BY <1>1, PTL

\* What is reached is loaded: what caches have is.
LEMMA ReachedIsLoaded ==
    ASSUME OwnersLive, NEW m \in Modules, NEW t \in Modules, Reaches(m, t)
    PROVE  life[t] = "loaded"
<1> DEFINE S == {k \in Modules : life[k] = "loaded"}
<1>1. Closed(S, m)
  BY DEF Closed, OwnersLive
<1> QED BY <1>1 DEF Reaches

\* Chains stay when entries are added,
LEMMA ReachedStays ==
    ASSUME NEW m \in Modules, NEW t \in Modules, Reaches(m, t),
           \A k \in Modules, n \in Names :
               cache[k][n] \in Modules => cache'[k][n] = cache[k][n]
    PROVE  Reaches(m, t)'
<1> SUFFICES ASSUME NEW S \in SUBSET Modules, Closed(S, m)'
             PROVE  t \in S
  BY DEF Reaches
<1>1. Closed(S, m)
  BY DEF Closed
<1> QED BY <1>1 DEF Reaches

\* and when modules go that no cache has.
LEMMA ReachedSurvives ==
    ASSUME NEW m \in Modules, NEW t \in Modules, Reaches(m, t),
           NEW ms \in SUBSET Modules, m \notin ms,
           \A k \in Modules, n \in Names : cache[k][n] \notin ms,
           \A k \in Modules : k \notin ms => cache'[k] = cache[k]
    PROVE  Reaches(m, t)'
<1> SUFFICES ASSUME NEW S \in SUBSET Modules, Closed(S, m)'
             PROVE  t \in S
  BY DEF Reaches
<1>1. Closed(S \ ms, m)
  BY DEF Closed
<1> QED BY <1>1 DEF Reaches

-----------------------------------------------------------------------------
(* The stack *)

\* What the fields of a call are.
LEMMA CallFields ==
    ASSUME NEW c \in Call
    PROVE  /\ c.op \in {"find", "provide", "given", "load"}
           /\ c.op = "find" => c.of \in Modules /\ c.symbol \in Symbols
           /\ c.op = "provide" =>
                 /\ c.of \in Modules /\ c.name \in Names
                 /\ c = [op |-> "provide", of |-> c.of, name |-> c.name]
           /\ c.op = "given" => c.of \in Modules \cup {Null}
           /\ c.op = "load" =>
                 c.of \in Modules /\ c = [op |-> "load", of |-> c.of]
BY DEF Call

LEMMA CallsMade ==
    /\ \A m \in Modules, s \in Symbols : [op |-> "find", of |-> m, symbol |-> s] \in Call
    /\ \A m \in Modules, n \in Names : [op |-> "provide", of |-> m, name |-> n] \in Call
    /\ \A x \in Modules \cup {Null} : [op |-> "given", of |-> x] \in Call
    /\ \A m \in Modules : [op |-> "load", of |-> m] \in Call
BY DEF Call

\* The stack is a sequence of calls,
LEMMA StackTyped ==
    ASSUME calls \in Seq(Call)
    PROVE  /\ Len(calls) \in Nat /\ DOMAIN calls = 1 .. Len(calls)
           /\ \A i \in DOMAIN calls : calls[i] \in Call
           /\ calls # <<>> => Len(calls) > 0 /\ Len(calls) \in DOMAIN calls
           /\ Len(calls) > 0 => calls # <<>>
OBVIOUS

\* and stays one when it is cut,
LEMMA StackCut ==
    ASSUME calls \in Seq(Call), NEW d \in 0 .. Len(calls)
    PROVE  /\ Below(d) \in Seq(Call) /\ Len(Below(d)) = d
           /\ DOMAIN Below(d) = 1 .. d
           /\ \A i \in 1 .. d : Below(d)[i] = calls[i]
BY DEF Below

\* or a call is put on it.
LEMMA StackPushed ==
    ASSUME NEW s \in Seq(Call), NEW c \in Call
    PROVE  /\ Append(s, c) \in Seq(Call) /\ Len(Append(s, c)) = Len(s) + 1
           /\ DOMAIN Append(s, c) = 1 .. Len(s) + 1
           /\ \A i \in 1 .. Len(s) : Append(s, c)[i] = s[i]
           /\ Append(s, c)[Len(s) + 1] = c
OBVIOUS

\* What appending to a sequence does.
LEMMA Appended ==
    ASSUME NEW S, NEW q \in Seq(S), NEW e \in S
    PROVE  /\ DOMAIN Append(q, e) = 1 .. Len(q) + 1
           /\ DOMAIN q = 1 .. Len(q) /\ Len(q) \in Nat
           /\ \A i \in 1 .. Len(q) + 1 : i \in 1 .. Len(q) \/ i = Len(q) + 1
           /\ \A i \in 1 .. Len(q) : Append(q, e)[i] = q[i]
           /\ Append(q, e)[Len(q) + 1] = e
OBVIOUS

\* A set of numbers up to n has a greatest one.
LEMMA GreatestOne ==
    ASSUME NEW n \in Nat, NEW S \in SUBSET (0 .. n), S # {}
    PROVE  Max(S) \in S /\ \A x \in S : x <= Max(S)
<1> DEFINE T == {x \in Nat : n - x \in S}
<1>1. T \subseteq Nat /\ T # {}
  <2>1. PICK y \in S : TRUE
    OBVIOUS
  <2>2. n - y \in T
    <3>1. y \in Int /\ 0 <= y /\ y <= n /\ n - (n - y) = y
      BY <2>1
    <3> QED BY <2>1, <3>1
  <2> QED BY <2>2
<1>2. PICK x \in T : \A y \in T : ~(<<y, x>> \in OpToRel(<, Nat))
  BY <1>1, NatLessThanWellFounded, WFMin
<1>3. \A y \in T : ~(y < x)
  BY <1>1, <1>2 DEF OpToRel
<1>4. n - x \in S /\ x \in Nat
  BY <1>2
<1>5. ASSUME NEW y \in S
      PROVE  y <= n - x
  <2>1. y \in Int /\ 0 <= y /\ y <= n /\ n - (n - y) = y
    OBVIOUS
  <2>2. n - y \in T
    BY <2>1
  <2>3. x \in Int
    BY <1>4
  <2> HIDE DEF T
  <2> QED BY <1>3, <2>1, <2>2, <2>3
<1> HIDE DEF T
<1>6. \E m \in S : \A y \in S : m >= y
  <2>1. \A y \in S : y \in Int /\ (n - x) \in Int
    BY <1>4
  <2> QED BY <1>4, <1>5, <2>1
<1>7. Max(S) \in S /\ \A y \in S : Max(S) >= y
  BY <1>6 DEF Max
<1> QED BY <1>7

-----------------------------------------------------------------------------
(* The kinds of steps *)

\* What the innermost call has to say to the ones below.
IsResult(r) ==
    \/ Top.op = "find" /\ Entry(Top).kind = "own" /\ r = <<Top.of, Top.symbol>>
    \/ Top.op = "find" /\ Entry(Top).kind = "none" /\ r = Null
    \/ Top.op = "given" /\ Top.of = Null /\ r = Null

\* The calls above depth d are find_symbol, each for the one below.
OneLookup(d) ==
    /\ d \in 0 .. Len(calls) - 1
    /\ \A k \in d + 1 .. Len(calls) : calls[k].op \in {"find", "given"}

Asking(n) ==
    /\ calls # <<>> /\ Top.op \in {"find", "load"}
    /\ Top.op = "find" => Entry(Top).kind = "forwarder" /\ n = Entry(Top).name
    /\ Top.op = "load" => ImportsLeft(Top.of) /\ n = NextImport(Top.of)[1]
    /\ AskForModule(Top.of, n)

Continuing ==
    /\ calls # <<>> /\ Top.op = "given" /\ Top.of # Null
    /\ calls' = Append(Below(Len(calls) - 1), LookUpThere(calls[Len(calls) - 1]))
    /\ UNCHANGED <<life, held, cache, thunks, answers, reentered>>

Answering(d, r) ==
    /\ OneLookup(d) /\ IsResult(r)
    /\ d > 0 => calls[d].op = "provide"
    /\ calls[d + 1].op = "find"
    /\ ReturnToClient(d, r)

Importing(d, r) ==
    /\ OneLookup(d) /\ IsResult(r) /\ r # Null
    /\ d > 0 /\ calls[d].op = "load"
    /\ ReturnToLoad(d, r)

Throwing(d) == d \in 0 .. Len(calls) /\ Unwind(d)

\* What an export directory and import descriptors have in them.
LEMMA EntryTyped ==
    ASSUME NEW c \in Call, c.op = "find"
    PROVE  /\ Entry(c) \in Export
           /\ Entry(c).kind \in {"own", "none", "forwarder"}
           /\ Entry(c).kind = "forwarder" =>
                  Entry(c).name \in Names /\ Entry(c).symbol \in Symbols
<1>1. c.of \in Modules /\ c.symbol \in Symbols
  BY CallFields
<1>2. Entry(c) \in Export
  BY <1>1, LookupAssumption DEF Entry
<1>3. ASSUME NEW e \in Export
      PROVE  /\ e.kind \in {"own", "none", "forwarder"}
             /\ e.kind = "forwarder" => e.name \in Names /\ e.symbol \in Symbols
  BY DEF Export
<1> QED BY <1>2, <1>3

LEMMA ImportTyped ==
    ASSUME TypeOK, NEW m \in Modules, ImportsLeft(m)
    PROVE  NextImport(m)[1] \in Names /\ NextImport(m)[2] \in Symbols
<1>1. Imports[m] \in Seq(Names \X Symbols) /\ Len(thunks[m]) \in Nat
  BY LookupAssumption DEF TypeOK
<1>2. Len(thunks[m]) + 1 \in 1 .. Len(Imports[m])
  BY <1>1 DEF ImportsLeft
<1>3. NextImport(m) \in Names \X Symbols
  BY <1>1, <1>2 DEF NextImport
<1> QED BY <1>3

\* Where InnermostBut finds its call.
LEMMA Innermost ==
    ASSUME calls \in Seq(Call), NEW n \in 0 .. Len(calls), NEW ops
    PROVE  LET d == InnermostBut(ops, n)
           IN  /\ d \in 0 .. n
               /\ d > 0 => calls[d].op \notin ops
               /\ \A k \in d + 1 .. n : calls[k].op \in ops
<1> DEFINE S == {0} \cup {i \in 1 .. n : calls[i].op \notin ops}
           d == Max(S)
<1>1. n \in Nat
  BY StackTyped
<1>2. S \subseteq 0 .. n /\ S # {}
  BY <1>1
<1>3. d \in S /\ \A x \in S : x <= d
  <2> HIDE DEF S
  <2> QED BY <1>1, <1>2, GreatestOne
<1> HIDE DEF d
<1>4. d \in 0 .. n /\ (d > 0 => calls[d].op \notin ops)
  BY <1>1, <1>3
<1>5. ASSUME NEW k \in d + 1 .. n
      PROVE  calls[k].op \in ops
  <2>1. k \in 1 .. n /\ ~(k <= d)
    BY <1>1, <1>4
  <2> QED BY <1>3, <2>1
<1> QED BY <1>4, <1>5 DEF d, InnermostBut

\* find_symbol returns to the client, or to a load.
LEMMA Returns ==
    ASSUME calls \in Seq(Call), StackShape, calls # <<>>,
           NEW r \in Address \cup {Null}, IsResult(r), Return(r)
    PROVE  \/ \E d \in Nat : Answering(d, r) \/ Importing(d, r)
           \/ \E d \in Nat : Throwing(d)
<1> DEFINE L == Len(calls)
           d == InnermostBut({"find", "given"}, L)
<1>1. L \in Nat /\ L > 0 /\ L \in DOMAIN calls /\ DOMAIN calls = 1 .. L
  BY StackTyped
<1>2. /\ d \in 0 .. L
      /\ d > 0 => calls[d].op \notin {"find", "given"}
      /\ \A k \in d + 1 .. L : calls[k].op \in {"find", "given"}
  BY <1>1, Innermost
<1>3. Top.op \in {"find", "given"} /\ Top = calls[L]
  BY DEF IsResult, Top
<1> HIDE DEF d
<1>4. d # L
  BY <1>1, <1>2, <1>3
<1>5. OneLookup(d) /\ d \in Nat /\ d + 1 \in 1 .. L
  <2> HIDE DEF L
  <2>1. d \in Nat /\ d \in 0 .. L - 1 /\ d + 1 \in 1 .. L
    BY <1>1, <1>2, <1>4
  <2> QED BY <1>2, <2>1 DEF OneLookup, L
<1>6. CASE d > 0 /\ calls[d].op = "load"
  <2>1. ReturnToLoad(d, r)
    BY <1>6 DEF Return, d
  <2>2. CASE r = Null
    <3>1. Unwind(d - 1) /\ d - 1 \in Nat /\ d - 1 \in 0 .. L
      BY <1>1, <1>5, <1>6, <2>1, <2>2 DEF ReturnToLoad
    <3> QED BY <3>1 DEF Throwing
  <2>3. CASE r # Null
    BY <1>5, <1>6, <2>1, <2>3 DEF Importing
  <2> QED BY <2>2, <2>3
<1>7. CASE ~(d > 0 /\ calls[d].op = "load")
  <2>1. ReturnToClient(d, r)
    BY <1>7 DEF Return, d
  <2>2. d > 0 => calls[d].op = "provide"
    <3>1. d > 0 => calls[d] \in Call
      BY <1>1, <1>5, StackTyped
    <3> QED BY <1>2, <1>7, <3>1, CallFields
  <2>3. calls[d + 1].op = "find"
    <3>1. calls[d + 1].op \in {"find", "given"}
      BY <1>2, <1>5, <1>1
    <3>2. ASSUME calls[d + 1].op = "given"
          PROVE  FALSE
      <4>1. d + 1 > 1 /\ calls[(d + 1) - 1].op \in {"find", "load"}
        BY <1>1, <1>5, <3>2 DEF StackShape
      <4>2. d > 0 /\ (d + 1) - 1 = d
        BY <1>5, <4>1
      <4> QED BY <2>2, <4>1, <4>2
    <3> QED BY <3>1, <3>2
  <2> QED BY <1>5, <2>1, <2>2, <2>3 DEF Answering
<1> QED BY <1>6, <1>7

\* Every step is of one of these kinds.
LEMMA StepKinds ==
    ASSUME LookupInv, Next
    PROVE  \/ \E n \in Names : Asking(n)
           \/ Continuing
           \/ \E d \in Nat, r \in Address \cup {Null} : Answering(d, r) \/ Importing(d, r)
           \/ \E d \in Nat : Throwing(d)
           \/ \E x \in Modules \cup {Null} : ProviderAnswers(x)
           \/ LoadDone
           \/ \E m \in Modules : Load(m) \/ Drop(m) \/ Destroy(m)
           \/ \E m \in Modules, s \in Symbols : Ask(m, s)
<1>a. calls \in Seq(Call) /\ StackShape /\ TypeOK
  BY DEF LookupInv, TypeOK
<1>b. calls # <<>> => Top \in Call /\ Len(calls) \in Nat \ {0}
  BY <1>a, StackTyped DEF Top
<1>1. CASE FindOwn
  <2>1. <<Top.of, Top.symbol>> \in Address
    BY <1>1, <1>b, CallFields DEF FindOwn, Runs, Address
  <2> QED BY <1>1, <1>a, <2>1, Returns DEF FindOwn, Runs, IsResult
<1>2. CASE FindNothing
  BY <1>2, <1>a, Returns DEF FindNothing, Runs, IsResult
<1>3. CASE FindForwarded
  BY <1>3, <1>b, EntryTyped DEF FindForwarded, Runs, Asking
<1>4. CASE ModuleGiven
  <2>1. CASE Top.of = Null
    BY <1>4, <2>1, <1>a, Returns DEF ModuleGiven, Runs, IsResult
  <2>2. CASE Top.of # Null
    BY <1>4, <2>2 DEF ModuleGiven, Runs, Continuing
  <2> QED BY <2>1, <2>2
<1>5. CASE LoadImport
  <2>1. Top.of \in Modules
    BY <1>5, <1>b, CallFields DEF LoadImport, Runs
  <2>2. NextImport(Top.of)[1] \in Names
    BY <1>5, <1>a, <2>1, ImportTyped DEF LoadImport
  <2> QED BY <1>5, <2>2 DEF LoadImport, Runs, Asking
<1>6. CASE ProviderThrows
  <2> DEFINE d == InnermostBut({"find", "load"}, Len(calls) - 1)
  <2>1. Len(calls) - 1 \in 0 .. Len(calls) /\ Len(calls) \in Nat
    BY <1>6, <1>b DEF ProviderThrows, Runs
  <2>2. d \in 0 .. Len(calls) - 1
    BY <1>a, <2>1, Innermost
  <2> HIDE DEF d
  <2>3. d \in Nat /\ d \in 0 .. Len(calls)
    BY <2>1, <2>2
  <2> QED BY <1>6, <2>3 DEF ProviderThrows, Throwing, d
<1> QED
  BY <1>1, <1>2, <1>3, <1>4, <1>5, <1>6
  DEF Next, Lookup, Import, ProviderReturns

-----------------------------------------------------------------------------
(* What steps do to the stack *)

Cut(d) == d \in 0 .. Len(calls) /\ calls' = Below(d)

Put(d, c) ==
    d \in 0 .. Len(calls) /\ c \in Call /\ calls' = Append(Below(d), c)

LEMMA CutFacts ==
    ASSUME calls \in Seq(Call), NEW d, Cut(d)
    PROVE  /\ d \in Nat /\ Len(calls) \in Nat /\ d <= Len(calls)
           /\ calls' \in Seq(Call) /\ Len(calls)' = d /\ (DOMAIN calls)' = 1 .. d
           /\ 1 .. d \subseteq DOMAIN calls /\ DOMAIN calls = 1 .. Len(calls)
           /\ \A i \in 1 .. d : calls'[i] = calls[i] /\ calls[i] \in Call
<1>1. Len(calls) \in Nat /\ d \in Nat /\ d <= Len(calls) /\ 1 .. d \subseteq DOMAIN calls
  BY StackTyped DEF Cut
<1> QED BY <1>1, StackTyped, StackCut DEF Cut

LEMMA PutFacts ==
    ASSUME calls \in Seq(Call), NEW d, NEW c, Put(d, c)
    PROVE  /\ d \in Nat /\ Len(calls) \in Nat /\ d <= Len(calls) /\ c \in Call
           /\ calls' \in Seq(Call) /\ Len(calls)' = d + 1
           /\ (DOMAIN calls)' = 1 .. d + 1
           /\ 1 .. d \subseteq DOMAIN calls /\ DOMAIN calls = 1 .. Len(calls)
           /\ \A i \in 1 .. d : calls'[i] = calls[i] /\ calls[i] \in Call
           /\ calls'[d + 1] = c
<1>1. Len(calls) \in Nat /\ d \in Nat /\ d <= Len(calls) /\ 1 .. d \subseteq DOMAIN calls
  BY StackTyped DEF Put
<1>2. Below(d) \in Seq(Call) /\ Len(Below(d)) = d /\ \A i \in 1 .. d : Below(d)[i] = calls[i]
  BY StackCut DEF Put
<1>3. /\ Append(Below(d), c) \in Seq(Call) /\ Len(Append(Below(d), c)) = d + 1
      /\ DOMAIN Append(Below(d), c) = 1 .. d + 1
      /\ \A i \in 1 .. d : Append(Below(d), c)[i] = Below(d)[i]
      /\ Append(Below(d), c)[d + 1] = c
  BY <1>2, StackPushed DEF Put
<1> QED BY <1>1, <1>2, <1>3, StackTyped DEF Put

\* To put a call on the whole stack.
LEMMA PushIsPut ==
    ASSUME calls \in Seq(Call), NEW c \in Call, calls' = Append(calls, c)
    PROVE  Put(Len(calls), c)
<1>1. Len(calls) \in Nat
  BY StackTyped
<1>2. Below(Len(calls)) = calls
  BY DEF Below
<1> QED BY <1>1, <1>2 DEF Put

\* To leave the stack alone.
LEMMA SameIsCut ==
    ASSUME calls \in Seq(Call), calls' = calls
    PROVE  Cut(Len(calls))
<1>1. Len(calls) \in Nat
  BY StackTyped
<1>2. Below(Len(calls)) = calls
  BY DEF Below
<1> QED BY <1>1, <1>2 DEF Cut

\* The shape of the stack stays when it is cut,
LEMMA CutShape ==
    ASSUME calls \in Seq(Call), StackShape, NEW d, Cut(d),
           \A i \in DOMAIN calls : calls[i].op = "load" /\ i < d =>
               thunks'[calls[i].of] = thunks[calls[i].of]
    PROVE  StackShape'
<1>1. /\ d \in Nat /\ Len(calls) \in Nat /\ d <= Len(calls)
      /\ Len(calls)' = d /\ (DOMAIN calls)' = 1 .. d
      /\ 1 .. d \subseteq DOMAIN calls
      /\ \A i \in 1 .. d : calls'[i] = calls[i]
  BY CutFacts
<1> SUFFICES ASSUME NEW i \in 1 .. d
             PROVE  /\ calls'[i].op = "given" => i = d
                    /\ calls'[i].op \in {"provide", "given"} =>
                           i > 1 /\ calls'[i - 1].op \in {"find", "load"}
                    /\ calls'[i].op = "provide" => calls'[i].of = calls'[i - 1].of
                    /\ calls'[i].op = "load" /\ i > 1 => calls'[i - 1].op = "provide"
                    /\ calls'[i].op = "find" /\ i < d =>
                           Entry(calls'[i]).kind = "forwarder"
                    /\ calls'[i].op = "load" /\ i < d => Len(thunks'[calls'[i].of]) < Len(Imports[calls'[i].of])
  BY <1>1 DEF StackShape, Entry, ImportsLeft
<1>2. /\ calls[i].op = "given" => i = Len(calls)
      /\ calls[i].op \in {"provide", "given"} =>
             i > 1 /\ calls[i - 1].op \in {"find", "load"}
      /\ calls[i].op = "provide" => calls[i].of = calls[i - 1].of
      /\ calls[i].op = "load" /\ i > 1 => calls[i - 1].op = "provide"
      /\ calls[i].op = "find" /\ i < Len(calls) =>
             Entry(calls[i]).kind = "forwarder"
      /\ calls[i].op = "load" /\ i < Len(calls) => ImportsLeft(calls[i].of)
  BY <1>1 DEF StackShape
<1>3. calls'[i] = calls[i] /\ (i > 1 => calls'[i - 1] = calls[i - 1])
  BY <1>1
<1>4. i \in Nat /\ i <= d /\ (i < d => i < Len(calls)) /\ (i = Len(calls) => i = d)
  BY <1>1
<1>5. calls[i].op = "load" /\ i < d => Len(thunks'[calls[i].of]) < Len(Imports[calls[i].of])
  BY <1>1, <1>2, <1>4 DEF ImportsLeft
<1>6. calls[i].op = "provide" => i > 1
  BY <1>2
<1> QED BY <1>2, <1>3, <1>4, <1>5, <1>6

\* or a call put on it that belongs there.
LEMMA PutShape ==
    ASSUME calls \in Seq(Call), StackShape, NEW d, NEW c, Put(d, c), thunks' = thunks,
           c.op \in {"provide", "given"} => d > 0 /\ calls[d].op \in {"find", "load"},
           c.op = "provide" => c.of = calls[d].of,
           c.op = "load" /\ d > 0 => calls[d].op = "provide",
           d > 0 => /\ calls[d].op # "given"
                    /\ calls[d].op = "find" => Entry(calls[d]).kind = "forwarder"
                    /\ calls[d].op = "load" => ImportsLeft(calls[d].of)
    PROVE  StackShape'
<1>1. /\ d \in Nat /\ Len(calls) \in Nat /\ d <= Len(calls)
      /\ Len(calls)' = d + 1 /\ (DOMAIN calls)' = 1 .. d + 1
      /\ 1 .. d \subseteq DOMAIN calls
      /\ \A i \in 1 .. d : calls'[i] = calls[i]
      /\ calls'[d + 1] = c
  BY PutFacts
<1> SUFFICES ASSUME NEW i \in 1 .. d + 1
             PROVE  /\ calls'[i].op = "given" => i = d + 1
                    /\ calls'[i].op \in {"provide", "given"} =>
                           i > 1 /\ calls'[i - 1].op \in {"find", "load"}
                    /\ calls'[i].op = "provide" => calls'[i].of = calls'[i - 1].of
                    /\ calls'[i].op = "load" /\ i > 1 => calls'[i - 1].op = "provide"
                    /\ calls'[i].op = "find" /\ i < d + 1 =>
                           Entry(calls'[i]).kind = "forwarder"
                    /\ calls'[i].op = "load" /\ i < d + 1 => Len(thunks'[calls'[i].of]) < Len(Imports[calls'[i].of])
  BY <1>1 DEF StackShape, Entry, ImportsLeft
<1>2. CASE i = d + 1
  <2>1. calls'[i] = c /\ (d > 0 => calls'[i - 1] = calls[d]) /\ (i > 1 <=> d > 0)
    BY <1>1, <1>2
  <2>2. ~(i < d + 1)
    BY <1>1, <1>2
  <2> QED BY <1>2, <2>1, <2>2
<1>3. CASE i # d + 1
  <2>0. i \in 1 .. d
    BY <1>1, <1>3
  <2>1. /\ calls[i].op = "given" => i = Len(calls)
        /\ calls[i].op \in {"provide", "given"} =>
               i > 1 /\ calls[i - 1].op \in {"find", "load"}
        /\ calls[i].op = "provide" => calls[i].of = calls[i - 1].of
        /\ calls[i].op = "load" /\ i > 1 => calls[i - 1].op = "provide"
        /\ calls[i].op = "find" /\ i < Len(calls) =>
               Entry(calls[i]).kind = "forwarder"
        /\ calls[i].op = "load" /\ i < Len(calls) => ImportsLeft(calls[i].of)
    BY <1>1, <2>0 DEF StackShape
  <2>2. calls'[i] = calls[i] /\ (i > 1 => calls'[i - 1] = calls[i - 1])
    BY <1>1, <2>0
  <2>3. i \in Nat /\ i <= d /\ (i < Len(calls) \/ i = d)
    BY <1>1, <2>0
  <2>4. calls[i].op # "given" /\ (calls[i].op = "provide" => i > 1)
    BY <1>1, <2>1, <2>3
  <2>5. calls[i].op = "load" => Len(thunks'[calls[i].of]) < Len(Imports[calls[i].of])
    BY <2>1, <2>3 DEF ImportsLeft
  <2> QED BY <2>1, <2>2, <2>3, <2>4, <2>5
<1> QED BY <1>2, <1>3

\* What the calls say of their modules stays with them,
LEMMA CutCallsLive ==
    ASSUME calls \in Seq(Call), CallsLive, NEW d, Cut(d),
           \A i \in 1 .. d :
               calls[i].op \in {"find", "given", "load"} /\ calls[i].of # Null =>
                   life'[calls[i].of] = life[calls[i].of]
    PROVE  CallsLive'
<1>1. /\ d \in Nat /\ (DOMAIN calls)' = 1 .. d /\ 1 .. d \subseteq DOMAIN calls
      /\ \A i \in 1 .. d : calls'[i] = calls[i] /\ calls[i] \in Call
  BY CutFacts
<1>2. ASSUME NEW i \in 1 .. d
      PROVE  /\ calls[i].op \in {"find", "given"} /\ calls[i].of # Null =>
                    life'[calls[i].of] = "loaded"
             /\ calls[i].op = "load" =>
                    /\ life'[calls[i].of] = "loading"
                    /\ \A j \in 1 .. d : calls[j] = calls[i] => j = i
  <2>1. calls[i].op = "load" => calls[i].of # Null
    BY <1>1, CallFields, LookupAssumption
  <2> QED BY <1>1, <2>1 DEF CallsLive
<1> QED BY <1>1, <1>2 DEF CallsLive

LEMMA PutCallsLive ==
    ASSUME calls \in Seq(Call), CallsLive, NEW d, NEW c, Put(d, c),
           \A i \in 1 .. d :
               calls[i].op \in {"find", "given", "load"} /\ calls[i].of # Null =>
                   life'[calls[i].of] = life[calls[i].of],
           c.op \in {"find", "given"} /\ c.of # Null => life'[c.of] = "loaded",
           c.op = "load" => /\ life'[c.of] = "loading"
                            /\ \A i \in 1 .. d : calls[i] # c
    PROVE  CallsLive'
<1>1. /\ d \in Nat /\ (DOMAIN calls)' = 1 .. d + 1 /\ 1 .. d \subseteq DOMAIN calls
      /\ \A i \in 1 .. d : calls'[i] = calls[i] /\ calls[i] \in Call
      /\ calls'[d + 1] = c
      /\ \A i \in 1 .. d + 1 : i \in 1 .. d \/ i = d + 1
  BY PutFacts
<1>2. ASSUME NEW i \in 1 .. d
      PROVE  /\ calls[i].op \in {"find", "given"} /\ calls[i].of # Null =>
                    life'[calls[i].of] = "loaded"
             /\ calls[i].op = "load" =>
                    /\ life'[calls[i].of] = "loading"
                    /\ \A j \in 1 .. d : calls[j] = calls[i] => j = i
                    /\ calls[i] # c
  <2>1. calls[i].op = "load" => calls[i].of # Null
    BY <1>1, CallFields, LookupAssumption
  <2> QED BY <1>1, <2>1 DEF CallsLive
<1>3. ASSUME NEW i \in 1 .. d + 1
      PROVE  /\ calls'[i].op \in {"find", "given"} /\ calls'[i].of # Null =>
                    life'[calls'[i].of] = "loaded"
             /\ calls'[i].op = "load" =>
                    /\ life'[calls'[i].of] = "loading"
                    /\ \A j \in 1 .. d + 1 : calls'[j] = calls'[i] => j = i
  <2>1. CASE i \in 1 .. d
    BY <1>1, <1>2, <2>1
  <2>2. CASE i = d + 1
    BY <1>1, <2>2
  <2> QED BY <1>1, <2>1, <2>2
<1> QED BY <1>1, <1>3 DEF CallsLive

\* and so does what they wait for.
LEMMA CutWaits ==
    ASSUME calls \in Seq(Call), WaitsOnce, NEW d, Cut(d),
           \A i \in 1 .. d : calls[i].op = "provide" =>
               cache'[calls[i].of][calls[i].name] = Absent
    PROVE  WaitsOnce'
<1>1. /\ d \in Nat /\ (DOMAIN calls)' = 1 .. d /\ 1 .. d \subseteq DOMAIN calls
      /\ \A i \in 1 .. d : calls'[i] = calls[i]
  BY CutFacts
<1> QED BY <1>1 DEF WaitsOnce

LEMMA PutWaits ==
    ASSUME calls \in Seq(Call), WaitsOnce, NEW d, NEW c, Put(d, c),
           \A i \in 1 .. d : calls[i].op = "provide" =>
               cache'[calls[i].of][calls[i].name] = Absent,
           c.op = "provide" => /\ cache'[c.of][c.name] = Absent
                               /\ \A i \in 1 .. d : calls[i] # c
    PROVE  WaitsOnce'
<1>1. /\ d \in Nat /\ (DOMAIN calls)' = 1 .. d + 1 /\ 1 .. d \subseteq DOMAIN calls
      /\ \A i \in 1 .. d : calls'[i] = calls[i]
      /\ calls'[d + 1] = c
      /\ \A i \in 1 .. d + 1 : i \in 1 .. d \/ i = d + 1
  BY PutFacts
<1>2. ASSUME NEW i \in 1 .. d + 1
      PROVE  calls'[i].op = "provide" =>
                 /\ cache'[calls'[i].of][calls'[i].name] = Absent
                 /\ \A j \in 1 .. d + 1 : calls'[j] = calls'[i] => j = i
  <2>1. CASE i \in 1 .. d
    BY <1>1, <2>1 DEF WaitsOnce
  <2>2. CASE i = d + 1
    BY <1>1, <2>2
  <2> QED BY <1>1, <2>1, <2>2
<1> QED BY <1>1, <1>2 DEF WaitsOnce

-----------------------------------------------------------------------------
(* What steps do to the chains *)

\* The chains that do not begin in a module of ms stay.
ChainsStay(ms) ==
    \A m \in Modules \ ms, t \in Modules : Reaches(m, t) => Reaches(m, t)'

LEMMA ChainsGrow ==
    ASSUME \A k \in Modules, n \in Names :
               cache[k][n] \in Modules => cache'[k][n] = cache[k][n]
    PROVE  ChainsStay({})
BY ReachedStays DEF ChainsStay

LEMMA ChainsSurvive ==
    ASSUME NEW ms \in SUBSET Modules,
           \A k \in Modules, n \in Names : cache[k][n] \notin ms,
           \A k \in Modules : k \notin ms => cache'[k] = cache[k]
    PROVE  ChainsStay(ms)
BY ReachedSurvives DEF ChainsStay

LEMMA CutReaches ==
    ASSUME calls \in Seq(Call), StackReaches, NEW d, Cut(d), NEW ms, ChainsStay(ms),
           \A i \in 1 .. d : calls[i].op \in {"find", "load"} => calls[i].of \notin ms
    PROVE  StackReaches'
<1>1. /\ d \in Nat /\ (DOMAIN calls)' = 1 .. d /\ 1 .. d \subseteq DOMAIN calls
      /\ \A i \in 1 .. d : calls'[i] = calls[i] /\ calls[i] \in Call
  BY CutFacts
<1> SUFFICES ASSUME NEW i \in 1 .. d, NEW j \in 1 .. d,
                    i < j, calls'[i].op \in {"find", "load"}, calls'[j].of # Null,
                    \A k \in i + 1 .. j : calls'[k].op \in {"find", "given"}
             PROVE  Reaches(calls[i].of, calls[j].of)'
  BY <1>1 DEF StackReaches
<1> DEFINE m == calls[i].of
           t == calls[j].of
<1>2. i + 1 .. j \subseteq 1 .. d /\ j \in i + 1 .. j
  BY <1>1
<1>3. calls[j].op \in {"find", "given"} /\ calls[j].of # Null
  BY <1>1, <1>2
<1>4. m \in Modules /\ t \in Modules
  BY <1>1, <1>3, CallFields
<1>5. Reaches(m, t)
  BY <1>1, <1>2 DEF StackReaches
<1>6. calls'[i] = calls[i] /\ calls'[j] = calls[j] /\ calls[i].of \notin ms
  BY <1>1
<1>7. \A a \in Modules \ ms, b \in Modules : Reaches(a, b) => Reaches(a, b)'
  BY DEF ChainsStay
<1>8. PICK a \in Modules \ ms, b \in Modules : a = m /\ b = t
  BY <1>4, <1>6
<1>9. Reaches(a, b)'
  BY <1>5, <1>7, <1>8
<1>10. a = calls'[i].of /\ b = calls'[j].of
  BY <1>6, <1>8
<1> QED BY <1>9, <1>10

LEMMA PutReaches ==
    ASSUME calls \in Seq(Call), StackReaches, NEW d, NEW c, Put(d, c), ChainsStay({}),
           d > 0 => calls[d].op # "given",
           \A m, t \in Modules :
               (c.op \in {"find", "given"} /\ c.of = t /\ d > 0
                  /\ calls[d].op \in {"find", "load"} /\ calls[d].of = m)
               => Reaches(m, t)'
    PROVE  StackReaches'
<1>1. /\ d \in Nat /\ (DOMAIN calls)' = 1 .. d + 1 /\ 1 .. d \subseteq DOMAIN calls
      /\ \A i \in 1 .. d : calls'[i] = calls[i] /\ calls[i] \in Call
      /\ calls'[d + 1] = c /\ c \in Call
  BY PutFacts
<1> SUFFICES ASSUME NEW i \in 1 .. d + 1, NEW j \in 1 .. d + 1,
                    i < j, calls'[i].op \in {"find", "load"}, calls'[j].of # Null,
                    \A k \in i + 1 .. j : calls'[k].op \in {"find", "given"}
             PROVE  Reaches(calls[i].of, calls[j].of)'
  BY <1>1 DEF StackReaches
<1>2. i \in 1 .. d /\ j \in i + 1 .. j /\ i + 1 .. j \subseteq 1 .. d + 1
  BY <1>1
<1>3. calls'[j].op \in {"find", "given"} /\ calls'[j] \in Call /\ calls[i] \in Call
      /\ calls'[i] = calls[i]
  BY <1>1, <1>2
<1>4. PICK m \in Modules, t \in Modules : calls'[i].of = m /\ calls'[j].of = t
  BY <1>3, CallFields
<1>5. \A a, b \in Modules : Reaches(a, b) => Reaches(a, b)'
  BY DEF ChainsStay
<1>6. CASE j # d + 1
  <2>1. j \in 1 .. d /\ calls'[j] = calls[j] /\ i + 1 .. j \subseteq 1 .. d
    BY <1>1, <1>2, <1>6
  <2>2. Reaches(calls[i].of, calls[j].of)
    BY <1>1, <1>2, <1>3, <2>1 DEF StackReaches
  <2>3. Reaches(m, t)
    BY <1>3, <1>4, <2>1, <2>2
  <2>4. Reaches(m, t)'
    BY <1>5, <2>3
  <2> QED BY <1>4, <2>4
<1>7. CASE j = d + 1
  <2>1. c.op \in {"find", "given"} /\ c.of = t /\ d > 0
    BY <1>1, <1>2, <1>3, <1>4, <1>7
  <2>2. CASE i = d
    <3>1. Reaches(m, t)'
      BY <1>3, <1>4, <2>1, <2>2
    <3> QED BY <1>4, <3>1
  <2>3. CASE i # d
    <3>1. i < d /\ d \in i + 1 .. j /\ d \in 1 .. d /\ i + 1 .. d \subseteq i + 1 .. j
          /\ i + 1 .. d \subseteq 1 .. d
      BY <1>1, <1>2, <1>7, <2>3
    <3>2. calls[d].op = "find" /\ calls[d] \in Call
      BY <1>1, <2>1, <3>1
    <3>3. PICK k \in Modules : calls[d].of = k
      BY <3>2, CallFields
    <3>4. calls[d].of # Null
      BY <3>3, LookupAssumption
    <3>5. Reaches(calls[i].of, calls[d].of)
      BY <1>1, <1>2, <1>3, <3>1, <3>4 DEF StackReaches
    <3>6. Reaches(m, k)'
      <4>1. Reaches(m, k)
        BY <1>3, <1>4, <3>3, <3>5
      <4> QED BY <1>5, <4>1
    <3>7. Reaches(k, t)'
      BY <2>1, <3>2, <3>3
    <3>8. (Reaches(m, k) /\ Reaches(k, t) => Reaches(m, t))'
      BY FurtherNext
    <3>9. Reaches(m, t)'
      BY <3>6, <3>7, <3>8
    <3> QED BY <1>4, <3>9
  <2> QED BY <2>2, <2>3
<1> QED BY <1>6, <1>7

LEMMA AnswersKept ==
    ASSUME TypeOK, AnswersReached, NEW ms, ChainsStay(ms),
           \A m \in Modules : IF m \in ms THEN answers'[m] = NotAsked
                                          ELSE answers'[m] = answers[m]
    PROVE  AnswersReached'
<1> SUFFICES ASSUME NEW m \in Modules, NEW s \in Symbols, answers'[m][s] \in Address
             PROVE  answers'[m][s][1] = m \/ Reaches(m, answers[m][s][1])'
  BY DEF AnswersReached
<1>1. Unasked \notin Address
  BY LookupAssumption DEF Address
<1>2. m \notin ms
  BY <1>1 DEF NotAsked
<1>3. answers'[m][s] = answers[m][s]
  BY <1>2
<1>4. PICK t \in Modules : t = answers[m][s][1]
  BY <1>3 DEF Address
<1>5. t = m \/ Reaches(m, t)
  BY <1>3, <1>4 DEF AnswersReached
<1>6. t = m \/ Reaches(m, t)'
  BY <1>2, <1>5 DEF ChainsStay
<1>7. t = answers'[m][s][1]
  BY <1>3, <1>4
<1> QED BY <1>6, <1>7

LEMMA ThunksKept ==
    ASSUME TypeOK, ThunksReached, NEW ms, ChainsStay(ms),
           \A m \in Modules : IF m \in ms THEN thunks'[m] = <<>>
                                          ELSE thunks'[m] = thunks[m]
    PROVE  ThunksReached'
<1> SUFFICES ASSUME NEW m \in Modules, NEW i \in DOMAIN thunks'[m]
             PROVE  Reaches(m, thunks[m][i][1])'
  BY DEF ThunksReached
<1>1. m \notin ms
  OBVIOUS
<1>2. thunks'[m] = thunks[m]
  BY <1>1
<1>3. thunks[m] \in Seq(Address) /\ i \in DOMAIN thunks[m]
  BY <1>2 DEF TypeOK
<1>4. thunks[m][i] \in Address
  <2> HIDE DEF Address
  <2> QED BY <1>3
<1>5. PICK t \in Modules : t = thunks[m][i][1]
  BY <1>4 DEF Address
<1>6. Reaches(m, t)
  BY <1>3, <1>5 DEF ThunksReached
<1>7. Reaches(m, t)'
  BY <1>1, <1>6 DEF ChainsStay
<1>8. t = thunks'[m][i][1]
  BY <1>2, <1>5
<1> QED BY <1>7, <1>8

-----------------------------------------------------------------------------
(* Each kind of step keeps the invariant *)

\* What the invariant says of the innermost call.
LEMMA TopTyped ==
    ASSUME TypeOK, calls # <<>>
    PROVE  /\ calls \in Seq(Call) /\ Len(calls) \in Nat /\ Len(calls) > 0
           /\ DOMAIN calls = 1 .. Len(calls) /\ Len(calls) \in DOMAIN calls
           /\ Top = calls[Len(calls)] /\ Top \in Call
           /\ Len(calls) - 1 \in 0 .. Len(calls)
BY StackTyped DEF TypeOK, Top

LEMMA AskingKeeps ==
    ASSUME LookupInv, NEW n \in Names, Asking(n)
    PROVE  LookupInv'
<1> DEFINE L == Len(calls)
           c == GetModule(Top.of, n)
<1>1. /\ calls # <<>> /\ Top.op \in {"find", "load"}
      /\ Top.op = "find" => Entry(Top).kind = "forwarder"
      /\ Top.op = "load" => ImportsLeft(Top.of)
      /\ Len(calls) < MaxCalls /\ calls' = Append(calls, c)
      /\ reentered' = (reentered \/ \E i \in DOMAIN calls :
                                       calls[i] = c /\ c.op = "provide")
  BY DEF Asking, AskForModule, Enter
<1>2. UNCHANGED <<life, held, cache, thunks, answers>>
  BY DEF Asking, AskForModule
<1>3. TypeOK /\ StackShape /\ OwnersLive /\ CallsLive
  BY DEF LookupInv
<1>4. /\ calls \in Seq(Call) /\ L \in Nat /\ L > 0 /\ Top = calls[L]
      /\ DOMAIN calls = 1 .. L /\ Top \in Call
  BY <1>1, <1>3, TopTyped
<1>5. Top.of \in Modules
  BY <1>1, <1>4, CallFields
<1>6. /\ \/ c.op = "given" /\ c.of = cache[Top.of][n] /\ c.of \in Modules \cup {Null}
         \/ c.op = "provide" /\ c.of = Top.of /\ c.name = n /\ cache[Top.of][n] = Absent
      /\ c \in Call
  BY <1>3, <1>5, CallsMade DEF GetModule, InCache, TypeOK
<1> HIDE DEF c
<1>7. Put(L, c)
  BY <1>1, <1>4, <1>6, PushIsPut
<1>8. TypeOK'
  <2>1. calls' \in Seq(Call) /\ Len(calls)' = L + 1
    BY <1>4, <1>7, PutFacts
  <2>2. Len(calls)' <= MaxCalls /\ reentered' \in BOOLEAN
    <3>1. MaxCalls \in Int
      BY LookupAssumption
    <3>2. reentered \in BOOLEAN
      BY <1>3 DEF TypeOK
    <3>3. Len(calls)' <= MaxCalls
      BY <1>1, <1>4, <2>1, <3>1
    <3> QED BY <1>1, <3>2, <3>3
  <2> QED BY <1>2, <1>3, <2>1, <2>2 DEF TypeOK
<1>9. StackShape'
  BY <1>1, <1>2, <1>3, <1>4, <1>6, <1>7, PutShape
<1>10. OwnersLive'
  BY <1>2, <1>3 DEF OwnersLive
<1>11. CallsLive'
  <2>1. c.op \in {"find", "given"} /\ c.of # Null => life'[c.of] = "loaded"
    BY <1>2, <1>3, <1>5, <1>6 DEF OwnersLive
  <2> QED BY <1>2, <1>3, <1>4, <1>6, <1>7, <2>1, PutCallsLive
<1>12. ASSUME ~reentered'
       PROVE  (WaitsOnce /\ StackReaches /\ AnswersReached /\ ThunksReached)'
  <2>1. WaitsOnce /\ StackReaches /\ AnswersReached /\ ThunksReached
    BY <1>1, <1>12 DEF LookupInv
  <2>2. ChainsStay({})
    BY <1>2, ChainsGrow
  <2>3. WaitsOnce'
    <3>1. c.op = "provide" => \A i \in 1 .. L : calls[i] # c
      BY <1>1, <1>4, <1>12
    <3>2. \A i \in 1 .. L : calls[i].op = "provide" =>
              cache'[calls[i].of][calls[i].name] = Absent
      BY <1>2, <1>4, <2>1 DEF WaitsOnce
    <3> QED BY <1>2, <1>4, <1>6, <1>7, <2>1, <3>1, <3>2, PutWaits
  <2>4. StackReaches'
    <3>1. ASSUME NEW m \in Modules, NEW t \in Modules,
                 c.op \in {"find", "given"}, c.of = t, calls[L].of = m
          PROVE  Reaches(m, t)'
      BY <1>2, <1>4, <1>6, <3>1, EntryNext
    <3> QED BY <1>1, <1>4, <1>7, <2>1, <2>2, <3>1, PutReaches
  <2>5. AnswersReached'
    BY <1>2, <1>3, <2>1, <2>2, AnswersKept
  <2>6. ThunksReached'
    BY <1>2, <1>3, <2>1, <2>2, ThunksKept
  <2> QED BY <2>3, <2>4, <2>5, <2>6
<1> QED BY <1>8, <1>9, <1>10, <1>11, <1>12 DEF LookupInv

LEMMA ContinuingKeeps ==
    ASSUME LookupInv, Continuing
    PROVE  LookupInv'
<1> DEFINE L == Len(calls)
           caller == calls[L - 1]
           c == LookUpThere(caller)
<1>1. calls # <<>> /\ Top.op = "given" /\ Top.of # Null
      /\ calls' = Append(Below(L - 1), c)
  BY DEF Continuing
<1>2. UNCHANGED <<life, held, cache, thunks, answers, reentered>>
  BY DEF Continuing
<1>3. TypeOK /\ StackShape /\ OwnersLive /\ CallsLive
  BY DEF LookupInv
<1>4. /\ calls \in Seq(Call) /\ L \in Nat /\ L > 0 /\ Top = calls[L]
      /\ DOMAIN calls = 1 .. L /\ Top \in Call /\ L - 1 \in 0 .. L /\ L \in DOMAIN calls
  BY <1>1, <1>3, TopTyped
<1>5. L > 1 /\ caller.op \in {"find", "load"}
  BY <1>1, <1>3, <1>4 DEF StackShape
<1>6. L - 1 \in DOMAIN calls /\ L - 1 < L /\ caller \in Call /\ L - 1 > 0
  BY <1>4, <1>5, StackTyped
<1>7. caller.op = "find" => Entry(caller).kind = "forwarder"
  BY <1>3, <1>6 DEF StackShape
<1>8. caller.op = "load" => ImportsLeft(caller.of)
  BY <1>3, <1>6 DEF StackShape
<1>9. Top.of \in Modules
  BY <1>1, <1>4, CallFields
<1>10. WantedSymbol(caller) \in Symbols
  <2> HIDE DEF caller
  <2>1. CASE caller.op = "find"
    BY <1>6, <1>7, <2>1, EntryTyped DEF WantedSymbol
  <2>2. CASE caller.op = "load"
    BY <1>3, <1>6, <1>8, <2>2, CallFields, ImportTyped DEF WantedSymbol
  <2> QED BY <1>5, <2>1, <2>2
<1>11. c \in Call /\ c.op = "find" /\ c.of = Top.of
  BY <1>9, <1>10, CallsMade DEF LookUpThere
<1> HIDE DEF c
<1>12. Put(L - 1, c)
  BY <1>1, <1>4, <1>11 DEF Put
<1>13. TypeOK'
  <2>1. calls' \in Seq(Call) /\ Len(calls)' = L - 1 + 1
    BY <1>4, <1>12, PutFacts
  <2>2. Len(calls)' <= MaxCalls
    BY <1>3, <1>4, <2>1 DEF TypeOK
  <2> QED BY <1>2, <1>3, <2>1, <2>2 DEF TypeOK
<1>14. StackShape'
  BY <1>2, <1>3, <1>4, <1>5, <1>6, <1>7, <1>8, <1>11, <1>12, PutShape
<1>15. OwnersLive'
  BY <1>2, <1>3 DEF OwnersLive
<1>16. CallsLive'
  <2>1. life[Top.of] = "loaded"
    BY <1>1, <1>3, <1>4 DEF CallsLive
  <2> QED BY <1>2, <1>3, <1>4, <1>11, <1>12, <2>1, PutCallsLive
<1>17. ASSUME ~reentered'
       PROVE  (WaitsOnce /\ StackReaches /\ AnswersReached /\ ThunksReached)'
  <2>1. WaitsOnce /\ StackReaches /\ AnswersReached /\ ThunksReached
    BY <1>2, <1>17 DEF LookupInv
  <2>2. ChainsStay({})
    BY <1>2, ChainsGrow
  <2>3. WaitsOnce'
    <3>1. \A i \in 1 .. L - 1 : calls[i].op = "provide" =>
              cache'[calls[i].of][calls[i].name] = Absent
      BY <1>2, <1>4, <2>1 DEF WaitsOnce
    <3> QED BY <1>4, <1>11, <1>12, <2>1, <3>1, PutWaits
  <2>4. StackReaches'
    <3>1. Reaches(caller.of, Top.of)
      <4>1. \A k \in L - 1 + 1 .. L : calls[k].op \in {"find", "given"}
        BY <1>1, <1>4
      <4> QED BY <1>1, <1>4, <1>5, <1>6, <2>1, <4>1 DEF StackReaches
    <3>2. ASSUME NEW m \in Modules, NEW t \in Modules, c.of = t, caller.of = m
          PROVE  Reaches(m, t)'
      BY <1>11, <2>2, <3>1, <3>2 DEF ChainsStay
    <3> QED BY <1>4, <1>5, <1>12, <2>1, <2>2, <3>2, PutReaches
  <2>5. AnswersReached'
    BY <1>2, <1>3, <2>1, <2>2, AnswersKept
  <2>6. ThunksReached'
    BY <1>2, <1>3, <2>1, <2>2, ThunksKept
  <2> QED BY <2>3, <2>4, <2>5, <2>6
<1> QED BY <1>13, <1>14, <1>15, <1>16, <1>17 DEF LookupInv

LEMMA ProviderAnswersKeeps ==
    ASSUME LookupInv, NEW x \in Modules \cup {Null}, ProviderAnswers(x)
    PROVE  LookupInv'
<1> DEFINE L == Len(calls)
           c == [op |-> "given", of |-> x]
           m == Top.of
           n == Top.name
<1>1. /\ calls # <<>> /\ Top.op = "provide"
      /\ x # Null => life[x] = "loaded"
      /\ cache' = [cache EXCEPT ![m][n] = x]
      /\ calls' = Append(Below(L - 1), c)
  BY DEF ProviderAnswers, Runs
<1>2. UNCHANGED <<life, held, thunks, answers, reentered>>
  BY DEF ProviderAnswers
<1>3. TypeOK /\ StackShape /\ OwnersLive /\ CallsLive
  BY DEF LookupInv
<1>4. /\ calls \in Seq(Call) /\ L \in Nat /\ L > 0 /\ Top = calls[L]
      /\ DOMAIN calls = 1 .. L /\ Top \in Call /\ L - 1 \in 0 .. L /\ L \in DOMAIN calls
  BY <1>1, <1>3, TopTyped
<1>5. L > 1 /\ calls[L - 1].op \in {"find", "load"} /\ m = calls[L - 1].of
  BY <1>1, <1>3, <1>4 DEF StackShape
<1>6. L - 1 \in DOMAIN calls /\ L - 1 < L /\ L - 1 > 0 /\ 1 .. L - 1 \subseteq DOMAIN calls
  BY <1>4, <1>5
<1>7. calls[L - 1].op = "find" => Entry(calls[L - 1]).kind = "forwarder"
  BY <1>3, <1>6 DEF StackShape
<1>8. calls[L - 1].op = "load" => ImportsLeft(calls[L - 1].of)
  BY <1>3, <1>6 DEF StackShape
<1>9. m \in Modules /\ n \in Names /\ Top = [op |-> "provide", of |-> m, name |-> n]
  BY <1>1, <1>4, CallFields
<1>10. c \in Call /\ c.op = "given" /\ c.of = x
  BY CallsMade
<1> HIDE DEF c, m, n
<1>11. \A k \in Modules, p \in Names :
           cache'[k][p] = IF k = m /\ p = n THEN x ELSE cache[k][p]
  BY <1>1, <1>3, <1>9 DEF TypeOK
<1>12. Put(L - 1, c)
  BY <1>1, <1>4, <1>10 DEF Put
<1>13. TypeOK'
  <2>1. calls' \in Seq(Call) /\ Len(calls)' = L - 1 + 1
    BY <1>4, <1>12, PutFacts
  <2>2. Len(calls)' <= MaxCalls
    BY <1>3, <1>4, <2>1 DEF TypeOK
  <2>3. cache' \in [Modules -> [Names -> Modules \cup {Null, Absent}]]
    BY <1>1, <1>3, <1>9 DEF TypeOK
  <2> QED BY <1>2, <1>3, <2>1, <2>2, <2>3 DEF TypeOK
<1>14. StackShape'
  BY <1>2, <1>3, <1>4, <1>5, <1>6, <1>7, <1>8, <1>10, <1>12, PutShape
<1>15. OwnersLive'
  <2>1. \A k \in Modules, p \in Names :
            cache'[k][p] \in Modules => life[cache'[k][p]] = "loaded"
    <3>1. x \in Modules => x # Null
      BY LookupAssumption
    <3> QED BY <1>1, <1>3, <1>11, <3>1 DEF OwnersLive
  <2> QED BY <1>2, <1>3, <2>1 DEF OwnersLive
<1>16. CallsLive'
  BY <1>1, <1>2, <1>3, <1>4, <1>10, <1>12, PutCallsLive
<1>17. ASSUME ~reentered'
       PROVE  (WaitsOnce /\ StackReaches /\ AnswersReached /\ ThunksReached)'
  <2>1. WaitsOnce /\ StackReaches /\ AnswersReached /\ ThunksReached
    BY <1>2, <1>17 DEF LookupInv
  <2>2. cache[m][n] = Absent /\ \A j \in DOMAIN calls : calls[j] = Top => j = L
    BY <1>1, <1>4, <2>1 DEF WaitsOnce, m, n
  <2>3. ChainsStay({})
    <3>1. Absent \notin Modules
      BY LookupAssumption
    <3>2. \A k \in Modules, p \in Names :
              cache[k][p] \in Modules => cache'[k][p] = cache[k][p]
      BY <1>11, <2>2, <3>1
    <3> QED BY <3>2, ChainsGrow
  <2>4. WaitsOnce'
    <3>1. ASSUME NEW i \in 1 .. L - 1, calls[i].op = "provide"
          PROVE  cache'[calls[i].of][calls[i].name] = Absent
      <4>1. i \in DOMAIN calls /\ i # L
        <5> HIDE DEF L
        <5>1. i < L
          BY <1>4
        <5> QED BY <1>4, <1>6, <5>1
      <4>2. calls[i] \in Call
        BY <1>4, <4>1, StackTyped
      <4>3. /\ calls[i].of \in Modules /\ calls[i].name \in Names
            /\ calls[i] = [op |-> "provide", of |-> calls[i].of, name |-> calls[i].name]
        BY <3>1, <4>2, CallFields
      <4>4. ~(calls[i].of = m /\ calls[i].name = n)
        BY <1>9, <2>2, <4>1, <4>3
      <4>5. cache[calls[i].of][calls[i].name] = Absent
        BY <2>1, <3>1, <4>1 DEF WaitsOnce
      <4> QED BY <1>11, <4>3, <4>4, <4>5
    <3> QED BY <1>4, <1>10, <1>12, <2>1, <3>1, PutWaits
  <2>5. StackReaches'
    <3>1. ASSUME NEW k \in Modules, NEW t \in Modules, c.of = t, calls[L - 1].of = k
          PROVE  Reaches(k, t)'
      <4>1. cache'[k][n] = t
        BY <1>5, <1>9, <1>10, <1>11, <3>1
      <4> QED BY <1>9, <4>1, EntryNext
    <3> QED BY <1>4, <1>5, <1>12, <2>1, <2>3, <3>1, PutReaches
  <2>6. AnswersReached'
    BY <1>2, <1>3, <2>1, <2>3, AnswersKept
  <2>7. ThunksReached'
    BY <1>2, <1>3, <2>1, <2>3, ThunksKept
  <2> QED BY <2>4, <2>5, <2>6, <2>7
<1> QED BY <1>13, <1>14, <1>15, <1>16, <1>17 DEF LookupInv

\* What the client was told is in a module that the one it asked reaches.
LEMMA AnsweringKeeps ==
    ASSUME LookupInv, NEW d \in Nat, NEW r \in Address \cup {Null}, Answering(d, r)
    PROVE  LookupInv'
<1> DEFINE L == Len(calls)
           asked == calls[d + 1]
<1>1. /\ OneLookup(d) /\ IsResult(r) /\ asked.op = "find" /\ calls' = Below(d)
      /\ answers' = [answers EXCEPT ![asked.of][asked.symbol] = r]
  BY DEF Answering, ReturnToClient
<1>2. UNCHANGED <<life, held, cache, thunks, reentered>>
  BY DEF Answering, ReturnToClient
<1>3. TypeOK /\ StackShape /\ OwnersLive /\ CallsLive
  BY DEF LookupInv
<1>4. calls \in Seq(Call) /\ L \in Nat /\ DOMAIN calls = 1 .. L /\ d \in 0 .. L - 1
  BY <1>1, <1>3, StackTyped DEF TypeOK, OneLookup
<1>5. /\ d \in 0 .. L /\ d + 1 \in DOMAIN calls /\ 1 .. d \subseteq DOMAIN calls
      /\ L \in DOMAIN calls /\ Top = calls[L]
  <2> HIDE DEF L
  <2>1. d + 1 \in 1 .. L /\ L \in 1 .. L /\ d \in 0 .. L /\ 1 .. d \subseteq 1 .. L
    BY <1>4
  <2> QED BY <1>4, <2>1 DEF Top, L
<1>6. PICK m \in Modules, s \in Symbols : asked.of = m /\ asked.symbol = s
  BY <1>1, <1>4, <1>5, StackTyped, CallFields
<1>7. life[m] = "loaded"
  <2>1. asked.op \in {"find", "given"} /\ asked.of # Null => life[asked.of] = "loaded"
    BY <1>3, <1>5 DEF CallsLive
  <2>2. asked.of # Null
    BY <1>6, LookupAssumption
  <2> QED BY <1>1, <1>6, <2>1, <2>2
<1> HIDE DEF asked
<1>8. Cut(d)
  BY <1>1, <1>5 DEF Cut
<1>9. \A k \in Modules, u \in Symbols :
          answers'[k][u] = IF k = m /\ u = s THEN r ELSE answers[k][u]
  BY <1>1, <1>3, <1>6 DEF TypeOK
<1>10. TypeOK'
  <2>1. calls' \in Seq(Call) /\ Len(calls)' = d
    BY <1>4, <1>8, CutFacts
  <2>2. Len(calls)' <= MaxCalls
    <3>1. L <= MaxCalls /\ MaxCalls \in Int
      BY <1>3, LookupAssumption DEF TypeOK
    <3> HIDE DEF L
    <3> QED BY <1>4, <2>1, <3>1
  <2>3. answers' \in [Modules -> [Symbols -> Address \cup {Null, Unasked}]]
    <3> HIDE DEF Address
    <3> QED BY <1>1, <1>3, <1>6 DEF TypeOK
  <2> QED BY <1>2, <1>3, <2>1, <2>2, <2>3 DEF TypeOK
<1>11. StackShape'
  BY <1>2, <1>3, <1>4, <1>8, CutShape
<1>12. OwnersLive'
  <2>1. \A k \in Modules, u \in Symbols : answers'[k][u] # Unasked => life[k] = "loaded"
    BY <1>3, <1>7, <1>9 DEF OwnersLive
  <2> QED BY <1>2, <1>3, <2>1 DEF OwnersLive
<1>13. CallsLive'
  BY <1>2, <1>3, <1>4, <1>8, CutCallsLive
<1>14. ASSUME ~reentered'
       PROVE  (WaitsOnce /\ StackReaches /\ AnswersReached /\ ThunksReached)'
  <2>1. WaitsOnce /\ StackReaches /\ AnswersReached /\ ThunksReached
    BY <1>2, <1>14 DEF LookupInv
  <2>2. ChainsStay({})
    BY <1>2, ChainsGrow
  <2>3. WaitsOnce'
    <3>1. \A i \in 1 .. d : calls[i].op = "provide" =>
              cache'[calls[i].of][calls[i].name] = Absent
      BY <1>2, <1>5, <2>1 DEF WaitsOnce
    <3> QED BY <1>4, <1>8, <2>1, <3>1, CutWaits
  <2>4. StackReaches'
    BY <1>4, <1>8, <2>1, <2>2, CutReaches
  <2>5. AnswersReached'
    <3>1. ASSUME NEW t \in Modules, r \in Address, r[1] = t
          PROVE  t = m \/ Reaches(m, t)'
      <4>1. Top.op = "find" /\ t = Top.of
        BY <1>1, <3>1, LookupAssumption DEF IsResult, Address
      <4>2. CASE d + 1 = L
        BY <1>5, <1>6, <4>1, <4>2 DEF asked
      <4>3. CASE d + 1 # L
        <5>1. d + 1 < L
          <6> HIDE DEF L
          <6> QED BY <1>4, <4>3
        <5>2. \A k \in (d + 1) + 1 .. L : calls[k].op \in {"find", "given"}
          <6>1. \A k \in d + 1 .. L : calls[k].op \in {"find", "given"}
            BY <1>1 DEF OneLookup
          <6>2. (d + 1) + 1 .. L \subseteq d + 1 .. L
            BY <1>4
          <6> QED BY <6>1, <6>2
        <5>3. Top.of # Null
          BY <4>1, LookupAssumption
        <5>4. Reaches(m, t)
          <6>1. Reaches(calls[d + 1].of, calls[L].of)
            BY <1>1, <1>5, <2>1, <5>1, <5>2, <5>3 DEF StackReaches, asked
          <6>2. calls[d + 1].of = m /\ calls[L].of = t
            BY <1>5, <1>6, <4>1 DEF asked
          <6> QED BY <6>1, <6>2
        <5> QED BY <1>6, <2>2, <5>4 DEF ChainsStay
      <4> QED BY <4>2, <4>3
    <3> HIDE DEF L
    <3>2. ASSUME NEW k \in Modules, NEW u \in Symbols, answers'[k][u] \in Address
          PROVE  answers'[k][u][1] = k \/ Reaches(k, answers[k][u][1])'
      <4>1. PICK t \in Modules : t = answers'[k][u][1]
        BY <3>2 DEF Address
      <4>2. t = k \/ Reaches(k, t)'
        <5>1. CASE k = m /\ u = s
          BY <1>9, <3>1, <3>2, <4>1, <5>1
        <5>2. CASE ~(k = m /\ u = s)
          <6>1. answers'[k][u] = answers[k][u]
            BY <1>9, <5>2
          <6>2. t = k \/ Reaches(k, t)
            BY <2>1, <3>2, <4>1, <6>1 DEF AnswersReached
          <6> QED BY <2>2, <6>2 DEF ChainsStay
        <5> QED BY <5>1, <5>2
      <4> QED BY <4>1, <4>2
    <3> QED BY <3>2 DEF AnswersReached
  <2>6. ThunksReached'
    BY <1>2, <1>3, <2>1, <2>2, ThunksKept
  <2> QED BY <2>3, <2>4, <2>5, <2>6
<1> QED BY <1>10, <1>11, <1>12, <1>13, <1>14 DEF LookupInv

\* And so is what a thunk is filled with.
LEMMA ImportingKeeps ==
    ASSUME LookupInv, NEW d \in Nat, NEW r \in Address \cup {Null}, Importing(d, r)
    PROVE  LookupInv'
<1> DEFINE L == Len(calls)
<1>1. /\ OneLookup(d) /\ IsResult(r) /\ r # Null /\ d > 0 /\ calls[d].op = "load"
      /\ calls' = Below(d)
      /\ thunks' = [thunks EXCEPT ![calls[d].of] = Append(@, r)]
  BY DEF Importing, ReturnToLoad
<1>2. UNCHANGED <<life, held, cache, answers, reentered>>
  BY DEF Importing, ReturnToLoad
<1>3. TypeOK /\ StackShape /\ OwnersLive /\ CallsLive
  BY DEF LookupInv
<1>4. calls \in Seq(Call) /\ L \in Nat /\ DOMAIN calls = 1 .. L /\ d \in 0 .. L - 1
  BY <1>1, <1>3, StackTyped DEF TypeOK, OneLookup
<1>5. /\ d \in 0 .. L /\ d \in DOMAIN calls /\ 1 .. d \subseteq DOMAIN calls
      /\ L \in DOMAIN calls /\ Top = calls[L] /\ d < L
      /\ \A i \in 1 .. L : i < d => i # d
  <2> HIDE DEF L
  <2>1. d \in 1 .. L /\ L \in 1 .. L /\ d \in 0 .. L /\ 1 .. d \subseteq 1 .. L /\ d < L
    BY <1>1, <1>4
  <2>2. \A i \in 1 .. L : i < d => i # d
    BY <1>4
  <2> QED BY <1>4, <2>1, <2>2 DEF Top, L
<1>6. PICK m \in Modules : calls[d].of = m
  BY <1>1, <1>4, <1>5, StackTyped, CallFields
<1>7. life[m] = "loading"
  BY <1>1, <1>3, <1>5, <1>6 DEF CallsLive
<1>8. Cut(d)
  BY <1>1, <1>5 DEF Cut
<1>9. r \in Address /\ Top.op = "find" /\ r[1] = Top.of /\ Top.of \in Modules
  <2>1. Top.op = "find" /\ r = <<Top.of, Top.symbol>>
    BY <1>1 DEF IsResult
  <2>2. Top.of \in Modules
    BY <1>4, <1>5, <2>1, StackTyped, CallFields
  <2> QED BY <1>1, <2>1, <2>2
<1>10. /\ thunks[m] \in Seq(Address)
       /\ \A k \in Modules : thunks'[k] = IF k = m THEN Append(thunks[m], r) ELSE thunks[k]
  BY <1>1, <1>3, <1>6 DEF TypeOK
<1>11. TypeOK'
  <2>1. calls' \in Seq(Call) /\ Len(calls)' = d
    BY <1>4, <1>8, CutFacts
  <2>2. Len(calls)' <= MaxCalls
    <3>1. L <= MaxCalls /\ MaxCalls \in Int
      BY <1>3, LookupAssumption DEF TypeOK
    <3> HIDE DEF L
    <3> QED BY <1>4, <2>1, <3>1
  <2>3. thunks' \in [Modules -> Seq(Address)]
    <3> HIDE DEF Address
    <3>1. Append(thunks[m], r) \in Seq(Address)
      BY <1>9, <1>10
    <3> QED BY <1>1, <1>3, <1>6, <3>1 DEF TypeOK
  <2> QED BY <1>2, <1>3, <2>1, <2>2, <2>3 DEF TypeOK
<1>12. StackShape'
  <2>1. ASSUME NEW i \in DOMAIN calls, calls[i].op = "load", i < d
        PROVE  thunks'[calls[i].of] = thunks[calls[i].of]
    <3>1. calls[i] \in Call /\ calls[i].of \in Modules
          /\ calls[i] = [op |-> "load", of |-> calls[i].of]
          /\ calls[d] = [op |-> "load", of |-> m]
      BY <1>1, <1>4, <1>5, <1>6, <2>1, StackTyped, CallFields
    <3>2. calls[i] # calls[d]
      BY <1>1, <1>3, <1>4, <1>5, <2>1 DEF CallsLive
    <3>3. calls[i].of # m
      BY <3>1, <3>2
    <3> QED BY <1>10, <3>1, <3>3
  <2> QED BY <1>3, <1>4, <1>8, <2>1, CutShape
<1>13. OwnersLive'
  <2>1. \A k \in Modules : thunks'[k] # <<>> => life[k] \in {"loading", "loaded"}
    BY <1>3, <1>7, <1>10 DEF OwnersLive
  <2> QED BY <1>2, <1>3, <2>1 DEF OwnersLive
<1>14. CallsLive'
  BY <1>2, <1>3, <1>4, <1>8, CutCallsLive
<1>15. ASSUME ~reentered'
       PROVE  (WaitsOnce /\ StackReaches /\ AnswersReached /\ ThunksReached)'
  <2>1. WaitsOnce /\ StackReaches /\ AnswersReached /\ ThunksReached
    BY <1>2, <1>15 DEF LookupInv
  <2>2. ChainsStay({})
    BY <1>2, ChainsGrow
  <2>3. WaitsOnce'
    <3>1. \A i \in 1 .. d : calls[i].op = "provide" =>
              cache'[calls[i].of][calls[i].name] = Absent
      BY <1>2, <1>5, <2>1 DEF WaitsOnce
    <3> QED BY <1>4, <1>8, <2>1, <3>1, CutWaits
  <2>4. StackReaches'
    BY <1>4, <1>8, <2>1, <2>2, CutReaches
  <2>5. AnswersReached'
    <3>1. \A k \in Modules : answers'[k] = answers[k]
      BY <1>2
    <3> QED BY <1>3, <2>1, <2>2, <3>1, AnswersKept
  <2>6. ThunksReached'
    <3>1. Reaches(m, Top.of)
      <4>1. \A k \in d + 1 .. L : calls[k].op \in {"find", "given"}
        BY <1>1 DEF OneLookup
      <4>2. Top.of # Null
        BY <1>9, LookupAssumption
      <4> QED BY <1>1, <1>5, <1>6, <2>1, <4>1, <4>2 DEF StackReaches
    <3>2. ASSUME NEW k \in Modules, NEW i \in DOMAIN thunks'[k]
          PROVE  Reaches(k, thunks[k][i][1])'
      <4>1. CASE k = m /\ i = Len(thunks[m]) + 1
        <5>1. thunks'[k][i] = r
          <6>1. thunks'[k] = Append(thunks[m], r)
            BY <1>10, <4>1
          <6>2. Append(thunks[m], r)[Len(thunks[m]) + 1] = r
            BY <1>9, <1>10, Appended
          <6> QED BY <4>1, <6>1, <6>2
        <5>2. PICK t \in Modules : t = thunks'[k][i][1]
          BY <1>9, <5>1
        <5>3. Reaches(m, t)
          BY <1>9, <3>1, <5>1, <5>2
        <5>4. Reaches(k, t)'
          BY <1>6, <2>2, <4>1, <5>3 DEF ChainsStay
        <5> QED BY <5>2, <5>4
      <4>2. CASE ~(k = m /\ i = Len(thunks[m]) + 1)
        <5> HIDE DEF Address
        <5>1. i \in DOMAIN thunks[k] /\ thunks'[k][i] = thunks[k][i]
          <6>1. CASE k = m
            <7>1. thunks'[m] = Append(thunks[m], r) /\ i \in DOMAIN thunks'[m]
              BY <1>6, <1>10, <6>1
            <7>2. i \in 1 .. Len(thunks[m])
              BY <1>9, <1>10, <4>2, <6>1, <7>1, Appended
            <7> QED BY <1>9, <1>10, <6>1, <7>1, <7>2, Appended
          <6>2. CASE k # m
            BY <1>10, <6>2
          <6> QED BY <6>1, <6>2
        <5>2. thunks[k][i] \in Address
          BY <1>3, <5>1 DEF TypeOK
        <5>3. PICK t \in Modules : t = thunks[k][i][1]
          BY <5>2 DEF Address
        <5>4. Reaches(k, t)
          BY <2>1, <5>1, <5>3 DEF ThunksReached
        <5>5. Reaches(k, t)'
          BY <2>2, <5>4 DEF ChainsStay
        <5>6. t = thunks'[k][i][1]
          BY <5>1, <5>3
        <5> QED BY <5>5, <5>6
      <4> QED BY <4>1, <4>2
    <3> QED BY <3>2 DEF ThunksReached
  <2> QED BY <2>3, <2>4, <2>5, <2>6
<1> QED BY <1>11, <1>12, <1>13, <1>14, <1>15 DEF LookupInv

\* A load that is done, and nothing else of its module is on the stack.
LEMMA LoadDoneKeeps ==
    ASSUME LookupInv, LoadDone
    PROVE  LookupInv'
<1> DEFINE L == Len(calls)
<1>1. /\ calls # <<>> /\ Top.op = "load" /\ calls' = Below(L - 1)
      /\ life' = [life EXCEPT ![Top.of] = "loaded"]
      /\ held' = [held EXCEPT ![Top.of] = TRUE]
  BY DEF LoadDone, Runs
<1>2. UNCHANGED <<cache, thunks, answers, reentered>>
  BY DEF LoadDone
<1>3. TypeOK /\ StackShape /\ OwnersLive /\ CallsLive
  BY DEF LookupInv
<1>4. /\ calls \in Seq(Call) /\ L \in Nat /\ L > 0 /\ Top = calls[L]
      /\ DOMAIN calls = 1 .. L /\ Top \in Call /\ L - 1 \in 0 .. L /\ L \in DOMAIN calls
  BY <1>1, <1>3, TopTyped
<1>5. PICK m \in Modules : Top.of = m /\ Top = [op |-> "load", of |-> m]
  BY <1>1, <1>4, CallFields
<1>6. /\ life[m] = "loading"
      /\ \A j \in DOMAIN calls : calls[j] = Top => j = L
  BY <1>1, <1>3, <1>4, <1>5 DEF CallsLive
<1>7. \A k \in Modules : /\ life'[k] = IF k = m THEN "loaded" ELSE life[k]
                         /\ held'[k] = IF k = m THEN TRUE ELSE held[k]
  BY <1>1, <1>3, <1>5 DEF TypeOK
<1>8. Cut(L - 1)
  BY <1>1, <1>4 DEF Cut
<1>9. TypeOK'
  <2>1. calls' \in Seq(Call) /\ Len(calls)' = L - 1
    BY <1>4, <1>8, CutFacts
  <2>2. Len(calls)' <= MaxCalls
    <3>1. L <= MaxCalls /\ MaxCalls \in Int
      BY <1>3, LookupAssumption DEF TypeOK
    <3> HIDE DEF L
    <3> QED BY <1>4, <2>1, <3>1
  <2>3. /\ life' \in [Modules -> {"new", "loading", "loaded", "gone"}]
        /\ held' \in [Modules -> BOOLEAN]
    BY <1>1, <1>3, <1>5 DEF TypeOK
  <2> QED BY <1>2, <1>3, <2>1, <2>2, <2>3 DEF TypeOK
<1>10. StackShape'
  BY <1>2, <1>3, <1>4, <1>8, CutShape
<1>11. OwnersLive'
  BY <1>2, <1>3, <1>7 DEF OwnersLive
<1>12. CallsLive'
  <2>1. ASSUME NEW i \in 1 .. L - 1,
               calls[i].op \in {"find", "given", "load"}, calls[i].of # Null
        PROVE  life'[calls[i].of] = life[calls[i].of]
    <3>1. i \in DOMAIN calls /\ i # L
      <4> HIDE DEF L
      <4>1. i \in 1 .. L /\ i < L
        BY <1>4
      <4> QED BY <1>4, <4>1
    <3>2. calls[i] \in Call
      BY <1>4, <3>1, StackTyped
    <3>3. calls[i].of \in Modules
      BY <2>1, <3>2, CallFields
    <3>4. calls[i].of # m
      <4>1. CASE calls[i].op = "load"
        BY <1>5, <1>6, <3>1, <3>2, <4>1, CallFields
      <4>2. CASE calls[i].op \in {"find", "given"}
        BY <1>3, <1>6, <2>1, <3>1, <4>2 DEF CallsLive
      <4> QED BY <2>1, <4>1, <4>2
    <3> QED BY <1>7, <3>3, <3>4
  <2> QED BY <1>3, <1>4, <1>8, <2>1, CutCallsLive
<1>13. ASSUME ~reentered'
       PROVE  (WaitsOnce /\ StackReaches /\ AnswersReached /\ ThunksReached)'
  <2>1. WaitsOnce /\ StackReaches /\ AnswersReached /\ ThunksReached
    BY <1>2, <1>13 DEF LookupInv
  <2>2. ChainsStay({})
    BY <1>2, ChainsGrow
  <2>3. WaitsOnce'
    <3>1. \A i \in 1 .. L - 1 : calls[i].op = "provide" =>
              cache'[calls[i].of][calls[i].name] = Absent
      BY <1>2, <1>4, <2>1 DEF WaitsOnce
    <3> QED BY <1>4, <1>8, <2>1, <3>1, CutWaits
  <2>4. StackReaches'
    BY <1>4, <1>8, <2>1, <2>2, CutReaches
  <2>5. AnswersReached'
    BY <1>2, <1>3, <2>1, <2>2, AnswersKept
  <2>6. ThunksReached'
    BY <1>2, <1>3, <2>1, <2>2, ThunksKept
  <2> QED BY <2>3, <2>4, <2>5, <2>6
<1> QED BY <1>9, <1>10, <1>11, <1>12, <1>13 DEF LookupInv

\* What stays when modules go that nobody has.
LEMMA GoneKeeps ==
    ASSUME LookupInv, NEW ms \in SUBSET Modules, Gone(ms), NEW d, Cut(d),
           UNCHANGED <<held, reentered>>,
           \A k \in ms : ~held[k],
           \A k \in Modules, n \in Names : cache[k][n] \notin ms,
           \A i \in 1 .. d :
               calls[i].op \in {"find", "given", "load"} => calls[i].of \notin ms
    PROVE  LookupInv'
<1> DEFINE L == Len(calls)
<1>1. TypeOK /\ StackShape /\ OwnersLive /\ CallsLive /\ calls \in Seq(Call)
  BY DEF LookupInv, TypeOK
<1>2. /\ d \in Nat /\ L \in Nat /\ d <= L /\ calls' \in Seq(Call) /\ Len(calls)' = d
      /\ 1 .. d \subseteq DOMAIN calls /\ DOMAIN calls = 1 .. L
      /\ \A i \in 1 .. d : calls[i] \in Call
  BY <1>1, CutFacts
<1>3. \A k \in Modules :
          /\ life'[k] = IF k \in ms THEN "gone" ELSE life[k]
          /\ cache'[k] = IF k \in ms THEN NoEntries ELSE cache[k]
          /\ thunks'[k] = IF k \in ms THEN <<>> ELSE thunks[k]
          /\ answers'[k] = IF k \in ms THEN NotAsked ELSE answers[k]
  BY DEF Gone
<1>4. TypeOK'
  <2>1. Len(calls)' <= MaxCalls
    <3>1. L <= MaxCalls /\ MaxCalls \in Int
      BY <1>1, LookupAssumption DEF TypeOK
    <3> HIDE DEF L
    <3> QED BY <1>2, <3>1
  <2>2. life' \in [Modules -> {"new", "loading", "loaded", "gone"}]
    BY <1>1 DEF TypeOK, Gone
  <2>3. cache' \in [Modules -> [Names -> Modules \cup {Null, Absent}]]
    BY <1>1 DEF TypeOK, Gone, NoEntries
  <2>4. thunks' \in [Modules -> Seq(Address)]
    BY <1>1 DEF TypeOK, Gone
  <2>5. answers' \in [Modules -> [Symbols -> Address \cup {Null, Unasked}]]
    BY <1>1 DEF TypeOK, Gone, NotAsked
  <2>6. held' \in [Modules -> BOOLEAN] /\ reentered' \in BOOLEAN
    BY <1>1 DEF TypeOK
  <2> QED BY <1>2, <2>1, <2>2, <2>3, <2>4, <2>5, <2>6 DEF TypeOK
<1>5. StackShape'
  <2>1. ASSUME NEW i \in DOMAIN calls, calls[i].op = "load", i < d
        PROVE  thunks'[calls[i].of] = thunks[calls[i].of]
    <3>1. i \in 1 .. d
      BY <1>2, <2>1
    <3>2. calls[i].of \in Modules \ ms
      BY <1>2, <2>1, <3>1, CallFields
    <3> QED BY <1>3, <3>2
  <2> QED BY <1>1, <2>1, CutShape
<1>6. OwnersLive'
  <2>1. \A k \in Modules : held'[k] => life'[k] = "loaded"
    BY <1>1, <1>3 DEF OwnersLive
  <2>2. \A k \in Modules, n \in Names :
            cache'[k][n] \in Modules => life'[cache'[k][n]] = "loaded"
    <3>1. Absent \notin Modules
      BY LookupAssumption
    <3> QED BY <1>1, <1>3, <3>1 DEF OwnersLive, NoEntries
  <2>3. \A k \in Modules, s \in Symbols : answers'[k][s] # Unasked => life'[k] = "loaded"
    BY <1>1, <1>3 DEF OwnersLive, NotAsked
  <2>4. \A k \in Modules : thunks'[k] # <<>> => life'[k] \in {"loading", "loaded"}
    BY <1>1, <1>3 DEF OwnersLive
  <2> QED BY <2>1, <2>2, <2>3, <2>4 DEF OwnersLive
<1>7. CallsLive'
  <2>1. ASSUME NEW i \in 1 .. d,
               calls[i].op \in {"find", "given", "load"}, calls[i].of # Null
        PROVE  life'[calls[i].of] = life[calls[i].of]
    <3>1. calls[i].of \in Modules \ ms
      BY <1>2, <2>1, CallFields
    <3> QED BY <1>3, <3>1
  <2> QED BY <1>1, <2>1, CutCallsLive
<1>8. ASSUME ~reentered'
      PROVE  (WaitsOnce /\ StackReaches /\ AnswersReached /\ ThunksReached)'
  <2>1. WaitsOnce /\ StackReaches /\ AnswersReached /\ ThunksReached
    BY <1>8 DEF LookupInv
  <2>2. ChainsStay(ms)
    BY <1>3, ChainsSurvive
  <2>3. WaitsOnce'
    <3>1. ASSUME NEW i \in 1 .. d, calls[i].op = "provide"
          PROVE  cache'[calls[i].of][calls[i].name] = Absent
      <4>1. calls[i].of \in Modules /\ calls[i].name \in Names
        BY <1>2, <3>1, CallFields
      <4>2. cache[calls[i].of][calls[i].name] = Absent
        BY <1>2, <2>1, <3>1 DEF WaitsOnce
      <4> QED BY <1>3, <4>1, <4>2 DEF NoEntries
    <3> QED BY <1>1, <2>1, <3>1, CutWaits
  <2>4. StackReaches'
    BY <1>1, <2>1, <2>2, CutReaches
  <2>5. AnswersReached'
    BY <1>1, <1>3, <2>1, <2>2, AnswersKept
  <2>6. ThunksReached'
    BY <1>1, <1>3, <2>1, <2>2, ThunksKept
  <2> QED BY <2>3, <2>4, <2>5, <2>6
<1> QED BY <1>4, <1>5, <1>6, <1>7, <1>8 DEF LookupInv

\* An exception takes along what was being loaded: no cache has it.
LEMMA ThrowingKeeps ==
    ASSUME LookupInv, NEW d \in Nat, Throwing(d)
    PROVE  LookupInv'
<1> DEFINE L == Len(calls)
           failed == {m \in Modules : \E i \in d + 1 .. L :
                          calls[i] = [op |-> "load", of |-> m]}
<1>1. /\ d \in 0 .. L /\ calls' = Below(d) /\ Gone(failed)
      /\ UNCHANGED <<held, reentered>>
  BY DEF Throwing, Unwind
<1>2. TypeOK /\ StackShape /\ OwnersLive /\ CallsLive /\ calls \in Seq(Call)
  BY DEF LookupInv, TypeOK
<1>3. L \in Nat /\ DOMAIN calls = 1 .. L
  BY <1>2, StackTyped
<1>4. Cut(d)
  BY <1>1 DEF Cut
<1>5. ASSUME NEW i \in d + 1 .. L
      PROVE  i \in DOMAIN calls /\ \A j \in 1 .. d : j \in DOMAIN calls /\ j # i
  <2> HIDE DEF L
  <2>1. i \in 1 .. L /\ \A j \in 1 .. d : j \in 1 .. L /\ j # i
    BY <1>1, <1>3
  <2> QED BY <1>3, <2>1
<1>6. ASSUME NEW m \in failed
      PROVE  /\ life[m] = "loading" /\ m \in Modules
             /\ \A j \in 1 .. d : calls[j] # [op |-> "load", of |-> m]
  <2>1. PICK i \in d + 1 .. L : calls[i] = [op |-> "load", of |-> m]
    OBVIOUS
  <2>2. calls[i].op = "load" /\ calls[i].of = m
    BY <2>1
  <2> QED BY <1>2, <1>5, <2>1, <2>2 DEF CallsLive
<1> HIDE DEF failed
<1>7. failed \in SUBSET Modules
  BY <1>6
<1>8. \A k \in failed : ~held[k]
  BY <1>2, <1>6 DEF OwnersLive
<1>9. \A k \in Modules, n \in Names : cache[k][n] \notin failed
  BY <1>2, <1>6 DEF OwnersLive
<1>10. ASSUME NEW i \in 1 .. d, calls[i].op \in {"find", "given", "load"}
       PROVE  calls[i].of \notin failed
  <2>1. i \in DOMAIN calls /\ calls[i] \in Call
    BY <1>2, <1>4, CutFacts
  <2>2. CASE calls[i].op = "load"
    BY <1>6, <2>1, <2>2, CallFields
  <2>3. CASE calls[i].op \in {"find", "given"}
    <3>1. Null \notin failed
      BY <1>7, LookupAssumption
    <3> QED BY <1>2, <1>6, <2>1, <2>3, <3>1 DEF CallsLive
  <2> QED BY <1>10, <2>2, <2>3
<1> QED BY <1>1, <1>4, <1>7, <1>8, <1>9, <1>10, GoneKeeps

\* A destructor runs when nothing has the module.
LEMMA DestroyKeeps ==
    ASSUME LookupInv, NEW m \in Modules, Destroy(m)
    PROVE  LookupInv'
<1>1. ~Referenced(m) /\ Gone({m}) /\ calls' = calls /\ UNCHANGED <<held, reentered>>
  BY DEF Destroy
<1>2. calls \in Seq(Call)
  BY DEF LookupInv, TypeOK
<1>3. Cut(Len(calls)) /\ DOMAIN calls = 1 .. Len(calls)
  BY <1>1, <1>2, SameIsCut, StackTyped
<1>4. /\ ~held[m]
      /\ \A k \in Modules, n \in Names : cache[k][n] # m
      /\ \A i \in 1 .. Len(calls) : calls[i].of # m
  BY <1>1, <1>3 DEF Referenced
<1>5. /\ \A k \in {m} : ~held[k]
      /\ \A k \in Modules, n \in Names : cache[k][n] \notin {m}
      /\ \A i \in 1 .. Len(calls) :
             calls[i].op \in {"find", "given", "load"} => calls[i].of \notin {m}
  BY <1>4
<1> QED BY <1>1, <1>3, <1>5, GoneKeeps

LEMMA DropKeeps ==
    ASSUME LookupInv, NEW m \in Modules, Drop(m)
    PROVE  LookupInv'
<1>1. held' = [held EXCEPT ![m] = FALSE]
      /\ UNCHANGED <<life, cache, thunks, calls, answers, reentered>>
  BY DEF Drop
<1>2. UNCHANGED <<life, cache, thunks, calls, answers, reentered>>
  BY <1>1
<1>3. TypeOK /\ StackShape /\ OwnersLive /\ CallsLive /\ calls \in Seq(Call)
  BY DEF LookupInv, TypeOK
<1>4. TypeOK'
  BY <1>1, <1>3 DEF TypeOK
<1>5. OwnersLive'
  <2>1. \A k \in Modules : held'[k] => held[k]
    BY <1>1, <1>3 DEF TypeOK
  <2> QED BY <1>2, <1>3, <2>1 DEF OwnersLive
<1>6. Cut(Len(calls)) /\ DOMAIN calls = 1 .. Len(calls)
  BY <1>2, <1>3, SameIsCut, StackTyped
<1>7. StackShape' /\ CallsLive'
  BY <1>2, <1>3, <1>6, CutShape, CutCallsLive
<1>8. ASSUME ~reentered'
      PROVE  (WaitsOnce /\ StackReaches /\ AnswersReached /\ ThunksReached)'
  <2>1. WaitsOnce /\ StackReaches /\ AnswersReached /\ ThunksReached
    BY <1>2, <1>8 DEF LookupInv
  <2>2. ChainsStay({})
    BY <1>2, ChainsGrow
  <2>3. WaitsOnce'
    BY <1>2, <2>1 DEF WaitsOnce
  <2>4. StackReaches'
    BY <1>3, <1>6, <2>1, <2>2, CutReaches
  <2>5. AnswersReached'
    BY <1>2, <1>3, <2>1, <2>2, AnswersKept
  <2>6. ThunksReached'
    BY <1>2, <1>3, <2>1, <2>2, ThunksKept
  <2> QED BY <2>3, <2>4, <2>5, <2>6
<1> QED BY <1>4, <1>5, <1>7, <1>8 DEF LookupInv

\* The client, or a provider, calls.
LEMMA ClientCalls ==
    ASSUME LookupInv, ClientRuns, NEW c \in Call, Enter(c),
           UNCHANGED <<held, cache, thunks, answers, reentered>>,
           life' \in [Modules -> {"new", "loading", "loaded", "gone"}],
           \A k \in Modules : life'[k] = life[k] \/ life[k] = "new",
           \/ c.op = "find" /\ life'[c.of] = "loaded"
           \/ c.op = "load" /\ life[c.of] = "new" /\ life'[c.of] = "loading"
    PROVE  LookupInv'
<1> DEFINE L == Len(calls)
<1>1. /\ calls # <<>> => Top.op = "provide"
      /\ L < MaxCalls /\ calls' = Append(calls, c)
  BY DEF ClientRuns, Enter
<1>2. TypeOK /\ StackShape /\ OwnersLive /\ CallsLive /\ calls \in Seq(Call)
  BY DEF LookupInv, TypeOK
<1>3. /\ L \in Nat /\ DOMAIN calls = 1 .. L
      /\ L > 0 => calls[L].op = "provide"
  BY <1>1, <1>2, StackTyped DEF Top
<1>4. Put(L, c)
  BY <1>1, <1>2, PushIsPut
<1>5. TypeOK'
  <2>1. calls' \in Seq(Call) /\ Len(calls)' = L + 1
    BY <1>2, <1>4, PutFacts
  <2>2. Len(calls)' <= MaxCalls
    <3>1. MaxCalls \in Int
      BY LookupAssumption
    <3> HIDE DEF L
    <3> QED BY <1>1, <1>3, <2>1, <3>1
  <2> QED BY <1>2, <2>1, <2>2 DEF TypeOK
<1>6. StackShape'
  BY <1>2, <1>3, <1>4, PutShape
<1>7. OwnersLive'
  <2>1. \A k \in Modules : life[k] \in {"loading", "loaded"} => life'[k] = life[k]
    OBVIOUS
  <2>2. \A k \in Modules, n \in Names :
            cache[k][n] \in Modules => life'[cache[k][n]] = "loaded"
    BY <1>2, <2>1 DEF OwnersLive
  <2> QED BY <1>2, <2>1, <2>2 DEF OwnersLive
<1>8. CallsLive'
  <2>1. ASSUME NEW i \in 1 .. L,
               calls[i].op \in {"find", "given", "load"}, calls[i].of # Null
        PROVE  life[calls[i].of] # "new" /\ life'[calls[i].of] = life[calls[i].of]
    <3>1. calls[i] \in Call /\ i \in DOMAIN calls
      BY <1>2, <1>3, StackTyped
    <3>2. calls[i].of \in Modules
      BY <2>1, <3>1, CallFields
    <3>3. life[calls[i].of] \in {"loading", "loaded"}
      BY <1>2, <2>1, <3>1 DEF CallsLive
    <3> QED BY <3>2, <3>3
  <2>2. c.op = "load" => \A i \in 1 .. L : calls[i] # c
    <3>1. c.op = "load" => c.of # Null
      BY CallFields, LookupAssumption
    <3> QED BY <2>1, <3>1
  <2> QED BY <1>2, <1>3, <1>4, <2>1, <2>2, PutCallsLive
<1>9. ASSUME ~reentered'
      PROVE  (WaitsOnce /\ StackReaches /\ AnswersReached /\ ThunksReached)'
  <2>1. WaitsOnce /\ StackReaches /\ AnswersReached /\ ThunksReached
    BY <1>9 DEF LookupInv
  <2>2. ChainsStay({})
    BY ChainsGrow
  <2>3. WaitsOnce'
    <3>1. \A i \in 1 .. L : calls[i].op = "provide" =>
              cache'[calls[i].of][calls[i].name] = Absent
      BY <1>3, <2>1 DEF WaitsOnce
    <3> QED BY <1>2, <1>3, <1>4, <2>1, <3>1, PutWaits
  <2>4. StackReaches'
    BY <1>2, <1>3, <1>4, <2>1, <2>2, PutReaches
  <2>5. AnswersReached'
    BY <1>2, <2>1, <2>2, AnswersKept
  <2>6. ThunksReached'
    BY <1>2, <2>1, <2>2, ThunksKept
  <2> QED BY <2>3, <2>4, <2>5, <2>6
<1> QED BY <1>5, <1>6, <1>7, <1>8, <1>9 DEF LookupInv

LEMMA AskKeeps ==
    ASSUME LookupInv, NEW m \in Modules, NEW s \in Symbols, Ask(m, s)
    PROVE  LookupInv'
<1> DEFINE c == [op |-> "find", of |-> m, symbol |-> s]
<1>1. /\ ClientRuns /\ held[m] /\ Enter(c)
      /\ UNCHANGED <<life, held, cache, thunks, answers, reentered>>
  BY DEF Ask
<1>2. c \in Call /\ c.op = "find" /\ c.of = m
  BY CallsMade
<1>3. /\ life' = life /\ life \in [Modules -> {"new", "loading", "loaded", "gone"}]
      /\ life[m] = "loaded"
      /\ UNCHANGED <<held, cache, thunks, answers, reentered>>
  BY <1>1 DEF LookupInv, TypeOK, OwnersLive
<1> HIDE DEF c
<1> QED BY <1>1, <1>2, <1>3, ClientCalls

LEMMA LoadKeeps ==
    ASSUME LookupInv, NEW m \in Modules, Load(m)
    PROVE  LookupInv'
<1> DEFINE c == [op |-> "load", of |-> m]
<1>1. /\ ClientRuns /\ life[m] = "new" /\ Enter(c)
      /\ life' = [life EXCEPT ![m] = "loading"]
      /\ UNCHANGED <<held, cache, thunks, answers, reentered>>
  BY DEF Load
<1>2. c \in Call /\ c.op = "load" /\ c.of = m
  BY CallsMade
<1>3. life \in [Modules -> {"new", "loading", "loaded", "gone"}]
  BY DEF LookupInv, TypeOK
<1>4. /\ life' \in [Modules -> {"new", "loading", "loaded", "gone"}]
      /\ life'[m] = "loading"
      /\ \A k \in Modules : life'[k] = life[k] \/ life[k] = "new"
  BY <1>1, <1>3
<1> HIDE DEF c
<1> QED BY <1>1, <1>2, <1>4, ClientCalls

-----------------------------------------------------------------------------
(* The theorems *)

LEMMA LookupInvInit == Init => LookupInv
<1> SUFFICES ASSUME Init
             PROVE  LookupInv
  OBVIOUS
<1>1. calls = <<>> /\ calls \in Seq(Call) /\ Len(calls) = 0 /\ DOMAIN calls = {}
  BY DEF Init
<1>2. TypeOK
  <2>1. thunks \in [Modules -> Seq(Address)]
    BY DEF Init
  <2>2. answers \in [Modules -> [Symbols -> Address \cup {Null, Unasked}]]
    BY DEF Init, NotAsked
  <2>3. cache \in [Modules -> [Names -> Modules \cup {Null, Absent}]]
    BY DEF Init, NoEntries
  <2>4. Len(calls) <= MaxCalls
    BY <1>1, LookupAssumption
  <2>5. /\ life \in [Modules -> {"new", "loading", "loaded", "gone"}]
        /\ held \in [Modules -> BOOLEAN] /\ reentered \in BOOLEAN
    BY DEF Init
  <2> QED BY <1>1, <2>1, <2>2, <2>3, <2>4, <2>5 DEF TypeOK
<1>3. StackShape /\ CallsLive /\ WaitsOnce /\ StackReaches
  BY <1>1 DEF StackShape, CallsLive, WaitsOnce, StackReaches
<1>4. OwnersLive
  BY LookupAssumption DEF OwnersLive, Init, NoEntries, NotAsked
<1>5. AnswersReached
  BY LookupAssumption DEF AnswersReached, Init, NotAsked, Address
<1>6. ThunksReached
  BY DEF ThunksReached, Init
<1> QED BY <1>2, <1>3, <1>4, <1>5, <1>6 DEF LookupInv

LEMMA LookupInvStep == LookupInv /\ [Next]_vars => LookupInv'
<1> SUFFICES ASSUME LookupInv, [Next]_vars
             PROVE  LookupInv'
  OBVIOUS
<1>1. CASE Next
  <2> HIDE DEF LookupInv
  <2> QED
    BY <1>1, StepKinds, AskingKeeps, ContinuingKeeps, AnsweringKeeps, ImportingKeeps,
       ThrowingKeeps, ProviderAnswersKeeps, LoadDoneKeeps, LoadKeeps, DropKeeps,
       DestroyKeeps, AskKeeps
<1>2. CASE UNCHANGED vars
  <2>1. /\ life' = life /\ held' = held /\ cache' = cache /\ thunks' = thunks
        /\ calls' = calls /\ answers' = answers /\ reentered' = reentered
    BY <1>2 DEF vars
  <2>2. TypeOK' = TypeOK /\ OwnersLive' = OwnersLive /\ CallsLive' = CallsLive
    BY <2>1 DEF TypeOK, OwnersLive, CallsLive
  <2>3. StackShape' = StackShape /\ WaitsOnce' = WaitsOnce
    BY <2>1 DEF StackShape, Entry, ImportsLeft, WaitsOnce
  <2>4. StackReaches' = StackReaches
    BY <2>1 DEF StackReaches, Reaches, Closed
  <2>5. AnswersReached' = AnswersReached
    BY <2>1 DEF AnswersReached, Reaches, Closed
  <2>6. ThunksReached' = ThunksReached
    BY <2>1 DEF ThunksReached, Reaches, Closed
  <2> QED BY <2>1, <2>2, <2>3, <2>4, <2>5, <2>6 DEF LookupInv
<1> QED BY <1>1, <1>2

\* The inductive invariant: the stack has its shape, what is used is loaded, and
\* until a cache is asked for a name it waits for, everything that was told is
\* reached by a chain of caches.
THEOREM LookupInvariant == Spec => []LookupInv
BY LookupInvInit, LookupInvStep, PTL DEF Spec

\* The stack, the caches, the thunks and what the client was told are typed.
THEOREM LookupType == Spec => []TypeOK
<1>1. LookupInv => TypeOK
  BY DEF LookupInv
<1> QED BY <1>1, LookupInvariant, PTL

\* An address the client was told is in a module that is still loaded, through any
\* number of forwarders and whatever the providers did meanwhile.
THEOREM AnswersCorrect == Spec => []AnswersLive
<1>1. LookupInv => AnswersLive
  <2> SUFFICES ASSUME LookupInv, NEW m \in Modules, NEW s \in Symbols,
                      ~reentered, answers[m][s] \in Address
               PROVE  life[answers[m][s][1]] = "loaded"
    BY DEF AnswersLive
  <2>1. answers[m][s][1] \in Modules /\ answers[m][s] # Unasked
    BY LookupAssumption DEF Address
  <2>2. life[m] = "loaded"
    BY <2>1 DEF LookupInv, OwnersLive
  <2>3. answers[m][s][1] = m \/ Reaches(m, answers[m][s][1])
    BY DEF LookupInv, AnswersReached
  <2> QED BY <2>1, <2>2, <2>3, ReachedIsLoaded DEF LookupInv
<1> QED BY <1>1, LookupInvariant, PTL

\* A thunk that was written points into a loaded module, as long as its own is
\* there.
THEOREM ThunksCorrect == Spec => []ThunksLive
<1>1. LookupInv => ThunksLive
  <2> SUFFICES ASSUME LookupInv, ~reentered, NEW m \in Modules, NEW i \in DOMAIN thunks[m]
               PROVE  life[thunks[m][i][1]] = "loaded"
    BY DEF ThunksLive
  <2>1. thunks[m] \in Seq(Address)
    BY DEF LookupInv, TypeOK
  <2>2. thunks[m][i] \in Address
    BY <2>1
  <2>3. thunks[m][i][1] \in Modules
    BY <2>2 DEF Address
  <2>4. Reaches(m, thunks[m][i][1])
    BY DEF LookupInv, ThunksReached
  <2> QED BY <2>3, <2>4, ReachedIsLoaded DEF LookupInv
<1> QED BY <1>1, LookupInvariant, PTL

-----------------------------------------------------------------------------
(* A symbol is looked up alike every time *)

Result == Address \cup {Null}

Told == Modules \X Symbols \X Result

\* What find_symbol returns for symbol s of m, if this is what it returns for
\* others.
FollowsFrom(R, m, s, r) ==
    LET e == Exports[m][s]
        x == cache[m][e.name]
    IN  \/ e.kind = "own" /\ r = <<m, s>>
        \/ e.kind = "none" /\ r = Null
        \/ e.kind = "forwarder" /\ x = Null /\ r = Null
        \/ e.kind = "forwarder" /\ x \in Modules /\ <<x, e.symbol, r>> \in R

Complete(R) ==
    \A m \in Modules, s \in Symbols, r \in Result :
        FollowsFrom(R, m, s, r) => <<m, s, r>> \in R

\* With the entries the caches have, a lookup of s in m comes to r.
ComesTo(m, s, r) == \A R \in SUBSET Told : Complete(R) => <<m, s, r>> \in R

\* What symbol t of k comes to, s of m does.
Forwards(m, s, k, t) ==
    \A R \in SUBSET Told, r \in Result :
        Complete(R) /\ <<k, t, r>> \in R => <<m, s, r>> \in R

\* The client was told what its lookup comes to.
AnswersFollow ==
    \A m \in Modules, s \in Symbols :
        answers[m][s] # Unasked => ComesTo(m, s, answers[m][s])

\* Lookups that wait for one another wait for the same.
StackForwards ==
    \A i, j \in DOMAIN calls :
        /\ i < j /\ calls[i].op = "find"
        /\ \A k \in i + 1 .. j : calls[k].op = "find"
        => Forwards(calls[i].of, calls[i].symbol, calls[j].of, calls[j].symbol)

\* A cache is asked for the name the forwarder has, and gives what it has then.
EntriesGiven ==
    \A i \in DOMAIN calls :
        i > 1 /\ calls[i - 1].op = "find" =>
            /\ calls[i].op = "provide" => calls[i].name = Entry(calls[i - 1]).name
            /\ calls[i].op = "given" =>
                   cache[calls[i - 1].of][Entry(calls[i - 1]).name] = calls[i].of

StayInv == ~reentered => AnswersFollow /\ StackForwards /\ EntriesGiven

\* The set of what lookups come to is complete,
LEMMA ComesToWhatFollows ==
    ASSUME NEW m \in Modules, NEW s \in Symbols, NEW r \in Result,
           NEW D, D = {d \in Told : ComesTo(d[1], d[2], d[3])},
           FollowsFrom(D, m, s, r)
    PROVE  ComesTo(m, s, r) /\ <<m, s, r>> \in D
<1>1. ASSUME NEW R \in SUBSET Told, Complete(R)
      PROVE  <<m, s, r>> \in R
  <2>1. D \subseteq R
    BY <1>1 DEF ComesTo, Told
  <2>2. FollowsFrom(R, m, s, r)
    BY <2>1 DEF FollowsFrom
  <2> QED BY <1>1, <2>2 DEF Complete
<1>2. ComesTo(m, s, r)
  BY <1>1 DEF ComesTo
<1> QED BY <1>2 DEF Told

\* and nothing is in it without a reason.
LEMMA FollowsWhatComesTo ==
    ASSUME NEW m \in Modules, NEW s \in Symbols, NEW r \in Result,
           NEW D, D = {d \in Told : ComesTo(d[1], d[2], d[3])},
           ComesTo(m, s, r)
    PROVE  FollowsFrom(D, m, s, r)
<1> DEFINE R == {d \in Told : FollowsFrom(D, d[1], d[2], d[3])}
<1>1. R \subseteq D
  <2>1. \A a \in Modules, b \in Symbols, c \in Result :
            FollowsFrom(D, a, b, c) => <<a, b, c>> \in D
    BY ComesToWhatFollows
  <2> QED BY <2>1 DEF Told
<1>2. Complete(R)
  <2> SUFFICES ASSUME NEW a \in Modules, NEW b \in Symbols, NEW c \in Result,
                      FollowsFrom(R, a, b, c)
               PROVE  <<a, b, c>> \in R
    BY DEF Complete
  <2>1. FollowsFrom(D, a, b, c)
    <3> HIDE DEF R
    <3> QED BY <1>1 DEF FollowsFrom
  <2> QED BY <2>1 DEF Told
<1>3. <<m, s, r>> \in R
  <2>1. R \in SUBSET Told
    OBVIOUS
  <2> HIDE DEF R
  <2> QED BY <1>2, <2>1 DEF ComesTo
<1> QED BY <1>3

\* A lookup comes to one result, though forwarders may go in circles.
LEMMA ComesToOne ==
    ASSUME NEW m \in Modules, NEW s \in Symbols,
           NEW r \in Result, ComesTo(m, s, r), NEW q \in Result, ComesTo(m, s, q)
    PROVE  q = r
<1> DEFINE D == {d \in Told : ComesTo(d[1], d[2], d[3])}
           R == {d \in D : \A c \in Result : ComesTo(d[1], d[2], c) => c = d[3]}
<1>1. Null \notin Modules
  BY LookupAssumption
<1>2. Complete(R)
  <2> SUFFICES ASSUME NEW a \in Modules, NEW b \in Symbols, NEW c \in Result,
                      FollowsFrom(R, a, b, c)
               PROVE  <<a, b, c>> \in R
    BY DEF Complete
  <2>1. FollowsFrom(D, a, b, c)
    BY DEF FollowsFrom
  <2>2. <<a, b, c>> \in D
    BY <2>1, ComesToWhatFollows
  <2>3. ASSUME NEW e \in Result, ComesTo(a, b, e)
        PROVE  e = c
    <3>1. FollowsFrom(D, a, b, e)
      BY <2>3, FollowsWhatComesTo
    <3>2. ASSUME NEW x \in Modules, NEW y \in Symbols, <<x, y, c>> \in R, <<x, y, e>> \in D
          PROVE  e = c
      <4>1. ComesTo(x, y, e)
        BY <3>2
      <4> QED BY <3>2, <4>1
    <3>3. Exports[a][b].kind = "forwarder" => Exports[a][b].symbol \in Symbols
      <4>1. Exports[a][b] \in Export
        BY LookupAssumption
      <4> QED BY <4>1 DEF Export
    <3> HIDE DEF D, R
    <3> QED BY <1>1, <3>1, <3>2, <3>3 DEF FollowsFrom
  <2> QED BY <2>2, <2>3
<1>3. <<m, s, r>> \in R
  <2>1. R \in SUBSET Told
    OBVIOUS
  <2> HIDE DEF R
  <2> QED BY <1>2, <2>1 DEF ComesTo
<1> QED BY <1>3

\* The lookups that do not begin in a module of ms stay as they are.
LookupsStay(ms) ==
    \A m \in Modules \ ms, s \in Symbols :
        /\ \A r \in Result : ComesTo(m, s, r) => ComesTo(m, s, r)'
        /\ \A k \in Modules, t \in Symbols : Forwards(m, s, k, t) => Forwards(m, s, k, t)'

LEMMA EntriesKeepLookups ==
    ASSUME NEW ms \in SUBSET Modules,
           \A k \in Modules, n \in Names : cache[k][n] \notin ms,
           \A k \in Modules, n \in Names :
               k \notin ms /\ cache[k][n] # Absent => cache'[k][n] = cache[k][n]
    PROVE  LookupsStay(ms)
<1> DEFINE With(R) == R \cup {d \in Told : d[1] \in ms}
<1>1. ASSUME NEW R \in SUBSET Told, Complete(R)'
      PROVE  With(R) \in SUBSET Told /\ Complete(With(R))
  <2> SUFFICES ASSUME NEW m \in Modules, NEW s \in Symbols, NEW r \in Result,
                      FollowsFrom(With(R), m, s, r)
               PROVE  <<m, s, r>> \in With(R)
    BY DEF Complete
  <2>1. CASE m \in ms
    BY <2>1 DEF Told
  <2>2. CASE m \notin ms
    <3> DEFINE e == Exports[m][s]
               x == cache[m][e.name]
    <3>1. e \in Export
      BY LookupAssumption
    <3>2. e.kind = "forwarder" => e.name \in Names /\ e.symbol \in Symbols
      BY <3>1 DEF Export
    <3>3. Absent # Null /\ Absent \notin Modules
      BY LookupAssumption
    <3>4. e.kind = "forwarder" /\ x \in Modules \cup {Null} =>
              x \notin ms /\ cache'[m][e.name] = x
      BY <2>2, <3>2, <3>3
    <3>5. \A y \in Modules \ ms, z \in Symbols : <<y, z, r>> \in With(R) => <<y, z, r>> \in R
      BY DEF Told
    <3>6. FollowsFrom(R, m, s, r)'
      <4>1. \/ e.kind = "own" /\ r = <<m, s>>
            \/ e.kind = "none" /\ r = Null
            \/ e.kind = "forwarder" /\ x = Null /\ r = Null
            \/ e.kind = "forwarder" /\ x \in Modules /\ <<x, e.symbol, r>> \in With(R)
        BY DEF FollowsFrom
      <4> HIDE DEF With, e, x
      <4>2. \/ e.kind = "own" /\ r = <<m, s>>
            \/ e.kind = "none" /\ r = Null
            \/ e.kind = "forwarder" /\ cache'[m][e.name] = Null /\ r = Null
            \/ /\ e.kind = "forwarder" /\ cache'[m][e.name] \in Modules
               /\ <<cache'[m][e.name], e.symbol, r>> \in R
        BY <3>2, <3>4, <3>5, <4>1
      <4> QED BY <4>2 DEF FollowsFrom, e
    <3> QED BY <1>1, <3>6 DEF Complete
  <2> QED BY <2>1, <2>2
<1>2. ASSUME NEW m \in Modules \ ms, NEW s \in Symbols, NEW r \in Result, NEW R,
             <<m, s, r>> \in With(R)
      PROVE  <<m, s, r>> \in R
  BY <1>2
<1>3. ASSUME NEW R
      PROVE  R \subseteq With(R)
  OBVIOUS
<1> HIDE DEF With
<1>4. ASSUME NEW m \in Modules \ ms, NEW s \in Symbols, NEW r \in Result, ComesTo(m, s, r)
      PROVE  ComesTo(m, s, r)'
  <2> SUFFICES ASSUME NEW R \in SUBSET Told, Complete(R)'
               PROVE  <<m, s, r>> \in R
    BY DEF ComesTo
  <2> QED BY <1>1, <1>2, <1>4 DEF ComesTo
<1>5. ASSUME NEW m \in Modules \ ms, NEW s \in Symbols, NEW k \in Modules, NEW t \in Symbols,
             Forwards(m, s, k, t)
      PROVE  Forwards(m, s, k, t)'
  <2> SUFFICES ASSUME NEW R \in SUBSET Told, NEW r \in Result,
                      Complete(R)', <<k, t, r>> \in R
               PROVE  <<m, s, r>> \in R
    BY DEF Forwards
  <2> QED BY <1>1, <1>2, <1>3, <1>5 DEF Forwards
<1> QED BY <1>4, <1>5 DEF LookupsStay

\* A forwarder comes to what the one it names does,
LEMMA OneForward ==
    ASSUME NEW m \in Modules, NEW s \in Symbols, NEW x \in Modules,
           Exports[m][s].kind = "forwarder", cache[m][Exports[m][s].name] = x
    PROVE  Forwards(m, s, x, Exports[m][s].symbol)
BY DEF Forwards, Complete, FollowsFrom

\* and so on, forwarder by forwarder,
LEMMA ForwardsFurther ==
    ASSUME NEW m \in Modules, NEW s \in Symbols, NEW k \in Modules, NEW t \in Symbols,
           NEW x \in Modules, NEW y \in Symbols,
           Forwards(m, s, k, t), Forwards(k, t, x, y)
    PROVE  Forwards(m, s, x, y)
BY DEF Forwards

\* to the last one.
LEMMA ForwardedResult ==
    ASSUME NEW m \in Modules, NEW s \in Symbols, NEW k \in Modules, NEW t \in Symbols,
           NEW r \in Result, Forwards(m, s, k, t), ComesTo(k, t, r)
    PROVE  ComesTo(m, s, r)
BY DEF Forwards, ComesTo

LEMMA LastResult ==
    ASSUME NEW m \in Modules, NEW s \in Symbols, NEW r \in Result,
           \A R : FollowsFrom(R, m, s, r)
    PROVE  ComesTo(m, s, r)
BY DEF ComesTo, Complete

LEMMA ForwardsNext ==
    ASSUME NEW m \in Modules, NEW s \in Symbols, NEW k \in Modules, NEW t \in Symbols,
           NEW x \in Modules, NEW y \in Symbols
    PROVE  (Forwards(m, s, k, t) /\ Forwards(k, t, x, y) => Forwards(m, s, x, y))'
<1>1. Forwards(m, s, k, t) /\ Forwards(k, t, x, y) => Forwards(m, s, x, y)
  BY ForwardsFurther
<1> QED BY <1>1, PTL

\* What a step may do to the entries, for lookups to stay as they are.
EntriesStay(ms) ==
    /\ ms \in SUBSET Modules
    /\ \A k \in Modules, n \in Names : cache[k][n] \notin ms
    /\ \A k \in Modules, n \in Names :
           k \notin ms /\ cache[k][n] # Absent => cache'[k][n] = cache[k][n]

\* A lookup with a call above it follows a forwarder.
LEMMA ForwarderBelow ==
    ASSUME calls \in Seq(Call), StackShape, NEW i \in DOMAIN calls, i > 1,
           calls[i - 1].op = "find"
    PROVE  /\ calls[i - 1] \in Call /\ Entry(calls[i - 1]).kind = "forwarder"
           /\ Entry(calls[i - 1]).name \in Names /\ Entry(calls[i - 1]).symbol \in Symbols
           /\ calls[i - 1].of \in Modules /\ calls[i - 1].symbol \in Symbols
<1>1. Len(calls) \in Nat /\ DOMAIN calls = 1 .. Len(calls)
  BY StackTyped
<1>2. i - 1 \in DOMAIN calls /\ i - 1 < Len(calls)
  BY <1>1
<1>3. calls[i - 1] \in Call /\ Entry(calls[i - 1]).kind = "forwarder"
  BY <1>2, StackTyped DEF StackShape
<1> QED BY <1>3, CallFields, EntryTyped

LEMMA CutForwards ==
    ASSUME calls \in Seq(Call), StackShape, StackForwards, EntriesGiven, NEW d, Cut(d),
           NEW ms, EntriesStay(ms),
           \A i \in 1 .. d : calls[i].op = "find" => calls[i].of \notin ms
    PROVE  StackForwards' /\ EntriesGiven'
<1>1. /\ d \in Nat /\ (DOMAIN calls)' = 1 .. d /\ 1 .. d \subseteq DOMAIN calls
      /\ \A i \in 1 .. d : calls'[i] = calls[i] /\ calls[i] \in Call
  BY CutFacts
<1>2. LookupsStay(ms)
  BY EntriesKeepLookups DEF EntriesStay
<1>3. ASSUME NEW i \in 1 .. d, NEW j \in 1 .. d, i < j, calls'[i].op = "find",
             \A k \in i + 1 .. j : calls'[k].op = "find"
      PROVE  Forwards(calls[i].of, calls[i].symbol, calls[j].of, calls[j].symbol)'
  <2>1. i + 1 .. j \subseteq 1 .. d /\ j \in i + 1 .. j
    BY <1>1, <1>3
  <2>2. calls'[i] = calls[i] /\ calls'[j] = calls[j] /\ calls[i] \in Call /\ calls[j] \in Call
    BY <1>1
  <2>3. calls[i].op = "find" /\ calls[j].op = "find"
    BY <1>3, <2>1, <2>2
  <2>4. PICK m \in Modules, s \in Symbols : calls[i].of = m /\ calls[i].symbol = s
    BY <2>2, <2>3, CallFields
  <2>5. PICK x \in Modules, y \in Symbols : calls[j].of = x /\ calls[j].symbol = y
    BY <2>2, <2>3, CallFields
  <2>6. Forwards(calls[i].of, calls[i].symbol, calls[j].of, calls[j].symbol)
    BY <1>1, <1>3, <2>1, <2>3 DEF StackForwards
  <2>7. Forwards(m, s, x, y)
    BY <2>4, <2>5, <2>6
  <2>8. m \notin ms
    BY <2>3, <2>4
  <2>9. Forwards(m, s, x, y)'
    BY <1>2, <2>7, <2>8 DEF LookupsStay
  <2> QED BY <2>2, <2>4, <2>5, <2>9
<1>4. StackForwards'
  BY <1>1, <1>3 DEF StackForwards
<1>5. ASSUME NEW i \in 1 .. d, i > 1, calls[i - 1].op = "find"
      PROVE  /\ calls[i].op = "provide" => calls[i].name = Entry(calls[i - 1]).name
             /\ calls[i].op = "given" =>
                    cache'[calls[i - 1].of][Entry(calls[i - 1]).name] = calls[i].of
  <2>1. i - 1 \in 1 .. d /\ i \in DOMAIN calls /\ calls[i] \in Call /\ calls[i - 1] \in Call
    BY <1>1, <1>5
  <2>2. /\ calls[i].op = "provide" => calls[i].name = Entry(calls[i - 1]).name
        /\ calls[i].op = "given" =>
               cache[calls[i - 1].of][Entry(calls[i - 1]).name] = calls[i].of
    BY <1>5, <2>1 DEF EntriesGiven
  <2>3. ASSUME calls[i].op = "given"
        PROVE  cache'[calls[i - 1].of][Entry(calls[i - 1]).name] = calls[i].of
    <3>1. calls[i].of # Absent
      BY <2>1, <2>3, CallFields, LookupAssumption
    <3>2. calls[i - 1].of \in Modules \ ms
      BY <1>5, <2>1, CallFields
    <3>3. Entry(calls[i - 1]).name \in Names
      BY <1>5, <2>1, ForwarderBelow
    <3> QED BY <2>2, <2>3, <3>1, <3>2, <3>3 DEF EntriesStay
  <2> QED BY <2>2, <2>3
<1>6. EntriesGiven'
  <2>1. \A i \in 1 .. d : i > 1 => i - 1 \in 1 .. d
    BY <1>1
  <2> QED BY <1>1, <1>5, <2>1 DEF EntriesGiven, Entry
<1> QED BY <1>4, <1>6

LEMMA PutForwards ==
    ASSUME calls \in Seq(Call), StackShape, StackForwards, EntriesGiven,
           NEW d, NEW c, Put(d, c), EntriesStay({}),
           d > 0 => calls[d].op # "given",
           \A m, k \in Modules, s, t \in Symbols :
               (/\ c.op = "find" /\ c.of = k /\ c.symbol = t /\ d > 0
                /\ calls[d].op = "find" /\ calls[d].of = m /\ calls[d].symbol = s)
               => Forwards(m, s, k, t)',
           d > 0 /\ calls[d].op = "find" =>
               /\ c.op = "provide" => c.name = Entry(calls[d]).name
               /\ c.op = "given" => cache'[calls[d].of][Entry(calls[d]).name] = c.of
    PROVE  StackForwards' /\ EntriesGiven'
<1>1. /\ d \in Nat /\ (DOMAIN calls)' = 1 .. d + 1 /\ 1 .. d \subseteq DOMAIN calls
      /\ \A i \in 1 .. d : calls'[i] = calls[i] /\ calls[i] \in Call
      /\ calls'[d + 1] = c /\ c \in Call
      /\ \A i \in 1 .. d + 1 : i \in 1 .. d \/ i = d + 1
  BY PutFacts
<1>2. LookupsStay({})
  BY EntriesKeepLookups DEF EntriesStay
<1>3. \A m, k \in Modules, s, t \in Symbols : Forwards(m, s, k, t) => Forwards(m, s, k, t)'
  BY <1>2 DEF LookupsStay
<1>4. ASSUME NEW i \in 1 .. d + 1, NEW j \in 1 .. d + 1, i < j, calls'[i].op = "find",
             \A k \in i + 1 .. j : calls'[k].op = "find"
      PROVE  Forwards(calls[i].of, calls[i].symbol, calls[j].of, calls[j].symbol)'
  <2>1. i \in 1 .. d /\ j \in i + 1 .. j /\ i + 1 .. j \subseteq 1 .. d + 1
    BY <1>1, <1>4
  <2>2. calls'[j].op = "find" /\ calls'[j] \in Call /\ calls[i] \in Call
        /\ calls'[i] = calls[i] /\ calls[i].op = "find"
    BY <1>1, <1>4, <2>1
  <2>3. PICK m \in Modules, s \in Symbols : calls'[i].of = m /\ calls'[i].symbol = s
    BY <2>2, CallFields
  <2>4. PICK x \in Modules, y \in Symbols : calls'[j].of = x /\ calls'[j].symbol = y
    BY <2>2, CallFields
  <2>5. CASE j # d + 1
    <3>1. j \in 1 .. d /\ calls'[j] = calls[j] /\ i + 1 .. j \subseteq 1 .. d
      BY <1>1, <2>1, <2>5
    <3>2. Forwards(calls[i].of, calls[i].symbol, calls[j].of, calls[j].symbol)
      BY <1>1, <1>4, <2>1, <2>2, <3>1 DEF StackForwards
    <3>3. Forwards(m, s, x, y)
      BY <2>2, <2>3, <2>4, <3>1, <3>2
    <3>4. Forwards(m, s, x, y)'
      BY <1>3, <3>3
    <3> QED BY <2>3, <2>4, <3>4
  <2>6. CASE j = d + 1
    <3>1. c.op = "find" /\ c.of = x /\ c.symbol = y /\ d > 0
      BY <1>1, <2>1, <2>2, <2>4, <2>6
    <3>2. CASE i = d
      <4>1. Forwards(m, s, x, y)'
        BY <2>2, <2>3, <3>1, <3>2
      <4> QED BY <2>3, <2>4, <4>1
    <3>3. CASE i # d
      <4>1. i < d /\ d \in i + 1 .. j /\ d \in 1 .. d /\ i + 1 .. d \subseteq i + 1 .. j
            /\ i + 1 .. d \subseteq 1 .. d
        BY <1>1, <2>1, <2>6, <3>3
      <4>2. calls[d].op = "find" /\ calls[d] \in Call
        BY <1>1, <1>4, <4>1
      <4>3. PICK k \in Modules, t \in Symbols : calls[d].of = k /\ calls[d].symbol = t
        BY <4>2, CallFields
      <4>4. Forwards(calls[i].of, calls[i].symbol, calls[d].of, calls[d].symbol)
        BY <1>1, <1>4, <2>1, <2>2, <4>1 DEF StackForwards
      <4>5. Forwards(m, s, k, t)'
        <5>1. Forwards(m, s, k, t)
          BY <2>2, <2>3, <4>3, <4>4
        <5> QED BY <1>3, <5>1
      <4>6. Forwards(k, t, x, y)'
        BY <3>1, <4>2, <4>3
      <4>7. Forwards(m, s, x, y)'
        BY <4>5, <4>6, ForwardsNext
      <4> QED BY <2>3, <2>4, <4>7
    <3> QED BY <3>2, <3>3
  <2> QED BY <2>5, <2>6
<1>5. StackForwards'
  BY <1>1, <1>4 DEF StackForwards
<1>6. ASSUME NEW i \in 1 .. d + 1, i > 1, calls'[i - 1].op = "find"
      PROVE  /\ calls'[i].op = "provide" => calls'[i].name = Entry(calls'[i - 1]).name
             /\ calls'[i].op = "given" =>
                    cache'[calls'[i - 1].of][Entry(calls'[i - 1]).name] = calls'[i].of
  <2>1. CASE i = d + 1
    <3>1. d > 0 /\ calls'[i - 1] = calls[d] /\ calls'[i] = c
      BY <1>1, <1>6, <2>1
    <3> QED BY <1>6, <3>1
  <2>2. CASE i \in 1 .. d
    <3>1. i - 1 \in 1 .. d /\ i \in DOMAIN calls /\ calls[i] \in Call
          /\ calls[i - 1] \in Call /\ calls'[i] = calls[i] /\ calls'[i - 1] = calls[i - 1]
      <4>1. i - 1 \in 1 .. d
        BY <1>1, <1>6, <2>2
      <4> QED BY <1>1, <2>2, <4>1
    <3>2. /\ calls[i].op = "provide" => calls[i].name = Entry(calls[i - 1]).name
          /\ calls[i].op = "given" =>
                 cache[calls[i - 1].of][Entry(calls[i - 1]).name] = calls[i].of
      BY <1>6, <3>1 DEF EntriesGiven
    <3>3. ASSUME calls[i].op = "given"
          PROVE  cache'[calls[i - 1].of][Entry(calls[i - 1]).name] = calls[i].of
      <4>1. calls[i].of # Absent
        BY <3>1, <3>3, CallFields, LookupAssumption
      <4>2. calls[i - 1].of \in Modules
        BY <1>6, <3>1, CallFields
      <4>3. Entry(calls[i - 1]).name \in Names
        BY <1>6, <3>1, ForwarderBelow
      <4> QED BY <3>2, <3>3, <4>1, <4>2, <4>3 DEF EntriesStay
    <3> QED BY <3>1, <3>2, <3>3
  <2> QED BY <1>1, <2>1, <2>2
<1>7. EntriesGiven'
  BY <1>1, <1>6 DEF EntriesGiven, Entry
<1> QED BY <1>5, <1>7

\* What the client was told stays, but for the symbols of a module that goes.
AnswersAlike ==
    \A m \in Modules, s \in Symbols :
        answers[m][s] # Unasked /\ life'[m] # "gone" => answers'[m][s] = answers[m][s]

LEMMA AnswersStillFollow ==
    ASSUME TypeOK, AnswersFollow, NEW ms, EntriesStay(ms),
           \A m \in Modules :
               IF m \in ms THEN answers'[m] = NotAsked /\ life'[m] = "gone"
                           ELSE answers'[m] = answers[m]
    PROVE  AnswersFollow' /\ AnswersAlike
<1>1. LookupsStay(ms)
  BY EntriesKeepLookups DEF EntriesStay
<1>2. ASSUME NEW m \in Modules, NEW s \in Symbols, answers'[m][s] # Unasked
      PROVE  ComesTo(m, s, answers[m][s])'
  <2>1. m \notin ms
    BY <1>2 DEF NotAsked
  <2>2. answers'[m][s] = answers[m][s] /\ answers[m][s] \in Address \cup {Null, Unasked}
    BY <2>1 DEF TypeOK
  <2>3. PICK r \in Result : r = answers[m][s]
    BY <1>2, <2>2 DEF Result
  <2>4. ComesTo(m, s, r)
    BY <1>2, <2>2, <2>3 DEF AnswersFollow
  <2>5. ComesTo(m, s, r)'
    BY <1>1, <2>1, <2>4 DEF LookupsStay
  <2>6. r = answers'[m][s]
    BY <2>2, <2>3
  <2> QED BY <2>5, <2>6
<1>3. AnswersFollow'
  BY <1>2 DEF AnswersFollow
<1>4. AnswersAlike
  BY DEF AnswersAlike
<1> QED BY <1>3, <1>4

LEMMA GoneStays ==
    ASSUME LookupInv, StayInv, ~reentered, NEW ms \in SUBSET Modules, Gone(ms),
           NEW d, Cut(d),
           \A k \in Modules, n \in Names : cache[k][n] \notin ms,
           \A i \in 1 .. d : calls[i].op = "find" => calls[i].of \notin ms
    PROVE  (AnswersFollow /\ StackForwards /\ EntriesGiven)' /\ AnswersAlike
<1>1. TypeOK /\ StackShape /\ calls \in Seq(Call)
  BY DEF LookupInv, TypeOK
<1>2. AnswersFollow /\ StackForwards /\ EntriesGiven
  BY DEF StayInv
<1>3. \A k \in Modules :
          /\ k \in ms => answers'[k] = NotAsked /\ life'[k] = "gone"
          /\ k \notin ms => answers'[k] = answers[k] /\ cache'[k] = cache[k]
  BY DEF Gone
<1>4. EntriesStay(ms)
  BY <1>3 DEF EntriesStay
<1>5. StackForwards' /\ EntriesGiven'
  BY <1>1, <1>2, <1>4, CutForwards
<1>6. AnswersFollow' /\ AnswersAlike
  BY <1>1, <1>2, <1>3, <1>4, AnswersStillFollow
<1> QED BY <1>5, <1>6

\* An exception takes along what was being loaded, which was told nothing.
LEMMA ThrowingStays ==
    ASSUME LookupInv, StayInv, ~reentered, NEW d \in Nat, Throwing(d)
    PROVE  (AnswersFollow /\ StackForwards /\ EntriesGiven)' /\ AnswersAlike
<1> DEFINE failed == {m \in Modules : \E i \in d + 1 .. Len(calls) :
                          calls[i] = [op |-> "load", of |-> m]}
<1>1. d \in 0 .. Len(calls) /\ calls' = Below(d) /\ Gone(failed)
  BY DEF Throwing, Unwind
<1>2. calls \in Seq(Call) /\ OwnersLive /\ CallsLive
  BY DEF LookupInv, TypeOK
<1>3. Cut(d)
  BY <1>1 DEF Cut
<1>4. ASSUME NEW m \in failed
      PROVE  life[m] = "loading" /\ m \in Modules
  <2>1. PICK i \in d + 1 .. Len(calls) : calls[i] = [op |-> "load", of |-> m]
    OBVIOUS
  <2>2. calls[i].op = "load" /\ calls[i].of = m
    BY <2>1
  <2>3. i \in DOMAIN calls
    BY <1>1, <1>2, StackTyped
  <2> QED BY <1>2, <2>2, <2>3 DEF CallsLive
<1> HIDE DEF failed
<1>5. failed \in SUBSET Modules
  BY <1>4
<1>6. \A k \in Modules, n \in Names : cache[k][n] \notin failed
  BY <1>2, <1>4 DEF OwnersLive
<1>7. ASSUME NEW i \in 1 .. d, calls[i].op = "find"
      PROVE  calls[i].of \notin failed
  <2>1. i \in DOMAIN calls /\ calls[i] \in Call
    BY <1>2, <1>3, CutFacts
  <2>2. calls[i].of \in Modules /\ calls[i].of # Null
    BY <1>7, <2>1, CallFields, LookupAssumption
  <2> QED BY <1>2, <1>4, <1>7, <2>1, <2>2 DEF CallsLive
<1> QED BY <1>1, <1>3, <1>5, <1>6, <1>7, GoneStays

\* Calls that return and change no answer.
LEMMA CutStays ==
    ASSUME LookupInv, StayInv, ~reentered, NEW d, Cut(d), UNCHANGED <<cache, answers>>
    PROVE  (AnswersFollow /\ StackForwards /\ EntriesGiven)' /\ AnswersAlike
<1>1. TypeOK /\ StackShape /\ calls \in Seq(Call)
  BY DEF LookupInv, TypeOK
<1>2. AnswersFollow /\ StackForwards /\ EntriesGiven
  BY DEF StayInv
<1>3. EntriesStay({})
  BY DEF EntriesStay
<1>4. StackForwards' /\ EntriesGiven'
  BY <1>1, <1>2, <1>3, CutForwards
<1>5. AnswersFollow' /\ AnswersAlike
  BY <1>1, <1>2, <1>3, AnswersStillFollow
<1> QED BY <1>4, <1>5

\* A call on one that is no lookup.
LEMMA PutStays ==
    ASSUME LookupInv, StayInv, ~reentered, NEW d, NEW c, Put(d, c),
           UNCHANGED <<cache, answers>>,
           d > 0 => calls[d].op # "given",
           c.op # "find" \/ d = 0 \/ calls[d].op # "find",
           d > 0 /\ calls[d].op = "find" =>
               /\ c.op = "provide" => c.name = Entry(calls[d]).name
               /\ c.op = "given" => cache[calls[d].of][Entry(calls[d]).name] = c.of
    PROVE  (AnswersFollow /\ StackForwards /\ EntriesGiven)' /\ AnswersAlike
<1>1. TypeOK /\ StackShape /\ calls \in Seq(Call)
  BY DEF LookupInv, TypeOK
<1>2. AnswersFollow /\ StackForwards /\ EntriesGiven
  BY DEF StayInv
<1>3. EntriesStay({})
  BY DEF EntriesStay
<1>4. d \in Nat
  BY <1>1, PutFacts
<1>5. ~(c.op = "find" /\ d > 0 /\ calls[d].op = "find")
  BY <1>4
<1>6. StackForwards' /\ EntriesGiven'
  BY <1>1, <1>2, <1>3, <1>5, PutForwards
<1>7. AnswersFollow' /\ AnswersAlike
  BY <1>1, <1>2, <1>3, AnswersStillFollow
<1> QED BY <1>6, <1>7

LEMMA AskingStays ==
    ASSUME LookupInv, StayInv, ~reentered, NEW n \in Names, Asking(n)
    PROVE  (AnswersFollow /\ StackForwards /\ EntriesGiven)' /\ AnswersAlike
<1> DEFINE L == Len(calls)
           c == GetModule(Top.of, n)
<1>1. /\ calls # <<>> /\ Top.op \in {"find", "load"}
      /\ Top.op = "find" => n = Entry(Top).name
      /\ calls' = Append(calls, c)
  BY DEF Asking, AskForModule, Enter
<1>2. UNCHANGED <<cache, answers>>
  BY DEF Asking, AskForModule
<1>3. TypeOK
  BY DEF LookupInv
<1>4. /\ calls \in Seq(Call) /\ L \in Nat /\ L > 0 /\ Top = calls[L] /\ Top \in Call
  BY <1>1, <1>3, TopTyped
<1>5. Top.of \in Modules
  BY <1>1, <1>4, CallFields
<1>6. /\ \/ c.op = "given" /\ c.of = cache[Top.of][n]
         \/ c.op = "provide" /\ c.name = n
      /\ c \in Call
  BY <1>3, <1>5, CallsMade DEF GetModule, InCache, TypeOK
<1> HIDE DEF c
<1>7. Put(L, c)
  BY <1>1, <1>4, <1>6, PushIsPut
<1> QED BY <1>1, <1>2, <1>4, <1>6, <1>7, PutStays

LEMMA ContinuingStays ==
    ASSUME LookupInv, StayInv, ~reentered, Continuing
    PROVE  (AnswersFollow /\ StackForwards /\ EntriesGiven)' /\ AnswersAlike
<1> DEFINE L == Len(calls)
           caller == calls[L - 1]
           c == LookUpThere(caller)
<1>1. calls # <<>> /\ Top.op = "given" /\ Top.of # Null
      /\ calls' = Append(Below(L - 1), c) /\ UNCHANGED <<cache, answers>>
  BY DEF Continuing
<1>2. TypeOK /\ StackShape /\ AnswersFollow /\ StackForwards /\ EntriesGiven
  BY DEF LookupInv, StayInv
<1>3. /\ calls \in Seq(Call) /\ L \in Nat /\ L > 0 /\ Top = calls[L]
      /\ DOMAIN calls = 1 .. L /\ Top \in Call /\ L - 1 \in 0 .. L /\ L \in DOMAIN calls
  BY <1>1, <1>2, TopTyped
<1>4. L > 1 /\ caller.op \in {"find", "load"}
  BY <1>1, <1>2, <1>3 DEF StackShape
<1>5. L - 1 \in DOMAIN calls /\ caller \in Call
  BY <1>3, <1>4, StackTyped
<1>6. PICK x \in Modules : Top.of = x
  BY <1>1, <1>3, CallFields
<1>7. WantedSymbol(caller) \in Symbols
  <2>1. CASE caller.op = "find"
    <3>1. Entry(caller).symbol \in Symbols
      BY <1>2, <1>3, <1>4, <2>1, ForwarderBelow
    <3> QED BY <2>1, <3>1 DEF WantedSymbol
  <2>2. CASE caller.op = "load"
    <3>1. ImportsLeft(caller.of) /\ caller.of \in Modules
      <4>1. L - 1 < L
        BY <1>3
      <4>2. ImportsLeft(caller.of)
        BY <1>2, <1>5, <2>2, <4>1 DEF StackShape
      <4> QED BY <1>5, <2>2, <4>2, CallFields
    <3> QED BY <1>2, <2>2, <3>1, ImportTyped DEF WantedSymbol
  <2> QED BY <1>4, <2>1, <2>2
<1>8. /\ c \in Call /\ c.op = "find" /\ c.of = x
      /\ caller.op = "find" => c.symbol = Entry(caller).symbol
  BY <1>6, <1>7, CallsMade DEF LookUpThere, WantedSymbol
<1> HIDE DEF c
<1>9. Put(L - 1, c)
  BY <1>1, <1>3, <1>8 DEF Put
<1>10. EntriesStay({})
  BY <1>1 DEF EntriesStay
<1>11. LookupsStay({})
  BY <1>10, EntriesKeepLookups DEF EntriesStay
<1>12. ASSUME NEW m \in Modules, NEW k \in Modules, NEW s \in Symbols, NEW t \in Symbols,
              c.of = k, c.symbol = t, caller.op = "find", caller.of = m, caller.symbol = s
       PROVE  Forwards(m, s, k, t)'
  <2>1. Exports[m][s] = Entry(caller) /\ Exports[m][s].kind = "forwarder"
    BY <1>2, <1>3, <1>4, <1>12, ForwarderBelow DEF Entry
  <2>2. cache[m][Exports[m][s].name] = k
    BY <1>1, <1>2, <1>3, <1>4, <1>6, <1>8, <1>12, <2>1 DEF EntriesGiven
  <2>3. Exports[m][s].symbol = t
    BY <1>8, <1>12, <2>1
  <2>4. Forwards(m, s, k, t)
    BY <2>1, <2>2, <2>3, OneForward
  <2> QED BY <1>11, <2>4 DEF LookupsStay
<1>13. StackForwards' /\ EntriesGiven'
  BY <1>2, <1>3, <1>4, <1>8, <1>9, <1>10, <1>12, PutForwards
<1>14. AnswersFollow' /\ AnswersAlike
  BY <1>1, <1>2, <1>10, AnswersStillFollow
<1> QED BY <1>13, <1>14

LEMMA ProviderAnswersStays ==
    ASSUME LookupInv, StayInv, ~reentered, NEW x \in Modules \cup {Null},
           ProviderAnswers(x)
    PROVE  (AnswersFollow /\ StackForwards /\ EntriesGiven)' /\ AnswersAlike
<1> DEFINE L == Len(calls)
           c == [op |-> "given", of |-> x]
<1>1. /\ calls # <<>> /\ Top.op = "provide"
      /\ cache' = [cache EXCEPT ![Top.of][Top.name] = x]
      /\ calls' = Append(Below(L - 1), c) /\ answers' = answers
  BY DEF ProviderAnswers, Runs
<1>2. TypeOK /\ StackShape /\ WaitsOnce /\ AnswersFollow /\ StackForwards /\ EntriesGiven
  BY DEF LookupInv, StayInv
<1>3. /\ calls \in Seq(Call) /\ L \in Nat /\ L > 0 /\ Top = calls[L]
      /\ DOMAIN calls = 1 .. L /\ Top \in Call /\ L - 1 \in 0 .. L /\ L \in DOMAIN calls
  BY <1>1, <1>2, TopTyped
<1>4. L > 1 /\ calls[L - 1].op \in {"find", "load"} /\ Top.of = calls[L - 1].of
  BY <1>1, <1>2, <1>3 DEF StackShape
<1>5. PICK m \in Modules, n \in Names : Top.of = m /\ Top.name = n
  BY <1>1, <1>3, CallFields
<1>6. c \in Call /\ c.op = "given" /\ c.of = x
  BY CallsMade
<1> HIDE DEF c
<1>7. \A k \in Modules, p \in Names :
          cache'[k][p] = IF k = m /\ p = n THEN x ELSE cache[k][p]
  BY <1>1, <1>2, <1>5 DEF TypeOK
<1>8. cache[m][n] = Absent
  BY <1>1, <1>2, <1>3, <1>5 DEF WaitsOnce
<1>9. EntriesStay({})
  BY <1>7, <1>8 DEF EntriesStay
<1>10. Put(L - 1, c)
  BY <1>1, <1>3, <1>6 DEF Put
<1>11. calls[L - 1].op = "find" =>
           cache'[calls[L - 1].of][Entry(calls[L - 1]).name] = c.of
  <2> SUFFICES ASSUME calls[L - 1].op = "find"
               PROVE  cache'[calls[L - 1].of][Entry(calls[L - 1]).name] = c.of
    OBVIOUS
  <2>1. Top.name = Entry(calls[L - 1]).name
    BY <1>1, <1>2, <1>3, <1>4 DEF EntriesGiven
  <2> QED BY <1>4, <1>5, <1>6, <1>7, <2>1
<1>12. StackForwards' /\ EntriesGiven'
  BY <1>2, <1>3, <1>4, <1>6, <1>9, <1>10, <1>11, PutForwards
<1>13. AnswersFollow' /\ AnswersAlike
  BY <1>1, <1>2, <1>9, AnswersStillFollow
<1> QED BY <1>12, <1>13

\* An answer that was given before is given again.
LEMMA AnsweringStays ==
    ASSUME LookupInv, StayInv, ~reentered, NEW d \in Nat, NEW r \in Address \cup {Null},
           Answering(d, r)
    PROVE  (AnswersFollow /\ StackForwards /\ EntriesGiven)' /\ AnswersAlike
<1> DEFINE L == Len(calls)
           asked == calls[d + 1]
<1>1. /\ OneLookup(d) /\ IsResult(r) /\ asked.op = "find" /\ calls' = Below(d)
      /\ answers' = [answers EXCEPT ![asked.of][asked.symbol] = r] /\ cache' = cache
  BY DEF Answering, ReturnToClient
<1>2. TypeOK /\ StackShape /\ AnswersFollow /\ StackForwards /\ EntriesGiven
  BY DEF LookupInv, StayInv
<1>3. calls \in Seq(Call) /\ L \in Nat /\ DOMAIN calls = 1 .. L /\ d \in 0 .. L - 1
  BY <1>1, <1>2, StackTyped DEF TypeOK, OneLookup
<1>4. /\ d \in 0 .. L /\ d + 1 \in DOMAIN calls /\ L \in DOMAIN calls /\ Top = calls[L]
      /\ Top \in Call /\ asked \in Call /\ d + 1 <= L
  <2> HIDE DEF L
  <2>1. d + 1 \in 1 .. L /\ L \in 1 .. L /\ d \in 0 .. L /\ d + 1 <= L
    BY <1>3
  <2>2. calls[L] \in Call /\ calls[d + 1] \in Call
    BY <1>3, <2>1, StackTyped
  <2> QED BY <1>3, <2>1, <2>2 DEF Top, L
<1>5. PICK m \in Modules, s \in Symbols : asked.of = m /\ asked.symbol = s
  BY <1>1, <1>4, CallFields
<1>6. Cut(d)
  BY <1>1, <1>4 DEF Cut
<1>7. EntriesStay({})
  BY <1>1 DEF EntriesStay
<1>8. \A k \in Modules, u \in Symbols :
          answers'[k][u] = IF k = m /\ u = s THEN r ELSE answers[k][u]
  BY <1>1, <1>2, <1>5 DEF TypeOK
<1>9. StackForwards' /\ EntriesGiven'
  BY <1>2, <1>3, <1>6, <1>7, CutForwards
<1>10. ASSUME NEW e \in DOMAIN calls, d + 1 <= e, calls[e].op = "find",
              NEW k \in Modules, NEW u \in Symbols, calls[e].of = k, calls[e].symbol = u,
              ComesTo(k, u, r)
       PROVE  ComesTo(m, s, r)
  <2>1. CASE d + 1 = e
    BY <1>5, <1>10, <2>1
  <2>2. CASE d + 1 # e
    <3>1. d + 1 < e /\ e <= L
      BY <1>3, <1>10, <2>2
    <3>2. \A k2 \in (d + 1) + 1 .. e : calls[k2].op = "find"
      <4> SUFFICES ASSUME NEW k2 \in (d + 1) + 1 .. e
                   PROVE  calls[k2].op = "find"
        OBVIOUS
      <4>1. k2 \in d + 1 .. L /\ k2 \in DOMAIN calls /\ (k2 = e \/ k2 < L)
        BY <1>3, <3>1
      <4>2. calls[k2].op \in {"find", "given"}
        BY <1>1, <4>1 DEF OneLookup
      <4>3. k2 < L => calls[k2].op # "given"
        BY <1>2, <1>3, <4>1 DEF StackShape
      <4> QED BY <1>10, <4>1, <4>2, <4>3
    <3>3. Forwards(asked.of, asked.symbol, calls[e].of, calls[e].symbol)
      BY <1>1, <1>2, <1>4, <1>10, <3>1, <3>2 DEF StackForwards
    <3>4. Forwards(m, s, k, u)
      BY <1>5, <1>10, <3>3
    <3> QED BY <1>10, <3>4, ForwardedResult DEF Result
  <2> QED BY <2>1, <2>2
<1>11. ComesTo(m, s, r)
  <2>1. CASE Top.op = "find"
    <3>1. PICK k \in Modules, u \in Symbols : Top.of = k /\ Top.symbol = u
      BY <1>4, <2>1, CallFields
    <3>2. \A R : FollowsFrom(R, k, u, r)
      BY <1>1, <2>1, <3>1 DEF IsResult, FollowsFrom, Entry
    <3>3. ComesTo(k, u, r)
      BY <3>2, LastResult DEF Result
    <3> QED BY <1>4, <1>10, <2>1, <3>1, <3>3
  <2>2. CASE Top.op # "find"
    <3>1. Top.op = "given" /\ Top.of = Null /\ r = Null
      BY <1>1, <2>2 DEF IsResult
    <3>2. d + 1 # L
      BY <1>1, <1>4, <3>1
    <3>3. L > 1 /\ L - 1 \in DOMAIN calls /\ d + 1 <= L - 1 /\ L - 1 \in d + 1 .. L
      <4> HIDE DEF L
      <4> QED BY <1>3, <1>4, <3>2
    <3>4. calls[L - 1].op = "find"
      <4>1. calls[L - 1].op \in {"find", "given"}
        BY <1>1, <3>3 DEF OneLookup
      <4>2. calls[L].op = "given" => calls[L - 1].op \in {"find", "load"}
        BY <1>2, <1>4 DEF StackShape
      <4> QED BY <1>4, <3>1, <4>1, <4>2
    <3>5. PICK k \in Modules, u \in Symbols : calls[L - 1].of = k /\ calls[L - 1].symbol = u
      BY <1>2, <1>3, <1>4, <3>3, <3>4, ForwarderBelow
    <3>6. Exports[k][u].kind = "forwarder" /\ Entry(calls[L - 1]) = Exports[k][u]
      BY <1>2, <1>3, <1>4, <3>3, <3>4, <3>5, ForwarderBelow DEF Entry
    <3>7. cache[k][Exports[k][u].name] = Null
      BY <1>2, <1>4, <3>1, <3>3, <3>4, <3>5, <3>6 DEF EntriesGiven
    <3>8. \A R : FollowsFrom(R, k, u, r)
      BY <3>1, <3>6, <3>7 DEF FollowsFrom
    <3>9. ComesTo(k, u, r)
      BY <3>8, LastResult DEF Result
    <3> QED BY <1>10, <3>3, <3>4, <3>5, <3>9
  <2> QED BY <2>1, <2>2
<1>12. LookupsStay({})
  BY <1>7, EntriesKeepLookups DEF EntriesStay
<1>13. ASSUME NEW k \in Modules, NEW u \in Symbols, answers'[k][u] # Unasked
       PROVE  ComesTo(k, u, answers[k][u])'
  <2>1. PICK q \in Result : q = answers'[k][u] /\ ComesTo(k, u, q)
    <3>1. CASE k = m /\ u = s
      BY <1>8, <1>11, <3>1 DEF Result
    <3>2. CASE ~(k = m /\ u = s)
      <4>1. answers'[k][u] = answers[k][u]
        BY <1>8, <3>2
      <4>2. answers[k][u] \in Result
        BY <1>2, <1>13, <4>1 DEF TypeOK, Result
      <4> QED BY <1>2, <1>13, <4>1, <4>2 DEF AnswersFollow
    <3> QED BY <3>1, <3>2
  <2>2. ComesTo(k, u, q)'
    BY <1>12, <2>1 DEF LookupsStay
  <2> QED BY <2>1, <2>2
<1>14. AnswersFollow'
  BY <1>13 DEF AnswersFollow
<1>15. answers[m][s] # Unasked => r = answers[m][s]
  <2> SUFFICES ASSUME answers[m][s] # Unasked
               PROVE  r = answers[m][s]
    OBVIOUS
  <2>1. answers[m][s] \in Result /\ r \in Result
    BY <1>2 DEF TypeOK, Result
  <2>2. ComesTo(m, s, answers[m][s])
    BY <1>2 DEF AnswersFollow
  <2> QED BY <1>11, <2>1, <2>2, ComesToOne
<1>16. AnswersAlike
  BY <1>8, <1>15 DEF AnswersAlike
<1> QED BY <1>9, <1>14, <1>16

LEMMA StayStep ==
    ASSUME LookupInv, StayInv, [Next]_vars, ~reentered'
    PROVE  (AnswersFollow /\ StackForwards /\ EntriesGiven)' /\ AnswersAlike
<1> DEFINE Kept == (AnswersFollow /\ StackForwards /\ EntriesGiven)' /\ AnswersAlike
<1>1. TypeOK /\ calls \in Seq(Call)
  BY DEF LookupInv, TypeOK
<1>2. CASE UNCHANGED vars
  <2>1. calls' = calls /\ UNCHANGED <<cache, answers>> /\ ~reentered
    BY <1>2 DEF vars
  <2> QED BY <1>1, <2>1, SameIsCut, CutStays
<1>3. CASE Next
  <2>1. ASSUME NEW n \in Names, Asking(n)
        PROVE  Kept
    <3>1. ~reentered
      BY <2>1 DEF Asking, AskForModule
    <3> QED BY <2>1, <3>1, AskingStays
  <2>2. ASSUME Continuing
        PROVE  Kept
    <3>1. ~reentered
      BY <2>2 DEF Continuing
    <3> QED BY <2>2, <3>1, ContinuingStays
  <2>3. ASSUME NEW d \in Nat, NEW r \in Address \cup {Null}, Answering(d, r)
        PROVE  Kept
    <3>1. ~reentered
      BY <2>3 DEF Answering, ReturnToClient
    <3> QED BY <2>3, <3>1, AnsweringStays
  <2>4. ASSUME NEW d \in Nat, NEW r \in Address \cup {Null}, Importing(d, r)
        PROVE  Kept
    <3>1. ~reentered /\ UNCHANGED <<cache, answers>> /\ calls' = Below(d) /\ OneLookup(d)
      BY <2>4 DEF Importing, ReturnToLoad
    <3>2. Cut(d)
      <4>1. Len(calls) \in Nat /\ d \in 0 .. Len(calls) - 1
        BY <1>1, <3>1, StackTyped DEF OneLookup
      <4> QED BY <3>1, <4>1 DEF Cut
    <3> QED BY <3>1, <3>2, CutStays
  <2>5. ASSUME NEW d \in Nat, Throwing(d)
        PROVE  Kept
    <3>1. ~reentered
      BY <2>5 DEF Throwing, Unwind
    <3> QED BY <2>5, <3>1, ThrowingStays
  <2>6. ASSUME NEW x \in Modules \cup {Null}, ProviderAnswers(x)
        PROVE  Kept
    <3>1. ~reentered
      BY <2>6 DEF ProviderAnswers
    <3> QED BY <2>6, <3>1, ProviderAnswersStays
  <2>7. ASSUME LoadDone
        PROVE  Kept
    <3>1. ~reentered /\ UNCHANGED <<cache, answers>> /\ calls' = Below(Len(calls) - 1)
          /\ calls # <<>>
      BY <2>7 DEF LoadDone, Runs
    <3>2. Cut(Len(calls) - 1)
      BY <1>1, <3>1, TopTyped DEF Cut
    <3> QED BY <3>1, <3>2, CutStays
  <2>8. ASSUME NEW m \in Modules, Load(m)
        PROVE  Kept
    <3> DEFINE c == [op |-> "load", of |-> m]
    <3>1. ~reentered /\ UNCHANGED <<cache, answers>> /\ calls' = Append(calls, c)
          /\ (calls # <<>> => Top.op = "provide")
      BY <2>8 DEF Load, Enter, ClientRuns
    <3>2. c \in Call /\ c.op = "load"
      BY CallsMade
    <3> HIDE DEF c
    <3>3. Put(Len(calls), c) /\ (Len(calls) > 0 => calls[Len(calls)].op = "provide")
      BY <1>1, <3>1, <3>2, PushIsPut, StackTyped DEF Top
    <3> QED BY <3>1, <3>2, <3>3, PutStays
  <2>9. ASSUME NEW m \in Modules, Drop(m)
        PROVE  Kept
    <3>1. ~reentered /\ UNCHANGED <<cache, answers>> /\ calls' = calls
      BY <2>9 DEF Drop
    <3> QED BY <1>1, <3>1, SameIsCut, CutStays
  <2>10. ASSUME NEW m \in Modules, Destroy(m)
         PROVE  Kept
    <3>1. ~reentered /\ ~Referenced(m) /\ Gone({m}) /\ calls' = calls
      BY <2>10 DEF Destroy
    <3>2. Cut(Len(calls)) /\ DOMAIN calls = 1 .. Len(calls)
      BY <1>1, <3>1, SameIsCut, StackTyped
    <3>3. /\ \A k \in Modules, n \in Names : cache[k][n] # m
          /\ \A i \in 1 .. Len(calls) : calls[i].of # m
      BY <3>1, <3>2 DEF Referenced
    <3>4. /\ {m} \in SUBSET Modules
          /\ \A k \in Modules, n \in Names : cache[k][n] \notin {m}
          /\ \A i \in 1 .. Len(calls) : calls[i].op = "find" => calls[i].of \notin {m}
      BY <3>3
    <3> QED BY <3>1, <3>2, <3>4, GoneStays
  <2>11. ASSUME NEW m \in Modules, NEW s \in Symbols, Ask(m, s)
         PROVE  Kept
    <3> DEFINE c == [op |-> "find", of |-> m, symbol |-> s]
    <3>1. ~reentered /\ UNCHANGED <<cache, answers>> /\ calls' = Append(calls, c)
          /\ (calls # <<>> => Top.op = "provide")
      BY <2>11 DEF Ask, Enter, ClientRuns
    <3>2. c \in Call /\ c.op = "find"
      BY CallsMade
    <3> HIDE DEF c
    <3>3. Put(Len(calls), c) /\ (Len(calls) > 0 => calls[Len(calls)].op = "provide")
          /\ Len(calls) \in Nat
      BY <1>1, <3>1, <3>2, PushIsPut, StackTyped DEF Top
    <3> QED BY <3>1, <3>2, <3>3, PutStays
  <2>12. \/ \E n \in Names : Asking(n)
         \/ Continuing
         \/ \E d \in Nat, r \in Address \cup {Null} : Answering(d, r) \/ Importing(d, r)
         \/ \E d \in Nat : Throwing(d)
         \/ \E x \in Modules \cup {Null} : ProviderAnswers(x)
         \/ LoadDone
         \/ \E m \in Modules : Load(m) \/ Drop(m) \/ Destroy(m)
         \/ \E m \in Modules, s \in Symbols : Ask(m, s)
    BY <1>3, StepKinds
  <2> HIDE DEF Kept
  <2>13. Kept
    BY <2>1, <2>2, <2>3, <2>4, <2>5, <2>6, <2>7, <2>8, <2>9, <2>10, <2>11, <2>12
  <2> QED BY <2>13 DEF Kept
<1> QED BY <1>2, <1>3

\* A symbol that was looked up twice has the same address both times, and one that
\* was not found is not found later, as long as its module is there: whatever was
\* loaded and dropped in between.
THEOREM AnswersRepeat == Spec => AnswersStay
<1>1. Init => StayInv
  BY DEF Init, NotAsked, StayInv, AnswersFollow, StackForwards, EntriesGiven
<1>2. LookupInv /\ StayInv /\ [Next]_vars => StayInv'
  BY StayStep DEF StayInv
<1>3. LookupInv /\ StayInv /\ [Next]_vars
      => [\A m \in Modules, s \in Symbols :
             (answers[m][s] # Unasked /\ life'[m] # "gone" /\ ~reentered')
                 => answers'[m][s] = answers[m][s]]_vars
  BY StayStep DEF AnswersAlike
<1> QED BY LookupInvariant, <1>1, <1>2, <1>3, PTL DEF Spec, AnswersStay

=============================================================================
