----------------------------- MODULE MCPELoader -----------------------------
(***************************************************************************)
(* PELoader for TLC: images of two and three pages, and the provider       *)
(* relations the runs choose from.                                         *)
(***************************************************************************)
EXTENDS PELoader, TLC

CONSTANTS l1, l2, l3, n1, n2   \* model values

MCLoads2 == {l1, l2}
MCLoads3 == {l1, l2, l3}
MCNames1 == {n1}
MCNames2 == {n1, n2}

MCSection(va, rights, discardable) ==
    [va |-> va, size |-> 1, raw |-> 1, rights |-> rights,
     discardable |-> discardable]

MCCode == MCSection(1, {"read", "execute"}, FALSE)

\* Loaded anywhere; exports through forwarders.
MCForwarding ==
    [base |-> Null, size |-> 2, headers |-> 1, sections |-> {MCCode},
     imports |-> {}, forwards |-> {n1}, pdata |-> 0, entry |-> 1,
     relocations |-> "none", dynamic |-> TRUE]

\* Loaded at its preferred address only; imports, an exception table and a
\* section that is discarded.
MCImporting ==
    [base |-> 2, size |-> 3, headers |-> 1,
     sections |-> {MCCode, MCSection(2, {"read"}, TRUE)},
     imports |-> {n1}, forwards |-> {n2}, pdata |-> 1, entry |-> 1,
     relocations |-> "supported", dynamic |-> TRUE]

MCDlls == {MCForwarding, MCImporting}

\* One page, which only a process that is not addressed directly accepts:
\* nothing in it is called.
MCSmall ==
    [base |-> Null, size |-> 1, headers |-> 1, sections |-> {},
     imports |-> {n1}, forwards |-> {}, pdata |-> 0, entry |-> 0,
     relocations |-> "none", dynamic |-> TRUE]

MCSmalls == {MCSmall}

MCTwoPages == {MCForwarding, [MCForwarding EXCEPT !.imports = {n1}]}

\* Images that are unusual: a program that is no DLL, a DLL without an entry
\* point, one whose code may be executed but not read, one whose section
\* reaches beyond its last page.
MCProgram == [MCForwarding EXCEPT !.dynamic = FALSE]
MCResources == [MCForwarding EXCEPT !.entry = 0]
MCExecuteOnly ==
    [MCForwarding EXCEPT !.sections = {MCSection(1, {"execute"}, FALSE)}]
MCTooLong ==
    [MCForwarding EXCEPT !.sections = {[MCCode EXCEPT !.size = 2]}]

MCUnusual == {MCProgram, MCResources, MCExecuteOnly, MCTooLong}
MCPrograms == {MCForwarding, MCProgram}

MCAllKinds == MCDlls \cup MCTwoPages \cup MCUnusual

\* Modules may import each other, and themselves.
MCAnyProvides == MCLoads2 \X MCLoads2

\* Nobody imports, directly or not, what imports it.
MCChain2 == {<<l1, l2>>}
MCChain3 == {<<l1, l2>>, <<l1, l3>>, <<l2, l3>>}

\* With providers that may answer with any module, loads differ in nothing.
MCSymmetry == Permutations(MCLoads2)

=============================================================================
