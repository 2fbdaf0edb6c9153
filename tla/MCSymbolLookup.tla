--------------------------- MODULE MCSymbolLookup ---------------------------
(* A program that imports s from A.  One module called A forwards s to B, the *)
(* other has s of its own; there are two modules that answer to B.            *)
EXTENDS SymbolLookup

MCNames == {"A", "B"}
MCModules == {"exe", "a1", "a2", "b1", "b2"}
MCSymbols == {"s"}

Own == [kind |-> "own"]

MCExports ==
    [m \in MCModules |->
        [s \in MCSymbols |->
            CASE m = "a1"  -> [kind |-> "forwarder", name |-> "B", symbol |-> "s"]
              [] m = "exe" -> [kind |-> "none"]
              [] OTHER     -> Own]]

MCImports == [m \in MCModules |-> IF m = "exe" THEN <<<<"A", "s">>>> ELSE <<>>]

MCServes == {<<"A", "a1">>, <<"A", "a2">>, <<"B", "b1">>, <<"B", "b2">>}
=============================================================================
