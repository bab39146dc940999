--------------------------- MODULE MCAlpacaClient ---------------------------
(***************************************************************************)
(* AlpacaClient for bars at four instants, windows that end before, at and *)
(* after the present, and pages of up to two bars.                         *)
(***************************************************************************)
EXTENDS AlpacaClient

None        == -1
SomeWindows == {[Start |-> 0, End |-> 1], [Start |-> 0, End |-> 3], [Start |-> 1, End |-> 2]}

=============================================================================
