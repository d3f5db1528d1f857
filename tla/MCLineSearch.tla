---------------------------- MODULE MCLineSearch ----------------------------
(* Small instances of LineSearch: the steps 32, 16, 8, 4 and 2, of which    *)
(* the minimum keeps the first four.                                        *)
EXTENDS LineSearch

MCLastExp == 4
MCStepTable == [e \in 0..MCLastExp |-> 32 \div 2 ^ e]

=============================================================================
