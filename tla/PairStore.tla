----------------------------- MODULE PairStore ------------------------------
(***************************************************************************)
(* What the default credential profile promises: one register that holds a *)
(* pair of generations.  A generation is classified by the evidence        *)
(* barrier first; then one step replaces the whole pair, never by older    *)
(* generations.  No crash, no failed write and no ambient login shows in   *)
(* the register.                                                           *)
(***************************************************************************)
EXTENDS Integers

CONSTANTS Vendor,  \* the providers
          Gen      \* generations of a credential

VARIABLES pair,    \* the committed generation of each provider
          seen     \* the classified generations of each provider

Init == /\ \E g \in Gen : /\ pair = [v \in Vendor |-> g]
                          /\ seen = [v \in Vendor |-> {g}]

\* The evidence barrier only ever learns.
Classify == /\ seen' \in [Vendor -> SUBSET Gen]
            /\ \A v \in Vendor : seen[v] \subseteq seen'[v]
            /\ UNCHANGED pair

\* Both providers move at once, to classified generations, never backward.
Commit == /\ pair' \in [Vendor -> Gen]
          /\ \A v \in Vendor : pair'[v] \in seen[v] /\ pair'[v] >= pair[v]
          /\ UNCHANGED seen

Next == Classify \/ Commit

Spec == Init /\ [][Next]_<<pair, seen>>
=============================================================================
