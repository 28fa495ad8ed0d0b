-------------------------- MODULE MCNetworkSession --------------------------
(***************************************************************************)
(* Instances of NetworkSession for TLC. Documents d and e have one         *)
(* candidate each, f has two; the default is d.                            *)
(***************************************************************************)
EXTENDS NetworkSession, TLC

CONSTANTS s1, s2

MCSessions == {s1, s2}
MCOne == {s1}
MCDocuments == {"d", "e", "f"}
MCTwo == {"d", "f"}
MCDefault == "d"
MCSize == [doc \in MCDocuments |-> IF doc = "f" THEN 2 ELSE 1]
MCSizeTwo == [doc \in MCTwo |-> IF doc = "f" THEN 2 ELSE 1]
(* Capabilities 1 admit only the default.                                  *)
MCAdmitted == [caps \in 0..MaxCaps |-> IF caps = 1 THEN {MCDefault} ELSE Documents]
Symmetric == Permutations(MCSessions)
=============================================================================
