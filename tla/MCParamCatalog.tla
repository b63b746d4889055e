---------------------------- MODULE MCParamCatalog ----------------------------
(* Model checking ParamCatalog: the configurations give the bound. *)
EXTENDS ParamCatalog

\* Every name has one setter type and one getter type, and is an enumerator.
ASSUME CatalogAssumption ==
  /\ \A n \in Names : \A s \in SlotsOf(n) \ {4} : <<n, s>> \in DOMAIN Parameter
  /\ \A n \in Scalars : \E g \in {Getters1, Getters2, Getters3}, t \in Types : n \in g[t]
=============================================================================
