------------------------------ MODULE MCMarket ------------------------------
(* Two prices and a list; an indicator with a fallback and one without. *)
EXTENDS Market, TLC

CONSTANTS m1, m2, brands, cdi, ipca

MCAnswers == [parallelum |-> {m1, m2, brands}, brasilapi |-> {brands}]
MCProviders == <<"parallelum", "brasilapi">>
MCCodes == <<cdi, ipca>>
MCMaxAge == (cdi :> 1) @@ (ipca :> 2)

\* Nothing chooses among the sessions, or among the models.
Symmetry == Permutations(Workers) \cup Permutations(Prices)
=============================================================================
