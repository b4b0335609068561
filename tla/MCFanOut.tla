------------------------------ MODULE MCFanOut ------------------------------
(* Three queries, more than the permits, under the configurations that     *)
(* differ in how a query uses its permits: one permit and a content fetch, *)
(* a dual query that takes the whole budget (two permits) and fetches      *)
(* content, and web and news sharing one browser, two queries at a time.   *)
EXTENDS FanOut

Cfg(parallel, web, news, shared, fetch) ==
    [parallel |-> parallel, web |-> web, news |-> news, shared |-> shared,
     fetch |-> fetch]

MCConfigs == {Cfg(1, TRUE, FALSE, FALSE, TRUE),
              Cfg(2, TRUE, TRUE, FALSE, TRUE),
              Cfg(2, TRUE, TRUE, TRUE, FALSE)}
=============================================================================
