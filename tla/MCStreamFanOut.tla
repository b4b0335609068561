--------------------------- MODULE MCStreamFanOut ---------------------------
(* Three queries. With one permit the channel holds two outputs, so a slow *)
(* consumer makes the producer wait for room; with two, queries overlap.    *)
(* Dual queries are left to MCFanOut, which runs the same tasks.           *)
EXTENDS StreamFanOut

Cfg(parallel, web, news, shared, fetch) ==
    [parallel |-> parallel, web |-> web, news |-> news, shared |-> shared,
     fetch |-> fetch]

MCConfigs == {Cfg(1, TRUE, FALSE, FALSE, FALSE),
              Cfg(2, TRUE, FALSE, FALSE, FALSE)}
=============================================================================
