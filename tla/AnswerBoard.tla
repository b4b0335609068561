---------------------------- MODULE AnswerBoard ----------------------------
(***************************************************************************)
(* What a multi-query run promises its caller, without tasks, permits or   *)
(* Chromes: every query gets one outcome and keeps it, and the board with  *)
(* all outcomes appears at once, each under its own query, when the last   *)
(* one is known. A query whose task was lost to a panic still has a place  *)
(* on the board, marked "lost". A caller that stops waiting gets no board. *)
(***************************************************************************)
CONSTANTS Askers, Outcomes

VARIABLES outcome,   \* outcome of each query, "open" while unknown
          board,     \* the published outcomes, a function once published
          abandoned  \* the caller stopped waiting

Unpublished == [q \in {} |-> "open"]

BoardInit ==
    /\ outcome = [q \in Askers |-> "open"]
    /\ board = Unpublished
    /\ abandoned = FALSE

Settle(q) ==
    /\ outcome[q] = "open"
    /\ \E o \in Outcomes : outcome' = [outcome EXCEPT ![q] = o]
    /\ UNCHANGED <<board, abandoned>>

Publish ==
    /\ board = Unpublished /\ ~abandoned
    /\ \A q \in Askers : outcome[q] # "open"
    /\ board' = outcome
    /\ UNCHANGED <<outcome, abandoned>>

Abandon ==
    /\ board = Unpublished /\ ~abandoned
    /\ abandoned' = TRUE
    /\ UNCHANGED <<outcome, board>>

BoardNext == (\E q \in Askers : Settle(q)) \/ Publish \/ Abandon

BoardSpec == BoardInit /\ [][BoardNext]_<<outcome, board, abandoned>>
=============================================================================
