----------------------------- MODULE MCScheduler -----------------------------
(***************************************************************************)
(* Instances of Scheduler for TLC.  Table 0 holds an urgent task of period *)
(* 1 and a slow one of period 2, so it has two expiry points; table 1      *)
(* holds one single-shot task whose priority lies between the two.         *)
(***************************************************************************)
EXTENDS StrictScheduler, TLC

CONSTANTS hi, lo, shot

MCPriority == (hi :> 1) @@ (shot :> 2) @@ (lo :> 3)
MCPeriod == (hi :> 1) @@ (shot :> 1) @@ (lo :> 2)

\* hlist_add_head reverses the order of the task array within an expiry point.
OneTable == 0 :> << <<lo, hi>>, <<hi>> >>
TwoTables == OneTable @@ (1 :> << <<shot>> >>)

=============================================================================
