------------------------------ MODULE Semaphore ------------------------------
(***************************************************************************)
(* What an org's concurrency limit promises (config.py: at most            *)
(* max_concurrent_llm_calls_per_org, or ..._whatsapp_sends_per_org, at     *)
(* once, across every worker process): a counting semaphore.               *)
(***************************************************************************)
EXTENDS Integers, FiniteSets

CONSTANTS Jobs, Limit

VARIABLE inside    \* the jobs inside the section the semaphore guards

Init == inside = {}

Enter(j) ==
  /\ j \notin inside /\ Cardinality(inside) < Limit
  /\ inside' = inside \cup {j}

\* Several leave at once when a process stops with all of its jobs.
Leave(S) ==
  /\ S # {}
  /\ inside' = inside \ S

Next ==
  \/ \E j \in Jobs : Enter(j)
  \/ \E S \in SUBSET inside : Leave(S)

Spec == Init /\ [][Next]_inside

=============================================================================
