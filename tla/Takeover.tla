------------------------------ MODULE Takeover ------------------------------
(***************************************************************************)
(* What the second scheduler of a pair promises to whoever relies on it.   *)
(* It follows a master, whose worker lists replace its own; it takes over  *)
(* only for cause, finishes the lists it had let in, and from then on      *)
(* leads, forgetting no worker, until it dies; it never follows again.     *)
(* Roles, requests, handlers and the monitor are left to module Failover,  *)
(* which implements this one.                                              *)
(***************************************************************************)
EXTENDS Integers

CONSTANTS Worker,          \* worker IDs
          FailThreshold    \* --failover-threshold

VARIABLES stage,      \* what the second process does
          known,      \* the workers in its table
          failures    \* health checks of the master failed in a row

takeoverVars == <<stage, known, failures>>

TakeoverInit == stage = "follows" /\ known = {} /\ failures = 0

\* A worker's heartbeat registers it.
Register(w) ==
    /\ stage # "down"
    /\ known' = known \cup {w}
    /\ UNCHANGED <<stage, failures>>

\* The last list that was let in is handled, or another one is still to come.
MayFinish == UNCHANGED stage \/ (stage = "settling" /\ stage' = "leads")

\* A list of the master replaces the table.
Load(ws) ==
    /\ stage \in {"follows", "settling"}
    /\ known' = ws
    /\ MayFinish
    /\ UNCHANGED failures

\* A list that was let in is lost.
Drop == MayFinish /\ UNCHANGED <<known, failures>>

\* The master answers a health check.
HealthOK ==
    /\ stage = "follows"
    /\ failures' = 0
    /\ UNCHANGED <<stage, known>>

\* A check fails; at the threshold the process may take over.
HealthFails ==
    /\ stage = "follows"
    /\ failures' = failures + 1
    /\ \/ UNCHANGED stage
       \/ failures' >= FailThreshold /\ stage' \in {"settling", "leads"}
    /\ UNCHANGED known

Die ==
    /\ stage # "down"
    /\ stage' = "down"
    /\ UNCHANGED <<known, failures>>

Start ==
    /\ stage = "down"
    /\ stage' = "follows" /\ known' = {} /\ failures' = 0

TakeoverNext ==
    \/ \E w \in Worker : Register(w)
    \/ \E ws \in SUBSET Worker : Load(ws)
    \/ Drop \/ HealthOK \/ HealthFails
    \/ Die \/ Start

TakeoverSpec == TakeoverInit /\ [][TakeoverNext]_takeoverVars
=============================================================================
