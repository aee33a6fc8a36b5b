---- MODULE MCRateLimiter ----
(***************************************************************************)
(* A small instance: a token is ten units and takes two ticks.  Live       *)
(* buckets: at most one for each key, and one for each client that still   *)
(* holds a dropped one, when one of the clients makes a new one.           *)
(***************************************************************************)
EXTENDS RateLimiter, FiniteSets

MCNumBuckets == Cardinality(Keys) + Cardinality(Clients) - 1
====
