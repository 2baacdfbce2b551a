------------------------------ MODULE QueryCache ------------------------------
(***************************************************************************)
(* The answer store behind `query(kind, arg)`: petal_query::Cache          *)
(* (petal-query/src/cache.rs) with the freshness of gpp's CachePolicy      *)
(* (gpp/src/cache_control.rs), as operators on one cache.  A key stands    *)
(* for a (kind, arg) pair, an answer for its kind (ready or errored) and   *)
(* the version of the data it was made from.                               *)
(***************************************************************************)
EXTENDS Naturals, Sequences

CONSTANTS
  Keys,        \* the (kind, arg) pairs scripts may ask for
  Missing,     \* no entry is held for a key
  Unlimited,   \* a policy without max_age
  TicksPerMs   \* instants per millisecond: ages are truncated to whole ms

Loading == [kind |-> "loading", version |-> 0]
Answers == [kind : {"ready", "errored"}, version : Nat]

\* CachePolicy.  An absent stale window and one of 0 ms are the same.
PolicyType == [noStore : BOOLEAN, maxAge : Nat \union {Unlimited}, swr : Nat]
EntryType == [answer : Answers, policy : PolicyType, at : Nat]
CacheType == [entries   : [Keys -> EntryType \union {Missing}],
              requested : SUBSET Keys,
              outbox    : Seq(Keys)]
Forever == [noStore |-> FALSE, maxAge |-> Unlimited, swr |-> 0]

ASSUME CacheAssumption ==
  /\ Unlimited \notin Nat
  /\ TicksPerMs \in Nat \ {0}
  /\ Missing \notin EntryType

EmptyCache ==
  [entries |-> [k \in Keys |-> Missing], requested |-> {}, outbox |-> <<>>]

\* CachePolicy::freshness_at.
FreshnessAt(policy, age) ==
  LET ms == age \div TicksPerMs IN
  IF policy.noStore THEN "stale"
  ELSE IF policy.maxAge = Unlimited \/ ms <= policy.maxAge THEN "fresh"
  ELSE IF ms <= policy.maxAge + policy.swr THEN "stale" ELSE "expired"

\* How the cache holds k: "missing" or the freshness of its entry.
Held(c, k, now) ==
  IF c.entries[k] = Missing THEN "missing"
  ELSE FreshnessAt(c.entries[k].policy, now - c.entries[k].at)

\* What Cache::lookup answers: a stale entry is served like a fresh one.
LookupResult(c, k, now) ==
  IF Held(c, k, now) \in {"fresh", "stale"} THEN c.entries[k].answer ELSE Loading

\* The keys of ks a lookup enqueues: not fresh, and not in flight already.
Needed(c, ks, now) == {k \in ks : Held(c, k, now) # "fresh"} \ c.requested

\* The cache after one lookup of each key of ks; order lists the keys enqueued
\* as the script came to them.
LookedUp(c, ks, order, now) ==
  [entries |-> [k \in Keys |->
                  IF k \in ks /\ Held(c, k, now) = "expired" THEN Missing
                  ELSE c.entries[k]],
   requested |-> c.requested \union Needed(c, ks, now),
   outbox |-> c.outbox \o order]

\* Cache::resolve.
Resolved(c, k, answer, policy, now) ==
  [c EXCEPT !.entries[k] = [answer |-> answer, policy |-> policy, at |-> now],
            !.requested = @ \ {k}]

\* Mutant: the in-flight mark survives an invalidate.
InvalidatedInFlight(c, ks) ==
  [c EXCEPT !.entries = [k \in Keys |-> IF k \in ks THEN Missing ELSE @[k]]]

\* Cache::invalidate of each key of ks.
Invalidated(c, ks) ==
  [c EXCEPT !.entries = [k \in Keys |-> IF k \in ks THEN Missing ELSE @[k]],
            !.requested = @ \ ks]

\* Mutant: revalidation falls due when the entry expires, not when it is stale.
RevalidationAtExpiry(c, now) == \E k \in Keys :
  /\ c.entries[k] # Missing
  /\ LET policy == c.entries[k].policy IN
       policy.noStore \/ Held(c, k, now) = "expired"

\* Cache::next_revalidation is now or earlier: a held entry is no-store, or its
\* max_age is up, to the tick.
RevalidationDue(c, now) == \E k \in Keys :
  /\ c.entries[k] # Missing
  /\ LET policy == c.entries[k].policy IN
       \/ policy.noStore
       \/ /\ policy.maxAge # Unlimited
          /\ c.entries[k].at + policy.maxAge * TicksPerMs <= now
===============================================================================
