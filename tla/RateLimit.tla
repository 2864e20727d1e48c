----------------------------- MODULE RateLimit -----------------------------
(***************************************************************************)
(* The sliding-window limiter (pkg/ratelimit/ratelimit.go) as operators on *)
(* its state: hits maps every tracked key to its events, of which only the *)
(* times matter; those of one moment are told apart by a number.           *)
(***************************************************************************)
EXTENDS Integers, FiniteSets, Functions

CONSTANTS
  Window,     \* per: the length of the window
  MaxKeys     \* maxKeys: how many keys are tracked before stale ones are swept

ASSUME RateLimitAssumption == Window \in Nat \ {0} /\ MaxKeys \in Nat \ {0}

NoHits == [k \in {} |-> {}]

\* The events that still count at time t.
Since(events, t) == {e \in events : e[1] > t - Window}
Kept(hits, k, t) == IF k \in DOMAIN hits THEN Since(hits[k], t) ELSE {}

\* One more, now.
Recorded(events, t) == events \cup {<<t, Cardinality({e \in events : e[1] = t}) + 1>>}

\* sweep: keys without an event in the window go; if that is not enough, all do.
Swept(hits, t) ==
  LET live == {k \in DOMAIN hits : Kept(hits, k, t) # {}}
  IN IF Cardinality(DOMAIN hits) <= MaxKeys THEN hits
     ELSE IF Cardinality(live) > MaxKeys THEN NoHits ELSE Restrict(hits, live)

\* One event of k at time t, at most max of them in the window.
Within(hits, k, max, t) == Cardinality(Kept(hits, k, t)) < max

AfterHit(hits, k, max, t) ==
  [x \in DOMAIN hits \cup {k} |->
     IF x # k THEN hits[x]
     ELSE IF Within(hits, k, max, t) THEN Recorded(Kept(hits, k, t), t) ELSE Kept(hits, k, t)]

\* Allow, and what it leaves behind.
Allowed(hits, k, max, t) == Within(Swept(hits, t), k, max, t)
AfterAllow(hits, k, max, t) == AfterHit(Swept(hits, t), k, max, t)

\* Whether it forgets events that still count.
Forgets(hits, t) == \E k \in DOMAIN hits : Kept(hits, k, t) # {} /\ k \notin DOMAIN Swept(hits, t)
=============================================================================
