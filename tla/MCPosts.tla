------------------------------ MODULE MCPosts ------------------------------
(* Instances of Posts for TLC.  Posts, members and requests are each       *)
(* interchangeable.                                                        *)
EXTENDS Posts, Naturals, TLC

CONSTANTS p1, p2, p3, s1, m1, m2, a1, a2, Parts

\* "chain": one request at a time merges three posts and changes their privacy;
\* "race": two requests race for two posts, "vote": with votes instead of privacy;
\* "any" has no bound but the constants.
VARIABLE part

Busy == {a \in Requests : req[a] # None}
Asks(ops) == \A a \in Busy : req[a].op \in ops
Answers(slugs) == \A a \in Busy : req[a].op = "respond" => req[a].status \in slugs
Merges == {"bound", "merge", "copied"}

Within ==
  CASE part = "chain" -> Cardinality(Busy) <= 1 /\ Asks(Merges \cup {"check", "privacy"})
    [] part = "race" -> Asks(Merges \cup {"check", "privacy", "respond"}) /\ Answers({"alike", "deleted"})
    [] part = "vote" -> Asks(Merges \cup {"vote", "unvote", "respond"}) /\ Answers({"open", "closed"})
    [] part = "any" -> TRUE

\* The races are for two posts, and votes are raced for on public ones.
Submitted ==
  /\ part \in {"race", "vote"} => Cardinality({p \in Posts : author[p] # None}) <= 2
  /\ part = "vote" => \A p \in Posts : ~private[p]

MCInit == Init /\ part \in Parts
MCNext == Next /\ UNCHANGED part /\ Within' /\ Submitted'
MCSpec == MCInit /\ [][MCNext]_<<vars, part>>

AllSymmetry == Permutations(Posts) \cup Permutations(Members) \cup Permutations(Requests)
===============================================================================
