------------------------------ MODULE PostsProofs ------------------------------
(***************************************************************************)
(* Proofs about Posts, for every number of posts, users and requests in    *)
(* flight: however merges follow and overtake each other.                  *)
(***************************************************************************)
EXTENDS Posts, TLAPS

\* A merge in flight is still the merge that was allowed when it was read:
\* authors never change, and a private idea of a member only takes the
\* member's own.
MergesStayAllowed ==
  \A a \in Requests : req[a] # None /\ req[a].op \in {"bound", "merge", "copied"} =>
    LET r == req[a] IN
    /\ r.post # r.orig
    /\ author[r.orig] # None
    /\ r.op # "bound" =>
         /\ author[r.post] # None
         /\ r.private /\ author[r.orig] \in Members => author[r.post] = author[r.orig]

\* What a merge is about to write is still in the post it was read from, and
\* those who voted there once voted for what is in it.
CopiesAreInPosts ==
  \A a \in Requests : req[a] # None /\ req[a].op = "copied" =>
    /\ req[a].texts \subseteq texts[req[a].post]
    /\ req[a].votes \subseteq UNION {cast[q] : q \in req[a].texts}

\* Votes in flight are for submitted posts.
VotesOnSubmitted ==
  \A a \in Requests : req[a] # None /\ req[a].op \in {"vote", "unvote"} => author[req[a].post] # None

\* Exactly the submitted posts have text, their own at least, and it was
\* written in submitted posts.
TextsOfAuthors ==
  \A p \in Posts :
    /\ author[p] # None => p \in texts[p]
    /\ \A q \in texts[p] : author[p] # None /\ author[q] # None

\* What is public now was shown when it became so, but for merges that lost
\* the race with a change of privacy.
PublicTextIsShown ==
  \A p \in Posts : ~private[p] => texts[p] \subseteq shown \cup crossed

PostsInv ==
  /\ TypeOK
  /\ DuplicateHasOriginal
  /\ MembersHoldOwnText
  /\ VotesFollowMerges
  /\ MergesStayAllowed
  /\ CopiesAreInPosts
  /\ VotesOnSubmitted
  /\ TextsOfAuthors
  /\ PublicTextIsShown

LEMMA InitPosts == Init => PostsInv
BY PostsAssumption DEF Init, PostsInv, TypeOK, DuplicateHasOriginal, MembersHoldOwnText, VotesFollowMerges,
     MergesStayAllowed, CopiesAreInPosts, VotesOnSubmitted, TextsOfAuthors, PublicTextIsShown, Slugs, Responses

\* What the operation of a request in flight says about its other fields.
LEMMA RequestTypes ==
  ASSUME TypeOK, NEW a \in Requests, req[a] # None
  PROVE  /\ req[a].post \in Posts
         /\ req[a].op \in {"bound", "merge", "copied"} =>
              /\ req[a] \in Merge /\ req[a].user \in Staff
              /\ req[a].orig \in Posts /\ req[a].private \in BOOLEAN /\ req[a].votable \in BOOLEAN
              /\ req[a].votes \subseteq Voters /\ req[a].texts \subseteq Posts
         /\ req[a].op = "respond" => req[a].status \in Responses
         /\ req[a].op \in {"check", "privacy"} => req[a].private \in BOOLEAN /\ req[a].user \in Users
         /\ req[a].op \in {"vote", "unvote"} => req[a].user \in Voters
<1>1. req[a] \in Merge \cup Respond \cup Privacy \cup Vote
  BY DEF TypeOK
<1>2. CASE req[a] \in Merge
  BY <1>2 DEF Merge
<1>3. CASE req[a] \in Respond
  BY <1>3 DEF Respond
<1>4. CASE req[a] \in Privacy
  BY <1>4 DEF Privacy
<1>5. CASE req[a] \in Vote
  BY <1>5 DEF Vote
<1> QED
  BY <1>1, <1>2, <1>3, <1>4, <1>5

\* What the posts look like does not depend on the requests in flight.
LEMMA PostsUnchanged ==
  ASSUME PostsInv, UNCHANGED postVars
  PROVE  DuplicateHasOriginal' /\ MembersHoldOwnText' /\ VotesFollowMerges' /\ TextsOfAuthors' /\ PublicTextIsShown'
<1>1. DuplicateHasOriginal'
  BY DEF PostsInv, DuplicateHasOriginal, postVars
<1>2. MembersHoldOwnText' /\ TextsOfAuthors' /\ PublicTextIsShown'
  BY DEF PostsInv, MembersHoldOwnText, TextsOfAuthors, PublicTextIsShown, postVars
<1>3. VotesFollowMerges'
  BY DEF PostsInv, VotesFollowMerges, postVars
<1> QED
  BY <1>1, <1>2, <1>3

\* A step that answers a request, and leaves authors be and takes no text and
\* no vote ever cast away, keeps what is known of the other requests.
LEMMA StepOfAnother ==
  ASSUME PostsInv, NEW a \in Requests, NEW request, req' = [req EXCEPT ![a] = request],
         request = None \/ request.op \notin {"bound", "merge", "copied", "vote", "unvote"},
         author' = author,
         \A p \in Posts : texts[p] \subseteq texts'[p] /\ cast[p] \subseteq cast'[p]
  PROVE  MergesStayAllowed' /\ CopiesAreInPosts' /\ VotesOnSubmitted'
<1>t. TypeOK
  BY DEF PostsInv
<1>1. \A b \in Requests : req'[b] = IF b = a THEN request ELSE req[b]
  BY <1>t DEF TypeOK
<1>2. MergesStayAllowed' /\ VotesOnSubmitted'
  BY <1>1 DEF PostsInv, MergesStayAllowed, VotesOnSubmitted
<1>3. ASSUME NEW b \in Requests, req'[b] # None, req'[b].op = "copied"
      PROVE  req'[b].texts \subseteq texts'[req'[b].post] /\ req'[b].votes \subseteq UNION {cast'[q] : q \in req'[b].texts}
  <2>1. req'[b] = req[b] /\ req[b] # None /\ req[b].op = "copied"
    BY <1>1, <1>3
  <2>2. req[b].post \in Posts /\ req[b].texts \subseteq Posts
    BY <1>t, <2>1, RequestTypes
  <2>3. req[b].texts \subseteq texts[req[b].post] /\ req[b].votes \subseteq UNION {cast[q] : q \in req[b].texts}
    BY <2>1 DEF PostsInv, CopiesAreInPosts
  <2> QED
    BY <2>1, <2>2, <2>3
<1> QED
  BY <1>2, <1>3 DEF CopiesAreInPosts

\* A request that reads, and is no merge and no vote afterwards.
LEMMA StepReading ==
  ASSUME PostsInv, TypeOK', NEW a \in Requests, NEW request, req' = [req EXCEPT ![a] = request],
         request = None \/ request.op \notin {"bound", "merge", "copied", "vote", "unvote"},
         UNCHANGED postVars
  PROVE  PostsInv'
BY PostsUnchanged, StepOfAnother DEF PostsInv, postVars

LEMMA StepCreate ==
  ASSUME PostsInv, NEW u \in Users, NEW p \in Posts, NEW isPrivate \in BOOLEAN, Create(u, p, isPrivate)
  PROVE  PostsInv'
<1>t. TypeOK
  BY DEF PostsInv
<1>1. TypeOK'
  BY <1>t DEF Create, TypeOK
<1>2. DuplicateHasOriginal'
  BY DEF Create, PostsInv, DuplicateHasOriginal
<1>3. \A q \in Posts \ {p} : /\ author'[q] = author[q] /\ private'[q] = private[q]
                            /\ texts'[q] = texts[q] /\ votes'[q] = votes[q] /\ cast'[q] = cast[q]
  BY <1>t DEF Create, TypeOK
<1>4. /\ author[p] = None /\ author'[p] = u /\ u # None /\ texts'[p] = {p}
      /\ votes'[p] = cast'[p] /\ private'[p] = isPrivate /\ req' = req /\ crossed' = crossed
  BY <1>t, PostsAssumption DEF Create, TypeOK, Users
<1>5. shown \subseteq shown' /\ (~isPrivate => p \in shown')
  BY DEF Create
<1>6. \A q \in Posts : p \notin texts[q]
  BY <1>4 DEF PostsInv, TextsOfAuthors
<1>7. MembersHoldOwnText' /\ PublicTextIsShown'
  <2> SUFFICES ASSUME NEW q \in Posts, NEW x \in texts'[q]
               PROVE  /\ author'[q] \in Members => author'[x] = author'[q] \/ x \in shown' \cup crossed'
                      /\ ~private'[q] => x \in shown' \cup crossed'
    BY DEF MembersHoldOwnText, PublicTextIsShown
  <2>1. CASE q = p
    BY <1>4, <1>5, <2>1
  <2>2. CASE q # p
    <3>1. x \in texts[q] /\ x \in Posts \ {p}
      BY <1>t, <1>3, <1>6, <2>2 DEF TypeOK
    <3> QED
      BY <1>3, <1>4, <1>5, <2>2, <3>1 DEF PostsInv, MembersHoldOwnText, PublicTextIsShown
  <2> QED
    BY <2>1, <2>2
<1>8. TextsOfAuthors'
  <2> SUFFICES ASSUME NEW q \in Posts
               PROVE  /\ author'[q] # None => q \in texts'[q]
                      /\ \A x \in texts'[q] : author'[q] # None /\ author'[x] # None
    BY DEF TextsOfAuthors
  <2>1. CASE q = p
    BY <1>4, <2>1
  <2>2. CASE q # p
    BY <1>t, <1>3, <1>6, <2>2 DEF PostsInv, TextsOfAuthors, TypeOK
  <2> QED
    BY <2>1, <2>2
<1>9. VotesFollowMerges'
  <2>1. ASSUME NEW q \in Posts, NEW v \in votes'[q] PROVE \E x \in texts'[q] : v \in cast'[x]
    <3>1. CASE q = p
      BY <1>4, <2>1, <3>1
    <3>2. CASE q # p
      <4>1. PICK x \in texts[q] : v \in cast[x]
        BY <1>3, <2>1, <3>2 DEF PostsInv, VotesFollowMerges
      <4>2. x \in Posts /\ x # p
        BY <1>t, <1>6, <4>1 DEF TypeOK
      <4> QED
        BY <1>3, <3>2, <4>1, <4>2
    <3> QED
      BY <3>1, <3>2
  <2> QED
    BY <2>1 DEF VotesFollowMerges
<1>10. MergesStayAllowed' /\ VotesOnSubmitted'
  BY <1>t, <1>3, <1>4, RequestTypes DEF PostsInv, MergesStayAllowed, VotesOnSubmitted
<1>11. CopiesAreInPosts'
  <2> SUFFICES ASSUME NEW a \in Requests, req[a] # None, req[a].op = "copied"
               PROVE  /\ req[a].texts \subseteq texts'[req[a].post]
                      /\ \A v \in req[a].votes : \E x \in req[a].texts : v \in cast'[x]
    BY <1>4 DEF CopiesAreInPosts
  <2>1. req[a].post \in Posts /\ req[a].texts \subseteq Posts /\ author[req[a].post] # None
    BY <1>t, RequestTypes DEF PostsInv, MergesStayAllowed
  <2>2. req[a].texts \subseteq texts[req[a].post] /\ req[a].votes \subseteq UNION {cast[q] : q \in req[a].texts}
    BY DEF PostsInv, CopiesAreInPosts
  <2>3. req[a].post # p /\ p \notin req[a].texts
    BY <1>4, <1>6, <2>1, <2>2
  <2>4. ASSUME NEW v \in req[a].votes PROVE \E x \in req[a].texts : v \in cast'[x]
    <3>1. PICK x \in req[a].texts : v \in cast[x]
      BY <2>2
    <3> QED
      BY <1>3, <2>1, <2>3, <3>1
  <2> QED
    BY <1>3, <2>1, <2>2, <2>3, <2>4
<1> QED
  BY <1>1, <1>2, <1>7, <1>8, <1>9, <1>10, <1>11 DEF PostsInv

\* A merge that was overtaken by a change of privacy is in crossed; any other
\* moves public text, or private text of one author.
LEMMA StepMerge ==
  ASSUME PostsInv, NEW a \in Requests, DoMerge(a)
  PROVE  PostsInv'
<1>t. TypeOK
  BY DEF PostsInv
<1> DEFINE r == req[a]
<1>1. /\ r # None /\ r.op = "copied" /\ r.post \in Posts /\ r.orig \in Posts
      /\ r.private \in BOOLEAN /\ r.post # r.orig /\ r.votes \subseteq Voters /\ r.texts \subseteq Posts
      /\ author[r.post] # None /\ author[r.orig] # None
      /\ r.private /\ author[r.orig] \in Members => author[r.post] = author[r.orig]
      /\ r.texts \subseteq texts[r.post] /\ r.votes \subseteq UNION {cast[q] : q \in r.texts}
  BY <1>t, RequestTypes DEF DoMerge, PostsInv, MergesStayAllowed, CopiesAreInPosts
<1>2. /\ \A p \in Posts : texts'[p] = IF p = r.orig THEN texts[p] \cup r.texts ELSE texts[p]
      /\ \A p \in Posts : votes'[p] \subseteq IF p = r.orig THEN votes[p] \cup r.votes ELSE votes[p]
      /\ UNCHANGED <<author, private, cast, shown>>
  BY <1>t, <1>1 DEF DoMerge, TypeOK
<1>3. /\ crossed \subseteq crossed'
      /\ \/ r.texts \subseteq crossed'
         \/ private[r.post] = r.private /\ private[r.orig] = r.private
  BY DEF DoMerge
<1>4. TypeOK'
  <2>1. votes' \in [Posts -> SUBSET Voters] /\ texts' \in [Posts -> SUBSET Posts] /\ crossed' \subseteq Posts
    BY <1>t, <1>1 DEF DoMerge, TypeOK
  <2>2. original' \in [Posts -> Posts \cup {None}] /\ \A p \in Posts : original'[p] # p
    BY <1>t, <1>1 DEF DoMerge, TypeOK
  <2>3. status' \in [Posts -> Slugs] /\ req' \in [Requests -> Merge \cup Respond \cup Privacy \cup Vote \cup {None}]
    BY <1>t, <1>1 DEF DoMerge, Answer, TypeOK, Slugs
  <2> QED
    BY <1>t, <1>2, <2>1, <2>2, <2>3 DEF TypeOK
<1>5. DuplicateHasOriginal'
  BY <1>t, <1>1, PostsAssumption DEF DoMerge, TypeOK, PostsInv, DuplicateHasOriginal
<1>6. MembersHoldOwnText'
  <2> SUFFICES ASSUME NEW p \in Posts, author[p] \in Members, NEW q \in texts'[p]
               PROVE  author[q] = author[p] \/ q \in shown \cup crossed'
    BY <1>2 DEF MembersHoldOwnText
  <2>1. CASE q \in texts[p]
    BY <1>3, <2>1 DEF PostsInv, MembersHoldOwnText
  <2>2. CASE p = r.orig /\ q \in r.texts
    <3>1. CASE r.private
      BY <1>1, <1>3, <2>2, <3>1 DEF PostsInv, MembersHoldOwnText
    <3>2. CASE ~r.private
      BY <1>1, <1>3, <2>2, <3>2 DEF PostsInv, PublicTextIsShown
    <3> QED
      BY <1>1, <3>1, <3>2
  <2> QED
    BY <1>2, <2>1, <2>2
<1>7. PublicTextIsShown'
  <2> SUFFICES ASSUME NEW p \in Posts, ~private[p], NEW q \in texts'[p]
               PROVE  q \in shown \cup crossed'
    BY <1>2 DEF PublicTextIsShown
  <2>1. CASE q \in texts[p]
    BY <1>3, <2>1 DEF PostsInv, PublicTextIsShown
  <2>2. CASE p = r.orig /\ q \in r.texts
    BY <1>1, <1>3, <2>2 DEF PostsInv, PublicTextIsShown
  <2> QED
    BY <1>2, <2>1, <2>2
<1>8. TextsOfAuthors'
  BY <1>1, <1>2 DEF PostsInv, TextsOfAuthors
<1>9. VotesFollowMerges'
  <2>1. ASSUME NEW p \in Posts, NEW v \in votes'[p] PROVE \E q \in texts'[p] : v \in cast[q]
    <3>1. CASE v \in votes[p]
      <4>1. PICK q \in texts[p] : v \in cast[q]
        BY <3>1 DEF PostsInv, VotesFollowMerges
      <4> QED
        BY <1>2, <4>1
    <3>2. CASE p = r.orig /\ v \in r.votes
      <4>1. PICK q \in r.texts : v \in cast[q]
        BY <1>1, <3>2
      <4> QED
        BY <1>2, <3>2, <4>1
    <3> QED
      BY <1>2, <2>1, <3>1, <3>2
  <2> QED
    BY <1>2, <2>1 DEF VotesFollowMerges
<1>10. MergesStayAllowed' /\ CopiesAreInPosts' /\ VotesOnSubmitted'
  <2>1. req' = [req EXCEPT ![a] = None] /\ author' = author
    BY DEF DoMerge, Answer
  <2>2. \A p \in Posts : texts[p] \subseteq texts'[p] /\ cast[p] \subseteq cast'[p]
    BY <1>2
  <2> QED
    BY <2>1, <2>2, StepOfAnother
<1> QED
  BY <1>4, <1>5, <1>6, <1>7, <1>8, <1>9, <1>10 DEF PostsInv

LEMMA StepPosts == PostsInv /\ [Next]_vars => PostsInv'
<1> SUFFICES ASSUME PostsInv, [Next]_vars PROVE PostsInv'
  OBVIOUS
<1>t. TypeOK
  BY DEF PostsInv
<1> USE DEF Ask, Answer
<1>1. ASSUME NEW u \in Users, NEW p \in Posts, NEW isPrivate \in BOOLEAN, Create(u, p, isPrivate)
      PROVE  PostsInv'
  BY <1>1, StepCreate
<1>2. ASSUME NEW a \in Requests, NEW u \in Users, NEW p \in Posts, NEW o \in Posts, AskMerge(a, u, p, o)
      PROVE  PostsInv'
  <2> DEFINE m == [op |-> "bound", user |-> u, post |-> p, orig |-> o,
                   private |-> private[o], votable |-> CanBeVoted(o), votes |-> {}, texts |-> {}]
  <2>1. m \in Merge
    BY <1>t, <1>2 DEF AskMerge, Merge, TypeOK, CanBeVoted
  <2>2. TypeOK'
    BY <1>t, <1>2, <2>1 DEF AskMerge, TypeOK, postVars
  <2>3. p # o /\ author[o] # None /\ UNCHANGED postVars /\ req' = [req EXCEPT ![a] = m]
    BY <1>2 DEF AskMerge, Visible
  <2>4. m.op = "bound" /\ m.post = p /\ m.orig = o
    OBVIOUS
  <2> HIDE DEF m
  <2>5. MergesStayAllowed' /\ CopiesAreInPosts' /\ VotesOnSubmitted'
    BY <1>t, <2>3, <2>4 DEF PostsInv, MergesStayAllowed, CopiesAreInPosts, VotesOnSubmitted, TypeOK, postVars
  <2> QED
    BY <2>2, <2>3, <2>5, PostsUnchanged DEF PostsInv
<1>3. ASSUME NEW a \in Requests, DoMerge(a) PROVE PostsInv'
  BY <1>3, StepMerge
<1>4. ASSUME NEW a \in Requests, NEW u \in Users, NEW p \in Posts,
             NEW s \in Responses, NEW declined \in BOOLEAN,
             AskRespond(a, u, p, s, declined)
      PROVE  PostsInv'
  <2> DEFINE m == [op |-> "respond", user |-> u, post |-> p, status |-> s]
  <2>1. m \in Respond
    BY <1>4 DEF AskRespond, Respond
  <2>2. TypeOK'
    BY <1>t, <1>4, <2>1 DEF AskRespond, TypeOK, postVars
  <2> QED
    BY <1>4, <2>2, StepReading DEF AskRespond
<1>5. ASSUME NEW a \in Requests, DoRespond(a) PROVE PostsInv'
  <2>1. req[a].post \in Posts /\ req[a].status \in Responses
    BY <1>t, <1>5, RequestTypes DEF DoRespond
  <2>2. TypeOK'
    BY <1>t, <1>5, <2>1, PostsAssumption DEF DoRespond, TypeOK, Slugs
  <2>3. DuplicateHasOriginal'
    BY <1>t, <1>5, <2>1 DEF DoRespond, TypeOK, PostsInv, DuplicateHasOriginal, Responses
  <2>4. MembersHoldOwnText' /\ TextsOfAuthors' /\ PublicTextIsShown'
    BY <1>5 DEF DoRespond, PostsInv, MembersHoldOwnText, TextsOfAuthors, PublicTextIsShown
  <2>5. VotesFollowMerges'
    BY <1>5 DEF DoRespond, PostsInv, VotesFollowMerges
  <2>6. MergesStayAllowed' /\ CopiesAreInPosts' /\ VotesOnSubmitted'
    BY <1>5, StepOfAnother DEF DoRespond
  <2> QED
    BY <2>2, <2>3, <2>4, <2>5, <2>6 DEF PostsInv
<1>6. ASSUME NEW a \in Requests, NEW u \in Users, NEW p \in Posts, NEW isPrivate \in BOOLEAN,
             AskPrivacy(a, u, p, isPrivate)
      PROVE  PostsInv'
  <2> DEFINE m == [op |-> IF u \in Staff THEN "privacy" ELSE "check",
                   user |-> u, post |-> p, private |-> isPrivate]
  <2>1. m \in Privacy
    BY <1>6 DEF AskPrivacy, Privacy
  <2>2. TypeOK'
    BY <1>t, <1>6, <2>1 DEF AskPrivacy, TypeOK, postVars
  <2>3. m.op \notin {"bound", "merge", "copied", "vote", "unvote"}
    OBVIOUS
  <2> QED
    BY <1>6, <2>2, <2>3, StepReading DEF AskPrivacy
<1>7. ASSUME NEW a \in Requests, CheckCluster(a) PROVE PostsInv'
  <2> DEFINE m == [req[a] EXCEPT !.op = "privacy"]
  <2>1. req[a] \in Privacy
    BY <1>t, <1>7 DEF CheckCluster, TypeOK, Merge, Respond, Privacy, Vote
  <2>2. m \in Privacy /\ m.op \notin {"bound", "merge", "copied", "vote", "unvote"}
    BY <2>1 DEF Privacy
  <2>3. TypeOK'
    BY <1>t, <1>7, <2>2 DEF CheckCluster, TypeOK, postVars
  <2> QED
    BY <1>7, <2>2, <2>3, StepReading DEF CheckCluster
<1>8. ASSUME NEW a \in Requests, DoPrivacy(a) PROVE PostsInv'
  <2>1. req[a].private \in BOOLEAN
    BY <1>t, <1>8, RequestTypes DEF DoPrivacy
  <2>2. TypeOK'
    BY <1>t, <1>8, <2>1 DEF DoPrivacy, Cluster, TypeOK
  <2>3. UNCHANGED <<author, status, original, votes, texts, cast, crossed>> /\ shown \subseteq shown'
    BY <1>8 DEF DoPrivacy
  <2>4. \A p \in Posts : ~private'[p] => ~private[p] \/ texts[p] \subseteq shown'
    BY <1>8 DEF DoPrivacy
  <2>5. DuplicateHasOriginal'
    BY <2>3 DEF PostsInv, DuplicateHasOriginal
  <2>6. MembersHoldOwnText' /\ TextsOfAuthors' /\ PublicTextIsShown'
    BY <2>3, <2>4 DEF PostsInv, MembersHoldOwnText, TextsOfAuthors, PublicTextIsShown
  <2>7. VotesFollowMerges'
    BY <2>3 DEF PostsInv, VotesFollowMerges
  <2>8. MergesStayAllowed' /\ CopiesAreInPosts' /\ VotesOnSubmitted'
    BY <1>8, <2>3, StepOfAnother DEF DoPrivacy
  <2> QED
    BY <2>2, <2>5, <2>6, <2>7, <2>8 DEF PostsInv
<1>9. ASSUME NEW a \in Requests, NEW u \in Users, NEW p \in Posts, NEW op \in {"vote", "unvote"},
             AskVote(a, u, p, op)
      PROVE  PostsInv'
  <2> DEFINE m == [op |-> op, user |-> u, post |-> p]
  <2>1. m \in Vote
    BY <1>9 DEF AskVote, Vote
  <2>2. TypeOK'
    BY <1>t, <1>9, <2>1 DEF AskVote, TypeOK, postVars
  <2>3. author[p] # None /\ UNCHANGED postVars /\ req' = [req EXCEPT ![a] = m]
    BY <1>9 DEF AskVote, Visible
  <2>4. m.op \in {"vote", "unvote"} /\ m.post = p
    OBVIOUS
  <2> HIDE DEF m
  <2>5. MergesStayAllowed' /\ CopiesAreInPosts' /\ VotesOnSubmitted'
    BY <1>t, <2>3, <2>4 DEF PostsInv, MergesStayAllowed, CopiesAreInPosts, VotesOnSubmitted, TypeOK, postVars
  <2> QED
    BY <2>2, <2>3, <2>5, PostsUnchanged DEF PostsInv
<1>10. ASSUME NEW a \in Requests, DoVote(a) PROVE PostsInv'
  <2> DEFINE r == req[a]
  <2>1. r.post \in Posts /\ r.user \in Voters /\ author[r.post] # None
    BY <1>t, <1>10, RequestTypes DEF DoVote, PostsInv, VotesOnSubmitted
  <2>2. TypeOK'
    BY <1>t, <1>10, <2>1 DEF DoVote, TypeOK
  <2>3. UNCHANGED <<author, status, original, private, texts, shown, crossed>>
    BY <1>10 DEF DoVote
  <2>4. /\ \A p \in Posts : cast[p] \subseteq cast'[p]
        /\ \A p \in Posts : votes'[p] \subseteq votes[p] \/ (p = r.post /\ r.user \in cast'[p] /\ votes'[p] \subseteq votes[p] \cup {r.user})
    BY <1>t, <1>10, <2>1 DEF DoVote, TypeOK
  <2>5. DuplicateHasOriginal' /\ MembersHoldOwnText' /\ TextsOfAuthors' /\ PublicTextIsShown'
    BY <2>3 DEF PostsInv, DuplicateHasOriginal, MembersHoldOwnText, TextsOfAuthors, PublicTextIsShown
  <2>6. VotesFollowMerges'
    <3>1. ASSUME NEW p \in Posts, NEW v \in votes'[p] PROVE \E q \in texts[p] : v \in cast'[q]
      <4>1. CASE v \in votes[p]
        <5>1. PICK q \in texts[p] : v \in cast[q]
          BY <4>1 DEF PostsInv, VotesFollowMerges
        <5> QED
          BY <1>t, <2>4, <5>1 DEF TypeOK
      <4>2. CASE p = r.post /\ v = r.user /\ v \in cast'[p]
        BY <2>1, <4>2 DEF PostsInv, TextsOfAuthors
      <4> QED
        BY <2>4, <3>1, <4>1, <4>2
    <3> QED
      BY <2>3, <3>1 DEF VotesFollowMerges
  <2>7. MergesStayAllowed' /\ CopiesAreInPosts' /\ VotesOnSubmitted'
    BY <1>10, <2>3, <2>4, StepOfAnother DEF DoVote
  <2> QED
    BY <2>2, <2>5, <2>6, <2>7 DEF PostsInv
<1>11. ASSUME NEW a \in Requests, ReadMerged(a) PROVE PostsInv'
  <2> DEFINE r == req[a]
             m == [r EXCEPT !.op = "merge"]
  <2>1. r \in Merge /\ m \in Merge /\ m.op = "merge"
        /\ m.post = r.post /\ m.orig = r.orig /\ m.private = r.private
    BY <1>t, <1>11, RequestTypes DEF ReadMerged, Merge
  <2>2. r.post # r.orig /\ author[r.orig] # None
    BY <1>11 DEF ReadMerged, PostsInv, MergesStayAllowed
  <2>3. Visible(r.user, r.post) /\ MayMerge(r) =>
          /\ author[r.post] # None
          /\ r.private /\ author[r.orig] \in Members => author[r.post] = author[r.orig]
    BY DEF Visible, MayMerge
  <2>4. TypeOK'
    BY <1>t, <1>11, <2>1 DEF ReadMerged, TypeOK, postVars
  <2>5. CASE req' = [req EXCEPT ![a] = None]
    BY <1>11, <2>4, <2>5, StepReading DEF ReadMerged
  <2>6. CASE Visible(r.user, r.post) /\ MayMerge(r) /\ req' = [req EXCEPT ![a] = m]
    <3>1. UNCHANGED postVars
      BY <1>11 DEF ReadMerged
    <3> HIDE DEF m
    <3>2. MergesStayAllowed' /\ CopiesAreInPosts' /\ VotesOnSubmitted'
      BY <1>t, <2>1, <2>2, <2>3, <2>6, <3>1 DEF PostsInv, MergesStayAllowed, CopiesAreInPosts, VotesOnSubmitted, TypeOK, postVars
    <3> QED
      BY <2>4, <3>1, <3>2, PostsUnchanged DEF PostsInv
  <2> QED
    BY <1>11, <2>5, <2>6 DEF ReadMerged
<1>12. ASSUME NEW a \in Requests, CopyMerged(a) PROVE PostsInv'
  <2> DEFINE r == req[a]
             m == [r EXCEPT !.op = "copied", !.votes = votes[r.post], !.texts = texts[r.post]]
  <2>1. r # None /\ r.op = "merge" /\ UNCHANGED postVars /\ req' = [req EXCEPT ![a] = m]
    BY <1>12 DEF CopyMerged
  <2>2. r \in Merge /\ r.post \in Posts
    BY <1>t, <2>1, RequestTypes
  <2>3. /\ m \in Merge /\ m.op = "copied" /\ m.post = r.post /\ m.orig = r.orig /\ m.private = r.private
        /\ m.votes = votes[r.post] /\ m.texts = texts[r.post]
    BY <1>t, <2>2 DEF Merge, TypeOK
  <2> HIDE DEF m
  <2>4. TypeOK'
    BY <1>t, <2>1, <2>3 DEF TypeOK, postVars
  <2>5. MergesStayAllowed' /\ VotesOnSubmitted'
    BY <1>t, <2>1, <2>3 DEF PostsInv, MergesStayAllowed, VotesOnSubmitted, TypeOK, postVars
  <2>6. CopiesAreInPosts'
    <3>1. votes[r.post] \subseteq UNION {cast[q] : q \in texts[r.post]}
      BY <2>2 DEF PostsInv, VotesFollowMerges
    <3>2. \A b \in Requests : req'[b] = IF b = a THEN m ELSE req[b]
      BY <1>t, <2>1 DEF TypeOK
    <3>3. texts' = texts /\ cast' = cast
      BY <2>1 DEF postVars
    <3>4. ASSUME NEW b \in Requests, req'[b] # None, req'[b].op = "copied"
          PROVE  req'[b].texts \subseteq texts[req'[b].post] /\ req'[b].votes \subseteq UNION {cast[q] : q \in req'[b].texts}
      <4>1. CASE b = a
        BY <2>3, <3>1, <3>2, <4>1
      <4>2. CASE b # a
        BY <3>2, <3>4, <4>2 DEF PostsInv, CopiesAreInPosts
      <4> QED
        BY <4>1, <4>2
    <3> QED
      BY <3>3, <3>4 DEF CopiesAreInPosts
  <2> QED
    BY <2>1, <2>4, <2>5, <2>6, PostsUnchanged DEF PostsInv
<1>13. ASSUME UNCHANGED vars PROVE PostsInv'
  <2>1. UNCHANGED postVars /\ req' = req
    BY <1>13 DEF vars, postVars
  <2>2. TypeOK'
    BY <1>t, <1>13 DEF vars, TypeOK
  <2>3. MergesStayAllowed' /\ CopiesAreInPosts' /\ VotesOnSubmitted'
    BY <1>13 DEF vars, PostsInv, MergesStayAllowed, CopiesAreInPosts, VotesOnSubmitted
  <2> QED
    BY <2>1, <2>2, <2>3, PostsUnchanged DEF PostsInv
<1> QED
  BY <1>1, <1>2, <1>3, <1>4, <1>5, <1>6, <1>7, <1>8, <1>9, <1>10, <1>11, <1>12, <1>13 DEF Next, Reads, Writes

\* A post has the slug "duplicate" exactly while it points at an original,
\* whatever merges, responses and deletions raced for it.
THEOREM DuplicatesAlwaysHaveOriginals == Spec => []DuplicateHasOriginal
<1>1. Spec => []PostsInv
  BY InitPosts, StepPosts, PTL DEF Spec
<1> QED
  BY <1>1, PTL DEF PostsInv

\* Posts, their votes and the requests at work keep their types.
THEOREM PostsKeepTheirTypes == Spec => []TypeOK
<1>1. Spec => []PostsInv
  BY InitPosts, StepPosts, PTL DEF Spec
<1> QED
  BY <1>1, PTL DEF PostsInv

\* A member's idea never holds text of anybody else that the public was not
\* shown, through chains of merges of any length, unless a merge lost the race
\* with a change of privacy.
THEOREM MembersAlwaysHoldOwnText == Spec => []MembersHoldOwnText
<1>1. Spec => []PostsInv
  BY InitPosts, StepPosts, PTL DEF Spec
<1> QED
  BY <1>1, PTL DEF PostsInv

\* Nobody counts for an idea who never voted for it or for one merged into it,
\* through chains of merges of any length and votes cast and withdrawn during
\* them.
THEOREM VotesAlwaysFollowMerges == Spec => []VotesFollowMerges
<1>1. Spec => []PostsInv
  BY InitPosts, StepPosts, PTL DEF Spec
<1> QED
  BY <1>1, PTL DEF PostsInv

-----------------------------------------------------------------------------
(* What holds of requests that do not overlap                              *)

\* One request at a time: what it has read is so when it writes, although posts
\* may be submitted meanwhile.
Alone == \A a, b \in Requests : a = b

DuplicatesAreSubmitted ==
  \A p \in Posts : original[p] # None => author[p] # None /\ author[original[p]] # None

ReadsAreCurrent ==
  \A a \in Requests : req[a] # None =>
    LET r == req[a] IN
    /\ r.op \in {"bound", "merge", "copied"} => private[r.orig] = r.private
    /\ r.op \in {"merge", "copied"} => private[r.post] = r.private
    /\ r.op = "privacy" /\ r.user \in Members => \A q \in Cluster(r.post) : author[q] = r.user

AloneInv == PostsInv /\ DuplicatesAreSubmitted /\ ReadsAreCurrent

LEMMA InitAlone == Init => AloneInv
BY InitPosts DEF Init, AloneInv, DuplicatesAreSubmitted, ReadsAreCurrent

LEMMA StepSubmitted ==
  ASSUME PostsInv, DuplicatesAreSubmitted, [Next]_vars
  PROVE  DuplicatesAreSubmitted'
<1>t. TypeOK
  BY DEF PostsInv
<1>1. ASSUME UNCHANGED <<author, original>> PROVE DuplicatesAreSubmitted'
  BY <1>1 DEF DuplicatesAreSubmitted
<1>2. ASSUME NEW u \in Users, NEW p \in Posts, NEW isPrivate, Create(u, p, isPrivate) PROVE DuplicatesAreSubmitted'
  BY <1>t, <1>2, PostsAssumption DEF Create, DuplicatesAreSubmitted, TypeOK, Users
<1>3. ASSUME NEW a \in Requests, DoMerge(a) PROVE DuplicatesAreSubmitted'
  <2>1. /\ req[a].post \in Posts /\ author[req[a].post] # None /\ author[req[a].orig] # None
        /\ original' = [original EXCEPT ![req[a].post] = req[a].orig] /\ author' = author
    BY <1>t, <1>3, RequestTypes DEF DoMerge, PostsInv, MergesStayAllowed
  <2> QED
    BY <1>t, <2>1 DEF DuplicatesAreSubmitted, TypeOK
<1>4. ASSUME NEW a \in Requests, DoRespond(a) PROVE DuplicatesAreSubmitted'
  <2>1. req[a].post \in Posts
    BY <1>t, <1>4, RequestTypes DEF DoRespond
  <2> QED
    BY <1>t, <1>4, <2>1 DEF DoRespond, DuplicatesAreSubmitted, TypeOK
<1>5. ASSUME NEW a \in Requests, Reads(a) \/ ReadMerged(a) \/ CopyMerged(a) \/ CheckCluster(a) \/ DoPrivacy(a) \/ DoVote(a)
      PROVE  UNCHANGED <<author, original>>
  BY <1>5 DEF Reads, AskMerge, AskRespond, AskPrivacy, AskVote, Ask, ReadMerged, CopyMerged, CheckCluster, DoPrivacy, DoVote, postVars
<1> QED
  BY <1>1, <1>2, <1>3, <1>4, <1>5 DEF Next, Writes, vars

LEMMA StepReads ==
  ASSUME Alone, PostsInv, ReadsAreCurrent, [Next]_vars
  PROVE  ReadsAreCurrent'
<1>t. TypeOK
  BY DEF PostsInv
\* What is true of the request that was just asked or read on.
<1>0. ASSUME NEW a \in Requests, NEW m, req' = [req EXCEPT ![a] = m], UNCHANGED postVars,
             m # None =>
               /\ m.op \in {"bound", "merge", "copied"} => private[m.orig] = m.private
               /\ m.op \in {"merge", "copied"} => private[m.post] = m.private
               /\ m.op = "privacy" /\ m.user \in Members => \A q \in Cluster(m.post) : author[q] = m.user
      PROVE  ReadsAreCurrent'
  <2>1. \A b \in Requests : req'[b] = m
    BY <1>t, <1>0 DEF Alone, TypeOK
  <2>2. private' = private /\ author' = author /\ \A q \in Posts : Cluster(q)' = Cluster(q)
    BY <1>0 DEF postVars, Cluster
  <2>3. Cluster(m.post)' = Cluster(m.post)
    BY <1>0 DEF postVars, Cluster
  <2> QED
    BY <1>0, <2>1, <2>2, <2>3 DEF ReadsAreCurrent, Cluster, postVars
<1>1. ASSUME NEW a \in Requests, Answer(a) PROVE ReadsAreCurrent'
  BY <1>t, <1>1 DEF Answer, Alone, TypeOK, ReadsAreCurrent
<1>2. ASSUME NEW u \in Users, NEW p \in Posts, NEW isPrivate, Create(u, p, isPrivate) PROVE ReadsAreCurrent'
  <2>1. /\ req' = req /\ original' = original /\ author[p] = None
        /\ \A q \in Posts \ {p} : author'[q] = author[q] /\ private'[q] = private[q]
    BY <1>t, <1>2 DEF Create, TypeOK
  <2> SUFFICES ASSUME NEW a \in Requests, req[a] # None
               PROVE  /\ req[a].op \in {"bound", "merge", "copied"} => private'[req[a].orig] = req[a].private
                      /\ req[a].op \in {"merge", "copied"} => private'[req[a].post] = req[a].private
                      /\ req[a].op = "privacy" /\ req[a].user \in Members
                            => \A q \in Cluster(req[a].post) : author'[q] = req[a].user
    BY <2>1 DEF ReadsAreCurrent, Cluster
  <2>2. req[a].op \in {"bound", "merge", "copied"} => private'[req[a].orig] = req[a].private
    <3>1. req[a].op \in {"bound", "merge", "copied"} => req[a].orig \in Posts /\ author[req[a].orig] # None
      BY <1>t, RequestTypes DEF PostsInv, MergesStayAllowed
    <3> QED
      BY <2>1, <3>1 DEF ReadsAreCurrent
  <2>3. req[a].op \in {"merge", "copied"} => private'[req[a].post] = req[a].private
    <3>1. req[a].op \in {"merge", "copied"} => req[a].post \in Posts /\ author[req[a].post] # None
      BY <1>t, RequestTypes DEF PostsInv, MergesStayAllowed
    <3> QED
      BY <2>1, <3>1 DEF ReadsAreCurrent
  <2>4. ASSUME req[a].op = "privacy", req[a].user \in Members, NEW q \in Cluster(req[a].post)
        PROVE  author'[q] = req[a].user
    <3>1. author[q] = req[a].user /\ q \in Posts
      BY <2>4 DEF ReadsAreCurrent, Cluster
    <3>2. q # p
      BY <2>1, <2>4, <3>1, PostsAssumption
    <3> QED
      BY <2>1, <3>1, <3>2
  <2> QED
    BY <2>2, <2>3, <2>4
<1>3. ASSUME NEW a \in Requests, NEW u \in Users, NEW p \in Posts, NEW o \in Posts, AskMerge(a, u, p, o) PROVE ReadsAreCurrent'
  <2> DEFINE m == [op |-> "bound", user |-> u, post |-> p, orig |-> o, private |-> private[o], votable |-> CanBeVoted(o),
                   votes |-> {}, texts |-> {}]
  <2>1. m.op = "bound" /\ m.orig = o /\ m.private = private[o]
    OBVIOUS
  <2>2. req' = [req EXCEPT ![a] = m] /\ UNCHANGED postVars
    BY <1>3 DEF AskMerge, Ask
  <2> HIDE DEF m
  <2> QED
    BY <1>0, <2>1, <2>2
<1>4. ASSUME NEW a \in Requests, NEW u \in Users, NEW p \in Posts, NEW s, NEW declined, AskRespond(a, u, p, s, declined)
      PROVE  ReadsAreCurrent'
  <2> DEFINE m == [op |-> "respond", user |-> u, post |-> p, status |-> s]
  <2>1. m.op = "respond"
    OBVIOUS
  <2>2. req' = [req EXCEPT ![a] = m] /\ UNCHANGED postVars
    BY <1>4 DEF AskRespond, Ask
  <2> HIDE DEF m
  <2> QED
    BY <1>0, <2>1, <2>2
<1>5. ASSUME NEW a \in Requests, NEW u \in Users, NEW p \in Posts, NEW isPrivate, AskPrivacy(a, u, p, isPrivate)
      PROVE  ReadsAreCurrent'
  <2> DEFINE m == [op |-> IF u \in Staff THEN "privacy" ELSE "check", user |-> u, post |-> p, private |-> isPrivate]
  <2>1. m.op \notin {"bound", "merge", "copied"} /\ (m.op = "privacy" => m.user \notin Members)
    BY PostsAssumption
  <2>2. req' = [req EXCEPT ![a] = m] /\ UNCHANGED postVars
    BY <1>5 DEF AskPrivacy, Ask
  <2> HIDE DEF m
  <2> QED
    BY <1>0, <2>1, <2>2
<1>6. ASSUME NEW a \in Requests, NEW u \in Users, NEW p \in Posts, NEW op \in {"vote", "unvote"}, AskVote(a, u, p, op)
      PROVE  ReadsAreCurrent'
  <2> DEFINE m == [op |-> op, user |-> u, post |-> p]
  <2>1. m.op \notin {"bound", "merge", "copied", "privacy"}
    OBVIOUS
  <2>2. req' = [req EXCEPT ![a] = m] /\ UNCHANGED postVars
    BY <1>6 DEF AskVote, Ask
  <2> HIDE DEF m
  <2> QED
    BY <1>0, <2>1, <2>2
<1>7. ASSUME NEW a \in Requests, ReadMerged(a) PROVE ReadsAreCurrent'
  <2> DEFINE m == [req[a] EXCEPT !.op = "merge"]
  <2>1. req[a] # None /\ req[a].op = "bound" /\ req[a] \in Merge
    BY <1>t, <1>7, RequestTypes DEF ReadMerged
  <2>2. m.op = "merge" /\ m.orig = req[a].orig /\ m.private = req[a].private /\ m.post = req[a].post
    BY <2>1 DEF Merge
  <2>3. private[req[a].orig] = req[a].private
    BY <2>1 DEF ReadsAreCurrent
  <2>4. (req' = [req EXCEPT ![a] = m] /\ private[req[a].post] = req[a].private) \/ req' = [req EXCEPT ![a] = None]
    BY <1>7 DEF ReadMerged, MayMerge
  <2>5. UNCHANGED postVars
    BY <1>7 DEF ReadMerged
  <2> HIDE DEF m
  <2> QED
    BY <1>0, <2>2, <2>3, <2>4, <2>5
<1>11. ASSUME NEW a \in Requests, CopyMerged(a) PROVE ReadsAreCurrent'
  <2> DEFINE m == [req[a] EXCEPT !.op = "copied", !.votes = votes[req[a].post], !.texts = texts[req[a].post]]
  <2>1. /\ req[a] # None /\ req[a].op = "merge" /\ req[a] \in Merge
        /\ UNCHANGED postVars /\ req' = [req EXCEPT ![a] = m]
    BY <1>t, <1>11, RequestTypes DEF CopyMerged
  <2>2. m.op = "copied" /\ m.orig = req[a].orig /\ m.private = req[a].private /\ m.post = req[a].post
    BY <2>1 DEF Merge
  <2>3. private[req[a].orig] = req[a].private /\ private[req[a].post] = req[a].private
    BY <2>1 DEF ReadsAreCurrent
  <2> HIDE DEF m
  <2> QED
    BY <1>0, <2>1, <2>2, <2>3
<1>8. ASSUME NEW a \in Requests, CheckCluster(a) PROVE ReadsAreCurrent'
  <2> DEFINE m == [req[a] EXCEPT !.op = "privacy"]
  <2>1. req[a] \in Privacy
    BY <1>t, <1>8 DEF CheckCluster, TypeOK, Merge, Respond, Privacy, Vote
  <2>2. m.op = "privacy" /\ m.user = req[a].user /\ m.post = req[a].post
    BY <2>1 DEF Privacy
  <2>3. \/ req' = [req EXCEPT ![a] = m] /\ \A q \in Cluster(req[a].post) : author[q] = req[a].user
        \/ req' = [req EXCEPT ![a] = None]
    BY <1>8 DEF CheckCluster
  <2>4. UNCHANGED postVars
    BY <1>8 DEF CheckCluster
  <2> HIDE DEF m
  <2> QED
    BY <1>0, <2>2, <2>3, <2>4
<1>9. ASSUME NEW a \in Requests, DoMerge(a) \/ DoRespond(a) \/ DoPrivacy(a) \/ DoVote(a) PROVE Answer(a)
  BY <1>9 DEF DoMerge, DoRespond, DoPrivacy, DoVote
<1>10. CASE UNCHANGED vars
  BY <1>10 DEF vars, ReadsAreCurrent, Cluster
<1> QED
  BY <1>1, <1>2, <1>3, <1>4, <1>5, <1>6, <1>7, <1>8, <1>9, <1>10, <1>11 DEF Next, Reads, Writes

\* While requests do not overlap, a member publishes their own ideas only: that
\* one publishes somebody else's (run posts_race) takes another request that
\* commits between the check and the write.
THEOREM AlonePublishOwn == Alone => (Spec => MembersPublishOwn)
<1> SUFFICES ASSUME Alone PROVE Spec => MembersPublishOwn
  OBVIOUS
<1> DEFINE Own ==
      \A a \in Requests :
        req[a] # None /\ req[a].op = "privacy" /\ req[a].user \in Members /\ req'[a] = None =>
          \A q \in Posts : private'[q] # private[q] => author[q] = req[a].user
<1>1. ASSUME AloneInv, Next PROVE Own
  <2> SUFFICES ASSUME NEW a \in Requests, req[a] # None, req[a].op = "privacy", req[a].user \in Members, req'[a] = None,
                      NEW q \in Posts, private'[q] # private[q]
               PROVE  author[q] = req[a].user
    OBVIOUS
  <2>t. TypeOK
    BY <1>1 DEF AloneInv, PostsInv
  <2>1. PICK b \in Requests : DoPrivacy(b)
    <3>1. ASSUME NEW u \in Users, NEW p \in Posts, NEW isPrivate, Create(u, p, isPrivate) PROVE req' = req
      BY <3>1 DEF Create
    <3>2. ASSUME NEW c \in Requests, \/ Reads(c) \/ ReadMerged(c) \/ CopyMerged(c) \/ DoMerge(c) \/ DoRespond(c) \/ CheckCluster(c) \/ DoVote(c)
          PROVE  private' = private
      BY <3>2 DEF Reads, AskMerge, AskRespond, AskPrivacy, AskVote, Ask, ReadMerged, CopyMerged, DoMerge, DoRespond, CheckCluster, DoVote, postVars
    <3> QED
      BY <1>1, <3>1, <3>2 DEF Next, Writes
  <2>2. b = a
    <3>1. req' = [req EXCEPT ![b] = None]
      BY <2>1 DEF DoPrivacy, Answer
    <3>2. b # a => req'[a] = req[a]
      BY <2>t, <3>1 DEF TypeOK
    <3> QED
      BY <3>2
  <2>3. q \in Cluster(req[a].post)
    BY <2>1, <2>2 DEF DoPrivacy
  <2> QED
    BY <1>1, <2>3 DEF AloneInv, ReadsAreCurrent
<1>2. ASSUME AloneInv, UNCHANGED vars PROVE Own
  BY <1>2 DEF vars
<1>3. AloneInv /\ [Next]_vars => AloneInv'
  BY StepPosts, StepSubmitted, StepReads DEF AloneInv
<1>4. AloneInv /\ [Next]_vars => [Own]_vars
  BY <1>1
<1> QED
  BY <1>3, <1>4, InitAlone, PTL DEF Spec, MembersPublishOwn

\* No duplicate of a duplicate.
NoChains == \A p \in Posts : original[p] # None => original[original[p]] = None

LEMMA StepShares ==
  ASSUME AloneInv, NoChains, ClusterSharesPrivacy, [Next]_vars
  PROVE  ClusterSharesPrivacy'
<1>t. TypeOK
  BY DEF AloneInv, PostsInv
<1>1. ASSUME UNCHANGED <<private, original>> PROVE ClusterSharesPrivacy'
  BY <1>1 DEF ClusterSharesPrivacy
<1>2. ASSUME NEW u \in Users, NEW p \in Posts, NEW isPrivate, Create(u, p, isPrivate) PROVE ClusterSharesPrivacy'
  <2>1. /\ original' = original /\ author[p] = None
        /\ \A q \in Posts \ {p} : private'[q] = private[q]
    BY <1>t, <1>2 DEF Create, TypeOK
  <2> QED
    BY <1>t, <2>1 DEF AloneInv, DuplicatesAreSubmitted, ClusterSharesPrivacy, TypeOK
<1>3. ASSUME NEW a \in Requests, DoMerge(a) PROVE ClusterSharesPrivacy'
  <2>1. /\ req[a].post \in Posts /\ private[req[a].post] = private[req[a].orig]
        /\ original' = [original EXCEPT ![req[a].post] = req[a].orig] /\ private' = private
    BY <1>t, <1>3, RequestTypes DEF DoMerge, AloneInv, ReadsAreCurrent
  <2> QED
    BY <1>t, <2>1 DEF ClusterSharesPrivacy, TypeOK
<1>4. ASSUME NEW a \in Requests, DoRespond(a) PROVE ClusterSharesPrivacy'
  <2>1. req[a].post \in Posts
    BY <1>t, <1>4, RequestTypes DEF DoRespond
  <2> QED
    BY <1>t, <1>4, <2>1 DEF DoRespond, ClusterSharesPrivacy, TypeOK
<1>5. ASSUME NEW a \in Requests, DoPrivacy(a) PROVE ClusterSharesPrivacy'
  <2>1. /\ original' = original
        /\ \A q \in Posts : private'[q] = IF q \in Cluster(req[a].post) THEN req[a].private ELSE private[q]
    BY <1>5 DEF DoPrivacy
  <2>2. req[a].post \in Posts
    BY <1>t, <1>5, RequestTypes DEF DoPrivacy
  <2>3. ASSUME NEW p \in Posts, original[p] # None
        PROVE  p \in Cluster(req[a].post) <=> original[p] \in Cluster(req[a].post)
    BY <1>t, <2>2, <2>3 DEF Cluster, NoChains, TypeOK
  <2> QED
    BY <1>t, <2>1, <2>3 DEF ClusterSharesPrivacy, TypeOK
<1>6. ASSUME NEW a \in Requests, Reads(a) \/ ReadMerged(a) \/ CopyMerged(a) \/ CheckCluster(a) \/ DoVote(a)
      PROVE  UNCHANGED <<private, original>>
  BY <1>6 DEF Reads, AskMerge, AskRespond, AskPrivacy, AskVote, Ask, ReadMerged, CopyMerged, CheckCluster, DoVote, postVars
<1> QED
  BY <1>1, <1>2, <1>3, <1>4, <1>5, <1>6 DEF Next, Writes, vars

\* Nothing but chains of merges (run posts_chain) makes what was merged differ
\* in privacy, as long as requests do not overlap.
THEOREM UnchainedSharePrivacy == Alone => (Spec /\ []NoChains => []ClusterSharesPrivacy)
<1> SUFFICES ASSUME Alone PROVE Spec /\ []NoChains => []ClusterSharesPrivacy
  OBVIOUS
<1>1. AloneInv /\ [Next]_vars => AloneInv'
  BY StepPosts, StepSubmitted, StepReads DEF AloneInv
<1>2. Init => ClusterSharesPrivacy
  BY DEF Init, ClusterSharesPrivacy
<1> QED
  BY <1>1, <1>2, InitAlone, StepShares, PTL DEF Spec
===============================================================================
