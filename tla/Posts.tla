-------------------------------- MODULE Posts --------------------------------
(***************************************************************************)
(* Ideas ("posts"), merging one into another as its duplicate, their       *)
(* privacy, staff responses, deletion and votes (handlers/apiv1/post.go,   *)
(* handlers/post_privacy.go, services/sqlstore/postgres/post.go, vote.go). *)
(*                                                                         *)
(* A request first reads the posts it is about, with the permissions of    *)
(* its user, decides on what it read, and then writes: nothing is locked   *)
(* in between, and the database runs at READ COMMITTED, so requests of     *)
(* other users may commit between the two.  Each request is such a pair    *)
(* (triple, for privacy) of actions.                                       *)
(*                                                                         *)
(* What a post says is reduced to the posts it was written in: a merge     *)
(* copies the duplicate's description and comments, among them those that  *)
(* earlier merges had copied there, and nothing ever takes a copy back.    *)
(***************************************************************************)
EXTENDS FiniteSets

CONSTANTS
  Posts,      \* the ideas of one tenant
  Staff,      \* collaborators and administrators
  Members,    \* signed-in visitors
  Voters,     \* the users whose votes are followed: votes of different users never meet
  Requests,   \* requests that may be in flight at the same time
  None        \* no original, no author, no request

ASSUME PostsAssumption ==
  /\ Staff \cap Members = {}
  /\ Voters \subseteq Staff \cup Members
  /\ None \notin Posts \cup Staff \cup Members

Users == Staff \cup Members

VARIABLES
  author,     \* author[p], None before p is submitted
  status,     \* status[p]: its status_slug, the slugs of one kind taken together
  original,   \* original[p]: the post p was merged into (original_id)
  private,    \* private[p] (is_private)
  votes,      \* votes[p]: who voted for p
  texts,      \* texts[p]: the posts whose text is in p, as its own or in the comments merges copied there
  cast,       \* history, cast[p]: who ever voted for p itself
  shown,      \* history: the posts whose text was submitted as public, or made public with a post it is in
  crossed,    \* history: the posts whose text a merge moved after the privacy it had read was gone
  req         \* req[a]: what request a has read and is about to write

vars == <<author, status, original, private, votes, texts, cast, shown, crossed, req>>
postVars == <<author, status, original, private, votes, texts, cast, shown, crossed>>

\* The administrators' own statuses are of the kinds of the built-in ones;
\* "alike" is one of theirs of the kind duplicate.
Responses == {"open", "closed", "alike", "deleted"}
Slugs == Responses \cup {"duplicate"}

Merge == [op : {"bound", "merge", "copied"}, user : Staff, post : Posts, orig : Posts,
          private : BOOLEAN, votable : BOOLEAN, votes : SUBSET Voters, texts : SUBSET Posts]
Respond == [op : {"respond"}, user : Staff, post : Posts, status : Responses]
Privacy == [op : {"check", "privacy"}, user : Users, post : Posts, private : BOOLEAN]
Vote == [op : {"vote", "unvote"}, user : Voters, post : Posts]

TypeOK ==
  /\ author \in [Posts -> Users \cup {None}]
  /\ status \in [Posts -> Slugs]
  /\ original \in [Posts -> Posts \cup {None}]
  /\ \A p \in Posts : original[p] # p
  /\ private \in [Posts -> BOOLEAN]
  /\ votes \in [Posts -> SUBSET Voters]
  /\ texts \in [Posts -> SUBSET Posts]
  /\ cast \in [Posts -> SUBSET Voters]
  /\ shown \subseteq Posts
  /\ crossed \subseteq Posts
  /\ req \in [Requests -> Merge \cup Respond \cup Privacy \cup Vote \cup {None}]

Init ==
  /\ author = [p \in Posts |-> None]
  /\ status = [p \in Posts |-> "open"]
  /\ original = [p \in Posts |-> None]
  /\ private = [p \in Posts |-> FALSE]
  /\ votes = [p \in Posts |-> {}]
  /\ texts = [p \in Posts |-> {}]
  /\ cast = [p \in Posts |-> {}]
  /\ shown = {}
  /\ crossed = {}
  /\ req = [a \in Requests |-> None]

-----------------------------------------------------------------------------
\* GetPostByNumber on behalf of u: deleted posts are gone, private ones are
\* for staff and their author.
Visible(u, p) ==
  /\ author[p] # None
  /\ status[p] # "deleted"
  /\ u \in Staff \/ ~private[p] \/ author[p] = u

CanBeVoted(p) == status[p] \notin {"closed", "duplicate", "alike"}

Ask(a, request) ==
  /\ req[a] = None
  /\ req' = [req EXCEPT ![a] = request]
  /\ UNCHANGED postVars

Answer(a) == req' = [req EXCEPT ![a] = None]

\* CreatePost: the post is inserted and its author votes for it.
Create(u, p, isPrivate) ==
  /\ author[p] = None
  /\ author' = [author EXCEPT ![p] = u]
  /\ private' = [private EXCEPT ![p] = isPrivate]
  /\ votes' = [votes EXCEPT ![p] = {u} \cap Voters]
  /\ cast' = [cast EXCEPT ![p] = {u} \cap Voters]
  /\ texts' = [texts EXCEPT ![p] = {p}]
  /\ shown' = IF isPrivate THEN shown ELSE shown \cup {p}
  /\ UNCHANGED <<status, original, crossed, req>>

-----------------------------------------------------------------------------
(* SetResponse with status "duplicate"                                     *)

\* SetResponse.Validate: a post is not its own duplicate; the original is read.
FaultyAskMerge(a, u, p, o) ==
  /\ u \in Staff
  /\ Visible(u, o)
  /\ Ask(a, [op |-> "bound", user |-> u, post |-> p, orig |-> o,
             private |-> private[o], votable |-> CanBeVoted(o), votes |-> {}, texts |-> {}])

AskMerge(a, u, p, o) ==
  /\ u \in Staff
  /\ p # o
  /\ Visible(u, o)
  /\ Ask(a, [op |-> "bound", user |-> u, post |-> p, orig |-> o,
             private |-> private[o], votable |-> CanBeVoted(o), votes |-> {}, texts |-> {}])

\* markPostAsDuplicate refuses to merge across privacy, and into a member's
\* private idea takes only that member's own.
FaultyMayMerge(r) == private[r.post] = r.private

MayMerge(r) ==
  /\ private[r.post] = r.private
  /\ r.private /\ author[r.orig] \in Members => author[r.post] = author[r.orig]

\* The handler reads the post itself, and the merge is allowed or refused.
ReadMerged(a) ==
  LET r == req[a] IN
  /\ r # None /\ r.op = "bound"
  /\ req' = [req EXCEPT ![a] =
       IF Visible(r.user, r.post) /\ MayMerge(r) THEN [r EXCEPT !.op = "merge"] ELSE None]
  /\ UNCHANGED postVars

\* markPostAsDuplicate reads who voted for the post and copies what it says;
\* what others add from here on is not carried over.
FaultyCopyMerged(a) ==
  LET r == req[a] IN
  /\ r # None /\ r.op = "merge"
  /\ req' = [req EXCEPT ![a] = [r EXCEPT !.op = "copied", !.votes = UNION {votes[p] : p \in Posts},
                                         !.texts = texts[r.post]]]
  /\ UNCHANGED postVars

CopyMerged(a) ==
  LET r == req[a] IN
  /\ r # None /\ r.op = "merge"
  /\ req' = [req EXCEPT ![a] = [r EXCEPT !.op = "copied", !.votes = votes[r.post],
                                         !.texts = texts[r.post]]]
  /\ UNCHANGED postVars

\* It commits: the votes (addVote ignores an original that was closed when it
\* was read), the text, and the mark on the post.
DoMerge(a) ==
  LET r == req[a] IN
  /\ r # None /\ r.op = "copied"
  /\ votes' = [votes EXCEPT ![r.orig] = IF r.votable THEN @ \cup r.votes ELSE @]
  /\ texts' = [texts EXCEPT ![r.orig] = @ \cup r.texts]
  /\ crossed' = IF private[r.post] = r.private /\ private[r.orig] = r.private
       THEN crossed ELSE crossed \cup r.texts
  /\ original' = [original EXCEPT ![r.post] = r.orig]
  /\ status' = [status EXCEPT ![r.post] = "duplicate"]
  /\ Answer(a)
  /\ UNCHANGED <<author, private, cast, shown>>

-----------------------------------------------------------------------------
(* SetResponse with any other slug, DeletePost, declinePost                *)

Referenced(p) == \E q \in Posts : original[q] = p

\* DeletePost.Validate refuses a post that others were merged into; declining
\* it in moderation does not.
AskRespond(a, u, p, s, declined) ==
  /\ u \in Staff
  /\ Visible(u, p)
  /\ s = "deleted" => declined \/ ~Referenced(p)
  /\ Ask(a, [op |-> "respond", user |-> u, post |-> p, status |-> s])

\* setPostResponse: a post that gets a response is nobody's duplicate, not
\* even with a status of the kind duplicate.
FaultyDoRespond(a) ==
  LET r == req[a] IN
  /\ r # None /\ r.op = "respond"
  /\ status' = [status EXCEPT ![r.post] = r.status]
  /\ Answer(a)
  /\ UNCHANGED <<author, original, private, votes, texts, cast, shown, crossed>>

DoRespond(a) ==
  LET r == req[a] IN
  /\ r # None /\ r.op = "respond"
  /\ original' = [original EXCEPT ![r.post] = None]
  /\ status' = [status EXCEPT ![r.post] = r.status]
  /\ Answer(a)
  /\ UNCHANGED <<author, private, votes, texts, cast, shown, crossed>>

-----------------------------------------------------------------------------
(* SetPostPrivacy                                                          *)

\* Staff may do anything; a member may publish their own private idea, once
\* the check below has looked at everything it was merged with.
AskPrivacy(a, u, p, isPrivate) ==
  /\ Visible(u, p)
  /\ u \in Members => author[p] = u /\ private[p] /\ ~isPrivate
  /\ Ask(a, [op |-> IF u \in Staff THEN "privacy" ELSE "check",
             user |-> u, post |-> p, private |-> isPrivate])

\* The root a post was merged into and every duplicate that points at it.
Cluster(p) ==
  LET root == IF original[p] = None THEN p ELSE original[p]
  IN {q \in Posts : q = root \/ original[q] = root}

\* The member's cluster must be all their own; otherwise an error ends it.
CheckCluster(a) ==
  LET r == req[a] IN
  /\ r # None /\ r.op = "check"
  /\ req' = [req EXCEPT ![a] =
       IF \A q \in Cluster(r.post) : author[q] = r.user THEN [r EXCEPT !.op = "privacy"] ELSE None]
  /\ UNCHANGED postVars

\* The UPDATE looks the cluster up again.
DoPrivacy(a) ==
  LET r == req[a]
      flipped == Cluster(r.post) IN
  /\ r # None /\ r.op = "privacy"
  /\ private' = [q \in Posts |-> IF q \in flipped THEN r.private ELSE private[q]]
  /\ shown' = IF r.private THEN shown ELSE shown \cup UNION {texts[q] : q \in flipped}
  /\ Answer(a)
  /\ UNCHANGED <<author, status, original, votes, texts, cast, crossed>>

-----------------------------------------------------------------------------
(* AddVote, RemoveVote, ToggleVote                                         *)

AskVote(a, u, p, op) ==
  /\ u \in Voters
  /\ Visible(u, p)
  /\ CanBeVoted(p)
  /\ Ask(a, [op |-> op, user |-> u, post |-> p])

DoVote(a) ==
  LET r == req[a] IN
  /\ r # None /\ r.op \in {"vote", "unvote"}
  /\ votes' = [votes EXCEPT ![r.post] = IF r.op = "vote" THEN @ \cup {r.user} ELSE @ \ {r.user}]
  /\ cast' = IF r.op = "vote" THEN [cast EXCEPT ![r.post] = @ \cup {r.user}] ELSE cast
  /\ Answer(a)
  /\ UNCHANGED <<author, status, original, private, texts, shown, crossed>>

-----------------------------------------------------------------------------
Reads(a) ==
  \E u \in Users, p \in Posts :
    \/ \E o \in Posts : AskMerge(a, u, p, o)
    \/ \E s \in Responses, declined \in BOOLEAN : AskRespond(a, u, p, s, declined)
    \/ \E isPrivate \in BOOLEAN : AskPrivacy(a, u, p, isPrivate)
    \/ \E op \in {"vote", "unvote"} : AskVote(a, u, p, op)

Writes(a) == ReadMerged(a) \/ CopyMerged(a) \/ DoMerge(a) \/ DoRespond(a) \/ CheckCluster(a) \/ DoPrivacy(a) \/ DoVote(a)

Next ==
  \/ \E u \in Users, p \in Posts, isPrivate \in BOOLEAN : Create(u, p, isPrivate)
  \/ \E a \in Requests : Reads(a) \/ Writes(a)

Spec == Init /\ [][Next]_vars

-----------------------------------------------------------------------------
(* Properties                                                              *)

\* A post carries the slug "duplicate" exactly while it points at its original,
\* whatever merges, responses and deletions raced for it.
DuplicateHasOriginal ==
  \A p \in Posts : status[p] = "duplicate" <=> original[p] # None

\* "Merging another author's idea into it would expose that content to the
\* original's author" (post.go): however merges follow each other, a member's
\* idea holds no text of another author that was never shown to the public.
\* A merge that lost the race with a change of privacy is the exception.
MembersHoldOwnText ==
  \A p \in Posts : author[p] \in Members =>
    \A q \in texts[p] : author[q] = author[p] \/ q \in shown \cup crossed

\* "Votes from this post will be merged into original post" (client.json), and
\* no others: whoever counts for an idea once voted for it or for one whose text
\* is in it, through chains of merges and votes cast and withdrawn meanwhile.
VotesFollowMerges ==
  \A p \in Posts : votes[p] \subseteq UNION {cast[q] : q \in texts[p]}

\* "A post and everything merged into or from it must share one privacy flag"
\* (post.go); "the invariant holds regardless of which post in the cluster is
\* targeted" (post_privacy_test.go).
ClusterSharesPrivacy ==
  \A p \in Posts : original[p] # None => private[p] = private[original[p]]

\* "A member may only flip a cluster made entirely of their own ideas: ... one
\* member must not publish the others' content" (post.go).
MembersPublishOwn ==
  [][\A a \in Requests :
       req[a] # None /\ req[a].op = "privacy" /\ req[a].user \in Members /\ req'[a] = None =>
         \A q \in Posts : private'[q] # private[q] => author[q] = req[a].user]_vars
===============================================================================
