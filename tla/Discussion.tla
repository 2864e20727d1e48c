----------------------------- MODULE Discussion -----------------------------
(***************************************************************************)
(* One idea, the comments under it, their moderation, and the tasks that   *)
(* tell people about them (comment.go, moderation.go, notification.go and  *)
(* tasks/ of the tenant's store).  A task works from the post its request  *)
(* read, in a transaction of its own: notifications and the log of         *)
(* mentions appear when it commits, mails have left before.  Settings and  *)
(* suppressed addresses let anybody be told or not.                        *)
(***************************************************************************)
EXTENDS Integers, FiniteSets

CONSTANTS
  Talkers, Team,  \* who takes part, and the collaborators among them
  Author,         \* who writes the idea
  Subscribing,    \* those who change their subscription
  Comments, Idea, \* what can be told about
  Wanting,        \* those whose settings let them be told, each time
  MaxNaming,      \* bound: how often a text names somebody
  Tasks,          \* places for tasks that are queued or at work
  NoComment, NoTask

Subjects == Comments \cup {Idea}
Kinds == {"new", "edit", "status", "deleted"}

\* How often a text names each talker; ParseMentions keeps every naming.
Mentions == [Talkers -> 0..MaxNaming]
Unnamed == [p \in Talkers |-> 0]

IdeaStates == [private : BOOLEAN, approved : BOOLEAN, at : {"none", "open", "deleted"}]
CommentRows == [by : Talkers, internal : BOOLEAN, approved : BOOLEAN, deleted : BOOLEAN]
TaskRows == [at : {"queued", "mails"}, kind : Kinds, about : Subjects, by : Talkers, mentions : Mentions,
             private : BOOLEAN, known : SUBSET Talkers, named : SUBSET Talkers]

ASSUME DiscussionAssumption ==
  /\ Team \subseteq Talkers /\ Author \in Talkers /\ Subscribing \subseteq Talkers
  /\ Wanting \subseteq SUBSET Talkers /\ Idea \notin Comments /\ NoComment \notin CommentRows
  /\ MaxNaming \in Nat \ {0}

VARIABLES
  idea,           \* the idea
  said,           \* the comments
  following,      \* each talker's subscription: "none", "active" or "inactive"
  trusted,        \* members whose writing needs no review
  moderation,     \* whether the tenant reviews what members write
  logged,         \* mention_notifications: <<what, who>>
  told,           \* how often each was notified of a mention, up to once too often
  tasks,
  namings,        \* history: how often a text that told him named each, at most
  astray,         \* the kinds of tasks that told somebody of what he may not see
  outrun,         \* the tasks under way when the idea was made private
  overlapped      \* what two tasks were telling about at the same time

writingVars == <<idea, said, following, trusted, moderation>>
tellingVars == <<logged, told, namings, astray, overlapped>>
discussionVars == <<writingVars, tellingVars, outrun, tasks>>

Missing == [private |-> FALSE, approved |-> FALSE, at |-> "none"]

DiscussionTypeOK ==
  /\ idea \in IdeaStates
  /\ said \in [Comments -> CommentRows \cup {NoComment}]
  /\ following \in [Talkers -> {"none", "active", "inactive"}]
  /\ trusted \subseteq Talkers /\ moderation \in BOOLEAN
  /\ logged \subseteq Subjects \X Talkers
  /\ told \in [Subjects -> [Talkers -> 0..MaxNaming + 1]]
  /\ namings \in [Subjects -> Mentions]
  /\ tasks \in [Tasks -> TaskRows \cup {NoTask}]
  /\ astray \subseteq Kinds /\ outrun \subseteq Tasks
  /\ overlapped \subseteq Subjects

DiscussionInit(moderated) ==
  /\ idea = Missing /\ said = [c \in Comments |-> NoComment]
  /\ following = [p \in Talkers |-> "none"]
  /\ trusted = {} /\ moderation = moderated
  /\ logged = {} /\ told = [s \in Subjects |-> Unnamed] /\ namings = told
  /\ tasks = [j \in Tasks |-> NoTask] /\ astray = {} /\ outrun = {} /\ overlapped = {}

-----------------------------------------------------------------------------
\* who may see what

\* privacyClause
Private(p) == idea.private /\ p \notin Team \cup {Author}

\* buildSinglePostQuery
CanOpen(p) ==
  /\ idea.at = "open" /\ ~Private(p)
  /\ p \in Team \/ p = Author \/ idea.approved

\* buildApprovalFilter, as getCommentByID uses it
CanGetComment(p, c) ==
  /\ CanOpen(p) /\ said[c] # NoComment
  /\ ~said[c].deleted /\ (p \in Team \/ p = said[c].by \/ said[c].approved)

\* the same with internalFilter, as getCommentsByPost uses it
CanReadComment(p, c) == CanGetComment(p, c) /\ (said[c].internal => p \in Team)

RequiresModeration(p) == p \notin Team \cup trusted
ApprovedAtOnce(p) == ~(moderation /\ RequiresModeration(p))

-----------------------------------------------------------------------------
\* what is written

Internal(s) == s \in Comments /\ said[s] # NoComment /\ said[s].internal

\* Context.Enqueue: the task keeps the post as its request read it.
EnqueueTask(kind, s, p, mentions, private) ==
  \E j \in Tasks :
    /\ tasks[j] = NoTask
    /\ tasks' = [tasks EXCEPT ![j] = [at |-> "queued", kind |-> kind, about |-> s, by |-> p, mentions |-> mentions,
                                      private |-> private, known |-> {}, named |-> {}]]

CreatePost(private, mentions) ==
  LET approved == ApprovedAtOnce(Author)
  IN /\ idea = Missing
     /\ idea' = [private |-> private, approved |-> approved, at |-> "open"]
     /\ following' = [following EXCEPT ![Author] = IF @ = "none" THEN "active" ELSE @]
     /\ EnqueueTask("new", Idea, Author, mentions, private)
     /\ UNCHANGED <<said, trusted, moderation, tellingVars, outrun>>

UpdatePost(p, mentions) ==
  /\ CanOpen(p) /\ p \in Team \cup {Author}
  /\ EnqueueTask("edit", Idea, p, mentions, idea.private)
  /\ UNCHANGED <<writingVars, tellingVars, outrun>>

SetPostPrivacy(p, private) ==
  /\ CanOpen(p) /\ (p \in Team \/ (p = Author /\ idea.private /\ ~private))
  /\ idea' = [idea EXCEPT !.private = private]
  /\ outrun' = IF ~private THEN {} ELSE IF idea.private THEN outrun ELSE {j \in Tasks : tasks[j] # NoTask}
  /\ UNCHANGED <<said, following, trusted, moderation, tellingVars, tasks>>

SetResponse(p) ==
  /\ p \in Team /\ CanOpen(p)
  /\ EnqueueTask("status", Idea, p, Unnamed, idea.private)
  /\ UNCHANGED <<writingVars, tellingVars, outrun>>

\* Its text decides whether subscribers hear of it.
DeletePost(p, hasText) ==
  /\ p \in Team /\ CanOpen(p)
  /\ idea' = [idea EXCEPT !.at = "deleted"]
  /\ IF hasText THEN EnqueueTask("deleted", Idea, p, Unnamed, idea.private) ELSE UNCHANGED tasks
  /\ UNCHANGED <<said, following, trusted, moderation, tellingVars, outrun>>

PostComment(p, c, internal, mentions) ==
  /\ CanOpen(p) /\ said[c] = NoComment /\ (internal => p \in Team)
  /\ said' = [said EXCEPT ![c] = [by |-> p, internal |-> internal, approved |-> ApprovedAtOnce(p), deleted |-> FALSE]]
  /\ IF internal THEN UNCHANGED tasks ELSE EnqueueTask("new", c, p, mentions, idea.private)
  /\ UNCHANGED <<idea, following, trusted, moderation, tellingVars, outrun>>

MayEditComment(p, c) == CanGetComment(p, c) /\ p \in Team \cup {said[c].by}

\* Its task is queued for internal comments too, whatever PostComment says of them.
UpdateComment(p, c, mentions) ==
  /\ MayEditComment(p, c)
  /\ EnqueueTask("edit", c, p, mentions, idea.private)
  /\ UNCHANGED <<writingVars, tellingVars, outrun>>

DeleteComment(p, c) ==
  /\ MayEditComment(p, c)
  /\ said' = [said EXCEPT ![c].deleted = TRUE]
  /\ UNCHANGED <<idea, following, trusted, moderation, tellingVars, outrun, tasks>>

Subscribe(p, status) ==
  /\ CanOpen(p)
  /\ following' = [following EXCEPT ![p] = status]
  /\ UNCHANGED <<idea, said, trusted, moderation, tellingVars, outrun, tasks>>

-----------------------------------------------------------------------------
\* moderation, by administrators

Trust(p, verify) == trusted' = IF verify THEN trusted \cup {p} ELSE trusted

ApprovePost(verify) ==
  /\ idea.at = "open" /\ idea' = [idea EXCEPT !.approved = TRUE] /\ Trust(Author, verify)
  /\ UNCHANGED <<said, following, moderation, tellingVars, outrun, tasks>>

ApproveComment(c, verify) ==
  /\ said[c] # NoComment /\ (verify => ~said[c].deleted)
  /\ said' = [said EXCEPT ![c].approved = TRUE] /\ Trust(said[c].by, verify)
  /\ UNCHANGED <<idea, following, moderation, tellingVars, outrun, tasks>>

DeclinePost ==
  /\ idea.at = "open" /\ idea' = [idea EXCEPT !.at = "deleted"]
  /\ UNCHANGED <<said, following, trusted, moderation, tellingVars, outrun, tasks>>

DeclineComment(c) ==
  /\ said[c] # NoComment /\ said' = [said EXCEPT ![c].deleted = TRUE]
  /\ UNCHANGED <<idea, following, trusted, moderation, tellingVars, outrun, tasks>>

SetModeration ==
  /\ moderation' = ~moderation
  /\ UNCHANGED <<idea, said, following, trusted, tellingVars, outrun, tasks>>

-----------------------------------------------------------------------------
\* the tasks

UnfilteredAudience(j, people) == people

\* privateAudience, with the flag its request read
Audience(j, people) == IF tasks[j].private THEN people \cap (Team \cup {Author}) ELSE people

\* getActiveSubscribers, where the event asks for a subscription: the team need
\* not subscribe, but may have unsubscribed.
Following(wanting) ==
  {p \in wanting : following[p] = "active" \/ (p \in Team /\ following[p] = "none")}

\* Whom each task tells, of those whom their settings let be told.
ToldOfNewPost(t, wanting) == wanting \ {t.by}
ToldOfNewComment(t, wanting) == Following(wanting) \ {t.by}
ToldOfStatusChange(t, wanting) == Following(wanting) \ {t.by}
ToldOfDeletion(t, wanting) == Following(wanting) \ {t.by}

Subscribers(j, wanting) ==
  LET t == tasks[j]
  IN CASE t.kind = "new" /\ t.about = Idea -> ToldOfNewPost(t, wanting)
       [] t.kind = "new" /\ t.about # Idea -> ToldOfNewComment(t, wanting)
       [] t.kind = "status" -> ToldOfStatusChange(t, wanting)
       [] t.kind = "deleted" -> ToldOfDeletion(t, wanting)
       [] t.kind = "edit" -> {}

\* Those a text names who are not in the log as it was read.
NamedIn(t) == {p \in Talkers : t.mentions[p] > 0}
Mentioned(j, wanting, known) == (NamedIn(tasks[j]) \cap wanting) \ known

KnownFor(s) == {p \in Talkers : <<s, p>> \in logged}

\* History: what reached somebody who cannot see it, the idea being private by
\* now, or who is not of the team, the comment being internal.  A task that was
\* under way when the idea was made private tells whom it would have told, and
\* an edit tells those it names of an internal comment.
Stray(j, people) ==
  LET t == tasks[j]
      hidden == j \notin outrun /\ \E p \in people : Private(p)
      leaked == Internal(t.about) /\ ~(people \subseteq IF t.kind = "edit" THEN Team \cup NamedIn(t) ELSE Team)
  IN IF hidden \/ leaked THEN astray \cup {t.kind} ELSE astray

\* The notifications, for subscribers and for those mentioned.
TellOnSite(j, wanting) ==
  LET t == tasks[j]
      known == KnownFor(t.about)
      mentioned == Audience(j, Mentioned(j, wanting, known))
  IN /\ t # NoTask /\ t.at = "queued"
     /\ tasks' = [tasks EXCEPT ![j] = [t EXCEPT !.at = "mails", !.known = known, !.named = mentioned]]
     /\ astray' = Stray(j, mentioned \cup Audience(j, Subscribers(j, wanting)))
     /\ overlapped' = overlapped \cup
          {s \in {t.about} : \E k \in Tasks \ {j} : tasks[k] # NoTask /\ tasks[k].about = s /\ tasks[k].at = "mails"}
     /\ UNCHANGED <<writingVars, logged, told, namings, outrun>>

\* A notification for each naming, but none of one's own text.
Notified(t, p) == IF p \in t.named \ {t.by} THEN t.mentions[p] ELSE 0

\* What a task adds to the log: after an edit, those mailed only when nobody
\* was notified on the site.
AddedByNew(t, mailed) == {t.about} \X (t.named \cup mailed)
AddedByEditMailsOnly(t, mailed) == {t.about} \X (IF t.named = {} THEN mailed ELSE {})
AddedByEdit(t, mailed) == {t.about} \X (IF t.named = {} THEN mailed ELSE t.named)
Additions(t, mailed) == IF t.kind = "edit" THEN AddedByEdit(t, mailed) ELSE AddedByNew(t, mailed)

\* The mails, one for each naming too, the webhooks, and the commit.
MailAndCommit(j, wanting) ==
  LET t == tasks[j]
      mailed == Audience(j, Mentioned(j, wanting, t.known))
  IN /\ t # NoTask /\ t.at = "mails"
     /\ logged' = logged \cup Additions(t, mailed)
     /\ told' = [told EXCEPT ![t.about] =
                   [p \in Talkers |-> IF @[p] + Notified(t, p) > MaxNaming THEN MaxNaming + 1 ELSE @[p] + Notified(t, p)]]
     /\ namings' = [namings EXCEPT ![t.about] =
                      [p \in Talkers |-> IF @[p] < Notified(t, p) THEN Notified(t, p) ELSE @[p]]]
     /\ astray' = Stray(j, mailed \cup Audience(j, Subscribers(j, wanting)))
     /\ tasks' = [tasks EXCEPT ![j] = NoTask] /\ outrun' = outrun \ {j}
     /\ UNCHANGED <<writingVars, overlapped>>

\* A statement or a webhook fails: mails that left stay, the rest is undone.
TaskFails(j, wanting) ==
  /\ tasks[j] # NoTask /\ tasks[j].at = "mails"
  /\ astray' = Stray(j, Audience(j, Mentioned(j, wanting, tasks[j].known) \cup Subscribers(j, wanting)))
  /\ tasks' = [tasks EXCEPT ![j] = NoTask] /\ outrun' = outrun \ {j}
  /\ UNCHANGED <<writingVars, logged, told, namings, overlapped>>

-----------------------------------------------------------------------------
TaskStep(wishes) == \E j \in Tasks, wanting \in wishes :
  TellOnSite(j, wanting) \/ MailAndCommit(j, wanting) \/ TaskFails(j, wanting)

\* What is written, each with whom it mentions.
WritingStep(mentions) ==
  \/ \E private \in BOOLEAN : CreatePost(private, mentions)
  \/ \E p \in Talkers : UpdatePost(p, mentions)
  \/ \E p \in Talkers, c \in Comments :
       (\E internal \in BOOLEAN : PostComment(p, c, internal, mentions)) \/ UpdateComment(p, c, mentions)

PrivacyStep == \E p \in Talkers, private \in BOOLEAN : SetPostPrivacy(p, private)

StaffStep ==
  \/ \E p \in Talkers : SetResponse(p) \/ \E hasText \in BOOLEAN : DeletePost(p, hasText)
  \/ \E p \in Talkers, c \in Comments : DeleteComment(p, c)

ModerationStep ==
  \/ \E verify \in BOOLEAN : ApprovePost(verify) \/ \E c \in Comments : ApproveComment(c, verify)
  \/ DeclinePost \/ SetModeration \/ \E c \in Comments : DeclineComment(c)
  \/ \E p \in Subscribing : Subscribe(p, "active") \/ Subscribe(p, "inactive")

DiscussionNext ==
  \/ TaskStep(Wanting) \/ PrivacyStep \/ StaffStep \/ ModerationStep
  \/ \E mentions \in Mentions : WritingStep(mentions)

DiscussionSpec == (\E moderated \in BOOLEAN : DiscussionInit(moderated)) /\ [][DiscussionNext]_discussionVars

-----------------------------------------------------------------------------
\* Properties.

\* Nobody is notified of being mentioned in an idea or a comment more often
\* than one text of it names him, however often it is edited and whichever of
\* its tasks fail, unless two of its tasks were at work together: the log is
\* read by one before the other's entries are committed
\* (NotifyAboutNewComment, NotifyAboutUpdatedComment).
MentionedOnce ==
  \A s \in Subjects, p \in Talkers : told[s][p] > namings[s][p] => s \in overlapped

\* Nobody is notified or mailed of an idea that he cannot see by then, it being
\* private, or of an internal comment, he not being of the team ("A private
\* idea must never notify anyone who cannot see it", tasks/tasks.go; "Internal
\* comments never notify", apiv1/post.go): what is asked for once the idea is
\* private, by whomever and whatever is queued, stays with those who can see
\* it.  What gets past these words of the code are the tasks that were under
\* way when it was made private, and those an edit of an internal comment names.
ToldWhatTheyMaySee == astray = {}
=============================================================================
