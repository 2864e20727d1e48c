----------------------------- MODULE Catalogue -----------------------------
(***************************************************************************)
(* What a tenant files its ideas under: statuses, products and tags        *)
(* (services/sqlstore/postgres/status.go, product.go, tag.go and their     *)
(* handlers).                                                              *)
(*                                                                         *)
(* An idea holds its status by slug, which no foreign key guards: deleting *)
(* a status counts the ideas that have it and deletes it in a statement of *)
(* its own, and a response looks the status up and writes it later.  A     *)
(* product and a tag are held by id, and guarded.                          *)
(***************************************************************************)
EXTENDS Naturals, FiniteSets, Functions

CONSTANTS
  Askers,     \* requests in flight
  Ideas,
  Slugs,      \* bound: the statuses there may be; each custom one is created once
  Products,   \* bound: the products there may be; each one is created once
  Tags,       \* bound: the tags there may be; each one is created once
  TagNames,   \* bound: the names a tag may have
  Twins,      \* those of them that make the same slug
  General,    \* product_id NULL
  NoAsk, NoIdea

\* builtInStatusSeeds
BuiltIn == {"open", "planned", "started", "completed", "declined", "duplicate"}

IdeaRows == [status : Slugs \cup {"deleted"}, product : Products \cup {General}]

ASSUME CatalogueAssumption ==
  /\ "open" \in Slugs /\ "deleted" \notin Slugs
  /\ Twins \subseteq TagNames /\ General \notin Products
  /\ IsFiniteSet(Ideas) /\ NoIdea \notin IdeaRows

VARIABLES
  statuses,   \* statuses[s]: "none", "active", "inactive" or "gone"
  products,   \* products[x], likewise
  tags,       \* tags[t]: "none", the name of the tag t, or "gone"
  tagged,     \* <<i, t>>: t is on the idea i (post_tags)
  filed,      \* filed[i]: status_slug and product_id of the idea i
  asked,      \* asked[r]: what the request r has read, and is about to do
  overtaken   \* history: statuses deleted while an idea was about to get them

catalogueVars == <<statuses, products, tags, tagged, filed, asked, overtaken>>

Existing == {t \in Tags : tags[t] \in TagNames}
NewTags == {t \in Tags : tags[t] = "none"}

Rows == {"none", "active", "inactive", "gone"}

CatalogueTypeOK ==
  /\ statuses \in [Slugs -> Rows] /\ products \in [Products -> Rows]
  /\ tags \in [Tags -> TagNames \cup {"none", "gone"}]
  /\ tagged \subseteq Ideas \X Existing
  /\ filed \in [Ideas -> IdeaRows \cup {NoIdea}]
  /\ \A i \in Ideas : filed[i] # NoIdea /\ filed[i].product # General
                        => products[filed[i].product] \in {"active", "inactive"}
  /\ \A r \in Askers : asked[r] # NoAsk =>
       asked[r].what \in {"delete status", "respond", "post", "file", "tag", "delete tag", "name", "import"}

\* seedTenantStatuses, of the slugs in use
CatalogueInit ==
  /\ statuses = [s \in Slugs |-> IF s \in BuiltIn THEN "active" ELSE "none"]
  /\ products = [x \in Products |-> "none"]
  /\ tags = [t \in Tags |-> "none"] /\ tagged = {} /\ overtaken = {}
  /\ filed = [i \in Ideas |-> NoIdea]
  /\ asked = [r \in Askers |-> NoAsk]

Ask(r, what, on, to) ==
  /\ asked[r] = NoAsk
  /\ asked' = [asked EXCEPT ![r] = [what |-> what, on |-> on, to |-> to]]

\* The request r does what it is about to, or fails and leaves all as it was.
Carry(r, what) ==
  /\ asked[r] # NoAsk /\ asked[r].what = what
  /\ asked' = [asked EXCEPT ![r] = NoAsk]

Asking(what) == {r \in Askers : asked[r] # NoAsk /\ asked[r].what = what}

GiveUpAsking(r) ==
  /\ asked[r] # NoAsk
  /\ asked' = [asked EXCEPT ![r] = NoAsk]
  /\ UNCHANGED <<statuses, products, tags, tagged, filed, overtaken>>

Live(i) == filed[i] # NoIdea /\ filed[i].status # "deleted"

-----------------------------------------------------------------------------
(* statuses                                                                *)

ListActiveStatuses == {s \in Slugs : statuses[s] = "active"}
GetStatus(s) == statuses[s] \in {"active", "inactive"}

ActiveRow(active) == IF active THEN "active" ELSE "inactive"
SetStatus(s, row) == statuses' = [statuses EXCEPT ![s] = row]

\* CreateStatus.Validate; the slug is also unique: the second of two that
\* create it fails.
NewStatus(s) == statuses[s] = "none"

CreateStatus(s) ==
  /\ NewStatus(s)
  /\ SetStatus(s, "active")
  /\ UNCHANGED <<products, tags, tagged, filed, asked, overtaken>>

\* Also of a built-in one; what has the status keeps it.
UpdateStatus(s, active) ==
  /\ GetStatus(s)
  /\ SetStatus(s, ActiveRow(active))
  /\ UNCHANGED <<products, tags, tagged, filed, asked, overtaken>>

CountPosts(s) == Cardinality({i \in Ideas : filed[i] # NoIdea /\ filed[i].status = s})

AskToDeleteUncounted(r, s) ==
  /\ GetStatus(s)
  /\ Ask(r, "delete status", s, s)
  /\ UNCHANGED <<statuses, products, tags, tagged, filed, overtaken>>

AskToDeleteStatus(r, s) ==
  /\ GetStatus(s)
  /\ CountPosts(s) = 0
  /\ Ask(r, "delete status", s, s)
  /\ UNCHANGED <<statuses, products, tags, tagged, filed, overtaken>>

DeleteStatus(r) ==
  LET s == asked[r].on IN
  /\ Carry(r, "delete status")
  /\ GetStatus(s) /\ s \notin BuiltIn
  /\ SetStatus(s, "gone")
  /\ overtaken' = IF \E q \in Asking("respond") : asked[q].to = s THEN overtaken \cup {s} ELSE overtaken
  /\ UNCHANGED <<products, tags, tagged, filed>>

\* SetResponse.Validate
AskToRespond(r, i, s) ==
  /\ Live(i) /\ s \in ListActiveStatuses
  /\ Ask(r, "respond", i, s)
  /\ UNCHANGED <<statuses, products, tags, tagged, filed, overtaken>>

\* setPostResponse, whatever has become of the idea and of the status.
Respond(r) ==
  LET s == asked[r].to IN
  /\ Carry(r, "respond")
  /\ filed' = [filed EXCEPT ![asked[r].on].status = s]
  /\ overtaken' = IF \E q \in Asking("delete status") : asked[q].on = s THEN overtaken \cup {s} ELSE overtaken
  /\ UNCHANGED <<statuses, products, tags, tagged>>

DeleteIdea(i) ==
  /\ Live(i)
  /\ filed' = [filed EXCEPT ![i].status = "deleted"]
  /\ UNCHANGED <<statuses, products, tags, tagged, asked, overtaken>>

-----------------------------------------------------------------------------
(* products                                                                *)

ListActiveProducts == {x \in Products : products[x] = "active"}
Stocked == {x \in Products : products[x] \in {"active", "inactive"}} \cup {General}

SetProduct(x, row) == products' = [products EXCEPT ![x] = row]
NewProduct(x) == products[x] = "none"

CreateProduct(x) ==
  /\ NewProduct(x)
  /\ SetProduct(x, "active")
  /\ UNCHANGED <<statuses, tags, tagged, filed, asked, overtaken>>

UpdateProduct(x, active) ==
  /\ products[x] \in {"active", "inactive"}
  /\ SetProduct(x, ActiveRow(active))
  /\ UNCHANGED <<statuses, tags, tagged, filed, asked, overtaken>>

\* Its ideas fall back to General (ON DELETE SET NULL).
Unfile(x) ==
  filed' = [i \in Ideas |-> IF filed[i] # NoIdea /\ filed[i].product = x
                              THEN [filed[i] EXCEPT !.product = General] ELSE filed[i]]

DeleteProduct(x) ==
  /\ products[x] \in {"active", "inactive"}
  /\ SetProduct(x, "gone") /\ Unfile(x)
  /\ UNCHANGED <<statuses, tags, tagged, asked, overtaken>>

\* CreateNewPost.Validate, and the handler of SetPostProduct
AskToPost(r, i, x) ==
  /\ filed[i] = NoIdea /\ x \in ListActiveProducts \cup {General}
  /\ Ask(r, "post", i, x)
  /\ UNCHANGED <<statuses, products, tags, tagged, filed, overtaken>>

AskToFile(r, i, x) ==
  /\ Live(i) /\ x \in ListActiveProducts \cup {General}
  /\ Ask(r, "file", i, x)
  /\ UNCHANGED <<statuses, products, tags, tagged, filed, overtaken>>

\* addNewPost: 'open', though that status may be inactive.
Post(r) ==
  /\ Carry(r, "post")
  /\ filed[asked[r].on] = NoIdea /\ asked[r].to \in Stocked
  /\ filed' = [filed EXCEPT ![asked[r].on] = [status |-> "open", product |-> asked[r].to]]
  /\ UNCHANGED <<statuses, products, tags, tagged, overtaken>>

\* setPostProduct: a product that is deleted meanwhile fails it, one that is
\* deactivated does not.
File(r) ==
  /\ Carry(r, "file")
  /\ asked[r].to \in Stocked
  /\ filed' = [filed EXCEPT ![asked[r].on].product = asked[r].to]
  /\ UNCHANGED <<statuses, products, tags, tagged, overtaken>>

-----------------------------------------------------------------------------
(* tags                                                                    *)

\* The slug of a tag is made of its name, and is unique.
SameSlug(n, m) == n = m \/ {n, m} \subseteq Twins
Taken(n, t) == \E u \in Existing \ {t} : SameSlug(n, tags[u])

\* CreateEditTag.Validate, of a tag that is new or there
AskToName(r, t, n) ==
  /\ t \in Existing \cup NewTags /\ ~Taken(n, t)
  /\ Ask(r, "name", t, n)
  /\ UNCHANGED <<statuses, products, tags, tagged, filed, overtaken>>

SetTag(t, name) == tags' = [tags EXCEPT ![t] = name]
IdeasWith(t) == {i \in Ideas : <<i, t>> \in tagged}

\* addNewTag, updateTag: it fails if the slug is taken by now, or the tag gone.
NameTag(r) ==
  /\ Carry(r, "name")
  /\ asked[r].on \in Existing \cup NewTags /\ ~Taken(asked[r].to, asked[r].on)
  /\ SetTag(asked[r].on, asked[r].to)
  /\ UNCHANGED <<statuses, products, tagged, filed, overtaken>>

AskToTag(r, i, t) ==
  /\ Live(i) /\ t \in Existing
  /\ Ask(r, "tag", i, t)
  /\ UNCHANGED <<statuses, products, tags, tagged, filed, overtaken>>

\* assignTag: an insertion fails if the tag is gone.
AssignTag(r) ==
  /\ Carry(r, "tag")
  /\ asked[r].to \in Existing
  /\ tagged' = tagged \cup {<<asked[r].on, asked[r].to>>}
  /\ UNCHANGED <<statuses, products, tags, filed, overtaken>>

UnassignTag(i, t) ==
  /\ <<i, t>> \in tagged /\ Live(i)
  /\ tagged' = tagged \ {<<i, t>>}
  /\ UNCHANGED <<statuses, products, tags, filed, asked, overtaken>>

\* deleteTag: from the ideas that have it, first.
AskToDeleteTag(r, t) ==
  /\ t \in Existing
  /\ Ask(r, "delete tag", IdeasWith(t), t)
  /\ UNCHANGED <<statuses, products, tags, tagged, filed, overtaken>>

\* The tag itself: it fails if it was put on another idea in between.
DeleteTag(r) ==
  LET t == asked[r].to IN
  /\ Carry(r, "delete tag")
  /\ IdeasWith(t) \subseteq asked[r].on
  /\ SetTag(t, "gone")
  /\ tagged' = {p \in tagged : p[2] # t}
  /\ UNCHANGED <<statuses, products, filed, overtaken>>

\* ImportTagsJSON: of the names in the file, those that no tag has by now,
AskToImport(r, names) ==
  /\ Ask(r, "import", names, names \ {tags[t] : t \in Existing})
  /\ UNCHANGED <<statuses, products, tags, tagged, filed, overtaken>>

\* are added; if the slug of one is taken, none of them is.
ImportTags(r) ==
  LET new == asked[r].to IN
  /\ Carry(r, "import")
  /\ \E ids \in SUBSET NewTags :
       IF \E n \in new : \/ \E t \in Existing : SameSlug(n, tags[t])
                         \/ \E m \in new \ {n} : SameSlug(n, m)
         THEN ids = {} /\ UNCHANGED tags
         ELSE \E row \in Bijection(ids, new) : tags' = [t \in Tags |-> IF t \in ids THEN row[t] ELSE tags[t]]
  /\ UNCHANGED <<statuses, products, tagged, filed, overtaken>>

StatusStep ==
  \/ \E s \in Slugs : CreateStatus(s) \/ \E active \in BOOLEAN : UpdateStatus(s, active)
  \/ \E r \in Askers : \/ DeleteStatus(r) \/ Respond(r)
                       \/ \E s \in Slugs : AskToDeleteStatus(r, s) \/ \E i \in Ideas : AskToRespond(r, i, s)
  \/ \E i \in Ideas : DeleteIdea(i)

ProductStep ==
  \/ \E x \in Products : \/ CreateProduct(x) \/ DeleteProduct(x)
                         \/ \E active \in BOOLEAN : UpdateProduct(x, active)
  \/ \E r \in Askers : File(r) \/ \E i \in Ideas, x \in Products \cup {General} : AskToFile(r, i, x)

TagStep ==
  \/ \E r \in Askers : \/ NameTag(r) \/ AssignTag(r) \/ DeleteTag(r) \/ ImportTags(r)
                       \/ \E t \in Tags : \/ \E n \in TagNames : AskToName(r, t, n)
                                            \/ AskToDeleteTag(r, t) \/ \E i \in Ideas : AskToTag(r, i, t)
                       \/ \E names \in (SUBSET TagNames) \ {{}} : AskToImport(r, names)
  \/ \E i \in Ideas, t \in Tags : UnassignTag(i, t)

IdeaStep ==
  \E r \in Askers : \/ Post(r) \/ GiveUpAsking(r)
                    \/ \E i \in Ideas, x \in Products \cup {General} : AskToPost(r, i, x)

CatalogueNext == StatusStep \/ ProductStep \/ TagStep \/ IdeaStep

CatalogueSpec == CatalogueInit /\ [][CatalogueNext]_catalogueVars

-----------------------------------------------------------------------------
\* No administrator takes a status from under the ideas that have it, but for
\* what nothing in the database prevents: a response to it that was validated
\* before the deletion, or committed after its count, is written all the same.
IdeasKeepTheirStatus ==
  \A i \in Ideas : filed[i] # NoIdea => \/ filed[i].status = "deleted"
                                        \/ GetStatus(filed[i].status)
                                        \/ filed[i].status \in overtaken
=============================================================================
