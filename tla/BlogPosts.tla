------------------------------ MODULE BlogPosts ------------------------------
(***************************************************************************)
(* The blog.  A post is read, its new fields are worked out and then       *)
(* written by id.  A date is a number, 0 none.                             *)
(*                                                                         *)
(* Left out: the text, tags, category, author, cover and slug of a post; a *)
(* slug that another post has makes the database refuse the write.         *)
(***************************************************************************)
EXTENDS Integers

CONSTANTS
  Post,
  Editor,  \* requests to the administration of the blog
  MaxDate  \* bound: days

ASSUME BlogAssumption == MaxDate \in Nat \ {0}

VARIABLES
  post,     \* blog_posts
  editing,  \* locals of each request
  today

blogVars == <<post, editing, today>>

-----------------------------------------------------------------------------
BlogStatus == {"draft", "published", "archived"}
Date == 1..MaxDate
NoPost == [status |-> "none"]
PostRow == [status : BlogStatus, publishedAt : 0..MaxDate]
\* The status and the date a body carries, or none.
Body == [status : BlogStatus \cup {"none"}, publishedAt : 0..MaxDate]
NoEdit == [pc |-> "idle"]
Editing == [pc : {"create", "update", "archive"}, post : Post, body : Body,
            read : PostRow \cup {NoPost}]

BlogTypeOK ==
  /\ post \in [Post -> PostRow \cup {NoPost}]
  /\ editing \in [Editor -> Editing \cup {NoEdit}]
  /\ today \in Date

BlogInit ==
  /\ post = [p \in Post |-> NoPost]
  /\ editing = [r \in Editor |-> NoEdit]
  /\ today = 1

EditorAt(r, pc) == editing[r].pc = pc
StartEditing(r, pc, p, b) ==
  /\ EditorAt(r, "idle")
  /\ editing' = [editing EXCEPT ![r] = [pc |-> pc, post |-> p, body |-> b, read |-> post[p]]]
  /\ UNCHANGED <<post, today>>
StopEditing(r) == editing' = [editing EXCEPT ![r] = NoEdit]
WritePost(p, status, date) ==
  post' = [post EXCEPT ![p] = [status |-> status, publishedAt |-> date]]

\* resolvePublishedAt: the date sent, else today for a post published for the
\* first time, else the date it has.
ResolvePublishedAt(status, sent, current) ==
  IF sent # 0 THEN sent
  ELSE IF status = "published" /\ current = 0 THEN today ELSE current

\* Mutant: only a draft is dated when it is published.
DatedFromDraft(p, status, b, read) ==
  IF b.publishedAt # 0 THEN b.publishedAt
  ELSE IF status = "published" /\ read.status = "draft" THEN today ELSE read.publishedAt

\* The date update writes, worked out from what it read; none if neither the
\* status nor the date is sent.
NewPublishedAt(p, status, b, read) ==
  IF b.status = "none" /\ b.publishedAt = 0 THEN post[p].publishedAt
  ELSE ResolvePublishedAt(status, b.publishedAt, read.publishedAt)

-----------------------------------------------------------------------------
BeginCreatePost(r, p, b) ==
  /\ post[p] = NoPost
  /\ \A q \in Editor : EditorAt(q, "create") => editing[q].post # p
  /\ StartEditing(r, "create", p, b)

CreatePost(r) ==
  LET b == editing[r].body
      status == IF b.status = "none" THEN "draft" ELSE b.status IN
  /\ EditorAt(r, "create")
  /\ WritePost(editing[r].post, status, ResolvePublishedAt(status, b.publishedAt, 0))
  /\ StopEditing(r)
  /\ UNCHANGED today

BeginUpdatePost(r, p, b) == post[p] # NoPost /\ StartEditing(r, "update", p, b)

UpdatePost(r) ==
  LET l == editing[r]  b == l.body  p == l.post IN
  /\ EditorAt(r, "update")
  /\ IF b.status = "none"
     THEN WritePost(p, post[p].status, NewPublishedAt(p, l.read.status, b, l.read))
     ELSE WritePost(p, b.status, NewPublishedAt(p, b.status, b, l.read))
  /\ StopEditing(r)
  /\ UNCHANGED today

\* archive writes the status alone: its date stays.
BeginArchivePost(r, p) ==
  post[p] # NoPost /\ StartEditing(r, "archive", p, [status |-> "archived", publishedAt |-> 0])

ArchivePost(r) ==
  LET p == editing[r].post IN
  /\ EditorAt(r, "archive")
  /\ WritePost(p, "archived", post[p].publishedAt)
  /\ StopEditing(r)
  /\ UNCHANGED today

\* A slug that is taken, or a failure: nothing is written.
RefusePost(r) ==
  /\ ~EditorAt(r, "idle")
  /\ StopEditing(r)
  /\ UNCHANGED <<post, today>>

NextDay ==
  /\ today < MaxDate
  /\ today' = today + 1
  /\ UNCHANGED <<post, editing>>

BlogNext ==
  \/ \E r \in Editor, p \in Post :
        \/ \E b \in Body : BeginCreatePost(r, p, b) \/ BeginUpdatePost(r, p, b)
        \/ BeginArchivePost(r, p)
  \/ \E r \in Editor : CreatePost(r) \/ UpdatePost(r) \/ ArchivePost(r) \/ RefusePost(r)
  \/ NextDay

-----------------------------------------------------------------------------
\* The public list of findAllPublic.
Public == {p \in Post : post[p].status = "published"}

\* A post the public sees has the date the public list is ordered by, although
\* update writes a date it worked out from a row that another editor may have
\* published, withdrawn or dated since.
PublicIsDated == \A p \in Public : post[p].publishedAt # 0
=============================================================================
