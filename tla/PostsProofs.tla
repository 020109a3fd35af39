----------------------------- MODULE PostsProofs -----------------------------
(***************************************************************************)
(* Proofs about Posts, for every set of devices, accounts and posts and    *)
(* every bound.  What needs the server to accept every write, or one       *)
(* device per account, says so.                                            *)
(***************************************************************************)
EXTENDS Posts, FirestoreProofs

-----------------------------------------------------------------------------
(* What may be stored and in flight.                                       *)

NewIds    == 1..MaxShares
Screens   == 1..MaxScreens
PostViews == {FeedView} \cup {UploadView(k) : k \in Screens}
Contents  == Users \cup {NoDoc}
FeedPosts == [postId : PostIds, ownerUid : Users]

UserLikes(p) == {UserLike(u, p) : u \in Users}

UploadThens == {Uploaded(p, k) : p \in NewIds, k \in Screens}
SharedThens == {Shared(k) : k \in Screens}
LikeThens(p) == {MarkedPost(post) : post \in {q \in FeedPosts : q.postId = p}}
DoneThens(p) == {Liked(post) : post \in {q \in FeedPosts : q.postId = p}}

\* A post is stored, counted or deleted; a like is marked twice and notified;
\* marks and notifications are deleted together.
StoreWrites(p) == [paths : {{PostDoc(p)}}, data : Users, upd : {FALSE}, then : SharedThens]
CountWrites(p) == [paths : {{PostDoc(p)}}, data : Users, upd : {TRUE}, then : {NoThen}]
DropWrites(p)  == [paths : {{PostDoc(p)}}, data : {NoDoc}, upd : {FALSE}, then : {PostDeleted(p)}]
MarkWrites(p, u) == [paths : {{PostLike(p, u)}}, data : {u}, upd : {FALSE}, then : LikeThens(p)]
LikeWrites(p, u) == [paths : {{UserLike(u, p)}}, data : {u}, upd : {FALSE}, then : DoneThens(p)]
NoteWrites(p, u) == [paths : {{NoteDoc(p, u)}}, data : {u}, upd : {FALSE}, then : {NoThen}]
UnlikeWrites(p) == [paths : SUBSET UserLikes(p), data : {NoDoc}, upd : {FALSE}, then : {NoThen}]
UnnoteWrites(p) == [paths : SUBSET Notes(p), data : {NoDoc}, upd : {FALSE}, then : {NoteDeleted}]

Stores  == UNION {StoreWrites(p) : p \in NewIds}
Counts  == UNION {CountWrites(p) : p \in PostIds}
Drops   == UNION {DropWrites(p) : p \in PostIds}
Marks   == UNION {MarkWrites(p, u) : p \in PostIds, u \in Users}
Likes   == UNION {LikeWrites(p, u) : p \in PostIds, u \in Users}
Notices == UNION {NoteWrites(p, u) : p \in PostIds, u \in Users}
Unlikes == UNION {UnlikeWrites(p) : p \in PostIds}
Unnotes == UNION {UnnoteWrites(p) : p \in PostIds}

PostWrites == Stores \cup Counts \cup Drops \cup Marks \cup Likes \cup Notices \cup Unlikes \cup Unnotes

FeedRead     == getDocuments(PostDocs, FetchedPosts)
LikesRead(p) == getDocuments(PostLikes(p), FoundLikes(p))
FeedsRead(p) == getDocuments({}, FoundFeeds(p))
NotesRead(p) == getDocuments(Notes(p), FoundNotes(p))

PostReads == {FeedRead} \cup {LikesRead(p) : p \in PostIds} \cup {FeedsRead(p) : p \in PostIds}
             \cup {NotesRead(p) : p \in PostIds}

UploadBlocks   == [then : UploadThens, res : {TRUE}]
SharedBlocks   == [then : SharedThens, res : BOOLEAN]
FeedBlocks     == [then : {FetchedPosts}, res : [PostDocs -> Contents]]
LikesBlocks(p) == [then : {FoundLikes(p)}, res : [PostLikes(p) -> Contents]]
DropBlocks(p)  == [then : {PostDeleted(p)}, res : BOOLEAN]
FeedsBlocks(p) == [then : {FoundFeeds(p)}, res : [{} -> Contents]]
NotesBlocks(p) == [then : {FoundNotes(p)}, res : [Notes(p) -> Contents]]
NoteBlocks     == [then : {NoteDeleted}, res : BOOLEAN]
MarkBlocks(p)  == [then : LikeThens(p), res : BOOLEAN]
LikedBlocks(p) == [then : DoneThens(p), res : BOOLEAN]

BlocksAbout(p) == LikesBlocks(p) \cup DropBlocks(p) \cup FeedsBlocks(p) \cup NotesBlocks(p)
                  \cup MarkBlocks(p) \cup LikedBlocks(p)
PostBlocks == UploadBlocks \cup SharedBlocks \cup FeedBlocks \cup NoteBlocks
              \cup UNION {BlocksAbout(p) : p \in PostIds}

FlightOK ==
    /\ queue \in QueuesOf(PostWrites)
    /\ gets \in QueuesOf(PostReads)
    /\ mainq \in QueuesOf(PostBlocks)
    /\ calls \in QueuesOf(UploadThens)

StateOK ==
    /\ docs \in [Paths -> Contents]
    /\ feed \in [Devices -> SUBSET FeedPosts]
    /\ screens \in [Devices -> 0..MaxScreens]
    /\ open \in [Devices -> BOOLEAN]
    /\ \A d \in Devices : open[d] => screens[d] > 0
    /\ hud \in [Devices -> Huds(PostViews)]
    /\ silent \in [Devices -> SUBSET PostIds]
    /\ shares \in 0..MaxShares
    /\ hasty \in BOOLEAN

TypesInv == FlightOK /\ StateOK

-----------------------------------------------------------------------------
(* The loader.                                                             *)

\* The loader is in a view that was opened.
ViewsOpened == \A d \in Devices : \A k \in Screens : hud[d].view = UploadView(k) => k <= screens[d]

\* A block that retains the k-th upload screen of d is to come.
UploadComing(d, k) ==
    \/ \E c \in Range(calls[d]) : c.k = k
    \/ \E w \in Range(queue[d]) : w \in Stores /\ w.then.k = k
    \/ \E b \in Range(mainq[d]) : b \in UploadBlocks \cup SharedBlocks /\ b.then.k = k

UploadsKept(d) == \A k \in Screens : UploadComing(d, k) => UploadComing(d, k)'

Presented(d, k) == open[d] /\ k = screens[d]

\* A loader in the k-th upload screen goes with an upload, or with its animation.
Owned(d, k) == UploadComing(d, k) \/ (hud[d].phase = "showing" /\ ~Presented(d, k))

\* A deletion is under way on d.
DropKinds == {"postDeleted", "foundFeeds", "foundNotes", "noteDeleted"}
DeletionComing(d) ==
    \/ \E w \in Range(queue[d]) : w \in Drops \cup Unnotes
    \/ \E r \in Range(gets[d]) : r.then.kind \in DropKinds
    \/ \E b \in Range(mainq[d]) : b.then.kind \in DropKinds

LoaderOwned ==
    \A d \in Devices : Stays(hud[d]) =>
        /\ hud[d].view = FeedView => silent[d] # {} \/ DeletionComing(d)
        /\ \A k \in Screens : hud[d].view = UploadView(k) => Owned(d, k)

LoaderInv == ViewsOpened /\ LoaderOwned

-----------------------------------------------------------------------------
(* What a deletion leaves.                                                 *)

\* Every mark under a user has one under the post, stored before.
Marked(p, u) == docs[PostLike(p, u)] # NoDoc

MarksPaired ==
    /\ \A p \in PostIds, u \in Users : docs[UserLike(u, p)] # NoDoc => Marked(p, u)
    /\ \A d \in Devices : \A w \in Range(queue[d]) : \A p \in PostIds, u \in Users :
          /\ w \in MarkWrites(p, u) => u = UidOf[d]
          /\ w \in LikeWrites(p, u) => Marked(p, u)
    /\ \A d \in Devices : \A b \in Range(mainq[d]) : \A p \in PostIds :
          b \in MarkBlocks(p) => Marked(p, UidOf[d])

\* The calls of a like of p that are in flight, and of a deletion.
LikingWrites(p) == UNION {MarkWrites(p, u) \cup LikeWrites(p, u) \cup NoteWrites(p, u) : u \in Users}
Liking(d, p) ==
    \/ \E w \in Range(queue[d]) : w \in LikingWrites(p)
    \/ \E b \in Range(mainq[d]) : b \in MarkBlocks(p) \cup LikedBlocks(p)

Dropping(d) ==
    \/ \E w \in Range(queue[d]) : w \in Drops
    \/ \E r \in Range(gets[d]) : r # FeedRead
    \/ \E b \in Range(mainq[d]) : b.then.kind \in {"foundLikes", "postDeleted", "foundFeeds", "foundNotes"}

\* Users who wait like posts that exist and are not being deleted.
LikesApart ==
    ~hasty => \A d \in Devices, p \in PostIds : Liking(d, p) =>
                  Exists(p) /\ \A e \in Devices : ~Dropping(e)

Dropped(p) == ~Exists(p) \/ \E d \in Devices : \E w \in Range(queue[d]) : w \in DropWrites(p)

\* The mark of p under u, and the notification, are about to be deleted.
UnlikeComing(p, u) ==
    \E d \in Devices :
        \/ LikesRead(p) \in Range(gets[d])
        \/ \E b \in Range(mainq[d]) : b \in LikesBlocks(p) /\ b.res[PostLike(p, u)] # NoDoc
        \/ \E w \in Range(queue[d]) : w \in UnlikeWrites(p) /\ UserLike(u, p) \in w.paths

UnnoteComing(p, u) ==
    \E d \in Devices :
        \/ FeedsRead(p) \in Range(gets[d]) \/ NotesRead(p) \in Range(gets[d])
        \/ \E b \in Range(mainq[d]) :
              \/ b \in DropBlocks(p) \cup FeedsBlocks(p)
              \/ b \in NotesBlocks(p) /\ b.res[NoteDoc(p, u)] # NoDoc
        \/ \E w \in Range(queue[d]) : w \in UnnoteWrites(p) /\ NoteDoc(p, u) \in w.paths

Cleaning ==
    ~hasty => \A p \in OldPosts, u \in Users :
        /\ Dropped(p) /\ docs[UserLike(u, p)] # NoDoc => UnlikeComing(p, u)
        /\ ~Exists(p) /\ docs[NoteDoc(p, u)] # NoDoc => UnnoteComing(p, u)

CleanInv == MarksPaired /\ LikesApart /\ Cleaning

-----------------------------------------------------------------------------
(* The feed.                                                               *)

\* Everything agrees on who shared a post: what is stored, in flight or listed.
\* Of a post that is not shared yet, f knows nobody.
OwnersAgree(f) ==
    /\ \A p \in OldPosts : f[p] = OldOwner
    /\ \A p \in (shares + 1)..MaxShares : f[p] = NoDoc
    /\ \A p \in PostIds : docs[PostDoc(p)] \in {f[p], NoDoc}

\* A write, and a block, of d that f agrees with.
WriteOwned(f, d, w) ==
    \A p \in PostIds : /\ w \in StoreWrites(p) => w.data = UidOf[d] /\ f[p] = UidOf[d]
                       /\ w \in CountWrites(p) => w.data = f[p]
                       /\ w \in DropWrites(p) => f[p] = UidOf[d]
BlockOwned(f, d, b) ==
    /\ b \in UploadBlocks => f[b.then.p] = UidOf[d]
    /\ b \in FeedBlocks => \A p \in PostIds : b.res[PostDoc(p)] \in {f[p], NoDoc}

OwnersAgreeAt(f, d) ==
    /\ \A c \in Range(calls[d]) : f[c.p] = UidOf[d]
    /\ \A post \in feed[d] : post.ownerUid = f[post.postId]
    /\ \A w \in Range(queue[d]) : WriteOwned(f, d, w)
    /\ \A b \in Range(mainq[d]) : BlockOwned(f, d, b)

\* Of the blocks in s, the last list of posts has u at path; there is none; one
\* with anything at path is not the last word, as the feed is refreshed after it.
IsFeed(b) == b \in FeedBlocks
Lists(s, path, u) ==
    \E i \in DOMAIN s :
        /\ IsFeed(s[i]) /\ s[i].res[path] = u
        /\ \A j \in DOMAIN s : j > i => ~IsFeed(s[j])
NoFeed(s) == \A i \in DOMAIN s : ~IsFeed(s[i])
Undone(s, path) ==
    \A i \in DOMAIN s : IsFeed(s[i]) /\ s[i].res[path] # NoDoc =>
        \E j \in DOMAIN s : j > i /\ s[j] \in NoteBlocks

RefreshComing(d) ==
    \/ \E b \in Range(mainq[d]) : b \in SharedBlocks /\ b.res
    \/ FeedRead \in Range(gets[d])

\* The feed of d, or the newest answer that will replace it, lists its post p.
Listed(d, p) ==
    \/ Lists(mainq[d], PostDoc(p), UidOf[d])
    \/ NoFeed(mainq[d]) /\ Post(p, UidOf[d]) \in feed[d]

\* No deletion of p waits in the queue of d.
Undropped(d, p) == ~\E w \in Range(queue[d]) : w \in DropWrites(p)
OwnListed(d, p) == Exists(p) /\ Undropped(d, p) => RefreshComing(d) \/ Listed(d, p)

\* The deletion of p is under way on d, up to the block that refreshes the feed.
ChainComing(d, p) ==
    \/ FeedsRead(p) \in Range(gets[d]) \/ NotesRead(p) \in Range(gets[d])
    \/ \E b \in Range(mainq[d]) : b \in DropBlocks(p) \cup FeedsBlocks(p) \cup NotesBlocks(p)
    \/ \E w \in Range(queue[d]) : w \in Unnotes

Gone(d, p) ==
    /\ ~Exists(p)
    /\ ~\E w \in Range(queue[d]) : w \in StoreWrites(p)
    /\ p \notin silent[d]
    /\ ~ChainComing(d, p)

\* Wherever p is still listed on d, a refresh follows.
Passing(d, p) ==
    /\ Post(p, UidOf[d]) \in feed[d] => \E b \in Range(mainq[d]) : b \in NoteBlocks
    /\ Undone(mainq[d], PostDoc(p))
GoneHidden(d, p) == Gone(d, p) => Passing(d, p)

FeedAt(f, d) ==
    \A p \in PostIds : f[p] = UidOf[d] => OwnListed(d, p) /\ GoneHidden(d, p)

FeedOK(f) == OwnersAgree(f) /\ \A d \in Devices : OwnersAgreeAt(f, d) /\ FeedAt(f, d)

FeedInv == \E f \in [PostIds -> Contents] : FeedOK(f)

-----------------------------------------------------------------------------
(* Shapes of documents, writes, reads and blocks.                          *)

LEMMA PathFacts ==
    /\ \A p \in PostIds : PostDoc(p) \in Paths /\ PostDoc(p) \in PostDocs
    /\ \A p \in PostIds, u \in Users :
          /\ PostLike(p, u) \in Paths /\ PostLike(p, u) \in PostLikes(p)
          /\ UserLike(u, p) \in Paths /\ UserLike(u, p) \in UserLikes(p)
          /\ NoteDoc(p, u) \in Paths /\ NoteDoc(p, u) \in Notes(p)
  <1>1. \A p \in PostIds : PostDoc(p) \in PostDocs
    BY DEF PostDocs
  <1>2. ASSUME NEW p \in PostIds, NEW u \in Users
        PROVE  /\ PostLike(p, u) \in PostLikes(p) /\ UserLike(u, p) \in UserLikes(p)
               /\ NoteDoc(p, u) \in Notes(p)
    BY DEF PostLikes, UserLikes, Notes
  <1>3. \A p \in PostIds : PostLikes(p) \cup Notes(p) \cup UserLikes(p) \subseteq Paths
    BY DEF Paths, UserLikes
  <1> QED BY <1>1, <1>2, <1>3 DEF Paths

LEMMA PathsApart ==
    /\ \A p, q : PostDoc(p) = PostDoc(q) => p = q
    /\ \A p, q, u, v : /\ PostLike(p, u) = PostLike(q, v) => p = q /\ u = v
                       /\ UserLike(u, p) = UserLike(v, q) => p = q /\ u = v
                       /\ NoteDoc(p, u) = NoteDoc(q, v) => p = q /\ u = v
    /\ \A p, q, u : PostDoc(p) # PostLike(q, u) /\ PostDoc(p) # UserLike(u, q) /\ PostDoc(p) # NoteDoc(q, u)
    /\ \A p, q, u, v : /\ PostLike(p, u) # UserLike(v, q) /\ PostLike(p, u) # NoteDoc(q, v)
                       /\ UserLike(u, p) # NoteDoc(q, v)
  <1>1. \A p, q : PostDoc(p) = PostDoc(q) => p = q
    BY DEF PostDoc
  <1>2. \A p, q, u, v : PostLike(p, u) = PostLike(q, v) => p = q /\ u = v
    BY DEF PostLike
  <1>3. \A p, q, u, v : UserLike(u, p) = UserLike(v, q) => p = q /\ u = v
    BY DEF UserLike
  <1>4. \A p, q, u, v : NoteDoc(p, u) = NoteDoc(q, v) => p = q /\ u = v
    BY DEF NoteDoc
  <1>5. \A p, q, u : PostDoc(p) # PostLike(q, u) /\ PostDoc(p) # UserLike(u, q) /\ PostDoc(p) # NoteDoc(q, u)
    BY DEF PostDoc, PostLike, UserLike, NoteDoc
  <1>6. \A p, q, u, v : /\ PostLike(p, u) # UserLike(v, q) /\ PostLike(p, u) # NoteDoc(q, v)
                        /\ UserLike(u, p) # NoteDoc(q, v)
    BY DEF PostLike, UserLike, NoteDoc
  <1> QED BY <1>1, <1>2, <1>3, <1>4, <1>5, <1>6

\* The completion blocks of writes, by kind.
LEMMA ThenFacts ==
    /\ \A x \in UploadThens : x.kind = "uploaded" /\ x.p \in NewIds /\ x.k \in Screens
    /\ \A x \in SharedThens : x.kind = "shared" /\ x.k \in Screens /\ x # NoThen
    /\ \A p \in PostIds : PostDeleted(p).kind = "postDeleted" /\ PostDeleted(p).p = p /\ PostDeleted(p) # NoThen
    /\ NoteDeleted.kind = "noteDeleted" /\ NoteDeleted # NoThen
    /\ \A p \in PostIds : \A x \in LikeThens(p) :
          /\ x.kind = "markedPost" /\ x.post \in FeedPosts /\ x.post.postId = p
          /\ x = MarkedPost(x.post) /\ x # NoThen
    /\ \A p \in PostIds : \A x \in DoneThens(p) :
          /\ x.kind = "liked" /\ x.post \in FeedPosts /\ x.post.postId = p
          /\ x = Liked(x.post) /\ x # NoThen
  <1>1. \A x \in UploadThens : x.kind = "uploaded" /\ x.p \in NewIds /\ x.k \in Screens
    BY DEF UploadThens, Uploaded
  <1>2. ASSUME NEW x \in SharedThens PROVE x.kind = "shared" /\ x.k \in Screens /\ x # NoThen
    <2>1. PICK k \in Screens : x = Shared(k)
      BY DEF SharedThens
    <2>2. x \in [kind : {"shared"}, k : 1..MaxScreens]
      BY <2>1 DEF Shared, Screens
    <2> QED BY <2>2, PostsAssumption DEF Screens
  <1>3. ASSUME NEW p \in PostIds
        PROVE  PostDeleted(p).kind = "postDeleted" /\ PostDeleted(p).p = p /\ PostDeleted(p) # NoThen
    <2>1. PostDeleted(p) \in [kind : {"postDeleted"}, p : OldPosts \cup (1..MaxShares)]
      BY DEF PostDeleted, PostIds
    <2> QED BY <2>1, PostsAssumption DEF PostDeleted
  <1>4. NoteDeleted.kind = "noteDeleted" /\ NoteDeleted # NoThen
    <2>1. NoteDeleted \in [kind : {"noteDeleted"}]
      BY DEF NoteDeleted
    <2> QED BY <2>1, PostsAssumption DEF NoteDeleted
  <1>5. ASSUME NEW p \in PostIds, NEW x \in LikeThens(p)
        PROVE  /\ x.kind = "markedPost" /\ x.post \in FeedPosts /\ x.post.postId = p
               /\ x = MarkedPost(x.post) /\ x # NoThen
    <2>1. PICK post \in FeedPosts : post.postId = p /\ x = MarkedPost(post)
      BY DEF LikeThens
    <2>2. x.kind = "markedPost" /\ x.post = post
      BY <2>1 DEF MarkedPost
    <2>3. x \in [kind : {"markedPost", "liked"}, post : FeedPosts]
      BY <2>1 DEF MarkedPost
    <2> QED BY <2>1, <2>2, <2>3, PostsAssumption DEF FeedPosts, PostIds
  <1>6. ASSUME NEW p \in PostIds, NEW x \in DoneThens(p)
        PROVE  /\ x.kind = "liked" /\ x.post \in FeedPosts /\ x.post.postId = p
               /\ x = Liked(x.post) /\ x # NoThen
    <2>1. PICK post \in FeedPosts : post.postId = p /\ x = Liked(post)
      BY DEF DoneThens
    <2>2. x.kind = "liked" /\ x.post = post
      BY <2>1 DEF Liked
    <2>3. x \in [kind : {"markedPost", "liked"}, post : FeedPosts]
      BY <2>1 DEF Liked
    <2> QED BY <2>1, <2>2, <2>3, PostsAssumption DEF FeedPosts, PostIds
  <1> QED BY <1>1, <1>2, <1>3, <1>4, <1>5, <1>6

\* The writes, class by class.
LEMMA StoreFacts ==
    ASSUME NEW p \in NewIds, NEW w \in StoreWrites(p)
    PROVE  /\ p \in PostIds /\ w.paths = {PostDoc(p)} /\ w.data \in Users /\ w.data # NoDoc /\ ~w.upd
           /\ w.then \in SharedThens /\ w.then # NoThen /\ w.then.kind = "shared"
  <1>1. w.paths = {PostDoc(p)} /\ w.data \in Users /\ ~w.upd /\ w.then \in SharedThens
    BY DEF StoreWrites
  <1> QED BY <1>1, ThenFacts, PostsAssumption DEF PostIds, NewIds

LEMMA CountFacts ==
    ASSUME NEW p \in PostIds, NEW w \in CountWrites(p)
    PROVE  w.paths = {PostDoc(p)} /\ w.data \in Users /\ w.data # NoDoc /\ w.upd /\ w.then = NoThen
  BY PostsAssumption DEF CountWrites

LEMMA DropFacts ==
    ASSUME NEW p \in PostIds, NEW w \in DropWrites(p)
    PROVE  /\ w.paths = {PostDoc(p)} /\ w.data = NoDoc /\ ~w.upd
           /\ w.then = PostDeleted(p) /\ w.then # NoThen /\ w.then.kind = "postDeleted"
  <1>1. w.paths = {PostDoc(p)} /\ w.data = NoDoc /\ ~w.upd /\ w.then = PostDeleted(p)
    BY DEF DropWrites
  <1> QED BY <1>1, ThenFacts

LEMMA MarkFacts ==
    ASSUME NEW p \in PostIds, NEW u \in Users, NEW w \in MarkWrites(p, u)
    PROVE  /\ w.paths = {PostLike(p, u)} /\ w.data = u /\ w.data # NoDoc /\ ~w.upd
           /\ w.then \in LikeThens(p) /\ w.then # NoThen
           /\ w.then.kind = "markedPost" /\ w.then.post.postId = p
  <1>1. w.paths = {PostLike(p, u)} /\ w.data = u /\ ~w.upd /\ w.then \in LikeThens(p)
    BY DEF MarkWrites
  <1> QED BY <1>1, ThenFacts, PostsAssumption

LEMMA LikeFacts ==
    ASSUME NEW p \in PostIds, NEW u \in Users, NEW w \in LikeWrites(p, u)
    PROVE  /\ w.paths = {UserLike(u, p)} /\ w.data = u /\ w.data # NoDoc /\ ~w.upd
           /\ w.then \in DoneThens(p) /\ w.then # NoThen
           /\ w.then.kind = "liked" /\ w.then.post.postId = p
  <1>1. w.paths = {UserLike(u, p)} /\ w.data = u /\ ~w.upd /\ w.then \in DoneThens(p)
    BY DEF LikeWrites
  <1> QED BY <1>1, ThenFacts, PostsAssumption

LEMMA NoteFacts ==
    ASSUME NEW p \in PostIds, NEW u \in Users, NEW w \in NoteWrites(p, u)
    PROVE  w.paths = {NoteDoc(p, u)} /\ w.data = u /\ w.data # NoDoc /\ ~w.upd /\ w.then = NoThen
  BY PostsAssumption DEF NoteWrites

LEMMA UnlikeFacts ==
    ASSUME NEW p \in PostIds, NEW w \in UnlikeWrites(p)
    PROVE  /\ w.paths \subseteq UserLikes(p) /\ w.data = NoDoc /\ ~w.upd /\ w.then = NoThen
           /\ \A path : /\ Trimmed(w, path) \in UnlikeWrites(p)
                        /\ Trimmed(w, path).paths = w.paths \ {path}
  <1>1. w.paths \subseteq UserLikes(p) /\ w.data = NoDoc /\ ~w.upd /\ w.then = NoThen
    BY DEF UnlikeWrites
  <1>2. \A path : /\ Trimmed(w, path) \in UnlikeWrites(p)
                  /\ Trimmed(w, path).paths = w.paths \ {path}
    BY DEF UnlikeWrites, Trimmed
  <1> QED BY <1>1, <1>2

LEMMA UnnoteFacts ==
    ASSUME NEW p \in PostIds, NEW w \in UnnoteWrites(p)
    PROVE  /\ w.paths \subseteq Notes(p) /\ w.data = NoDoc /\ ~w.upd
           /\ w.then = NoteDeleted /\ w.then # NoThen /\ w.then.kind = "noteDeleted"
           /\ \A path : /\ Trimmed(w, path) \in UnnoteWrites(p)
                        /\ Trimmed(w, path).paths = w.paths \ {path}
  <1>1. w.paths \subseteq Notes(p) /\ w.data = NoDoc /\ ~w.upd /\ w.then = NoteDeleted
    BY DEF UnnoteWrites
  <1>2. \A path : /\ Trimmed(w, path) \in UnnoteWrites(p)
                  /\ Trimmed(w, path).paths = w.paths \ {path}
    BY DEF UnnoteWrites, Trimmed
  <1> QED BY <1>1, <1>2, ThenFacts

\* Every write is of one of the classes.
LEMMA WriteCases ==
    ASSUME NEW w \in PostWrites
    PROVE  \/ \E p \in NewIds : w \in StoreWrites(p)
           \/ \E p \in PostIds : \/ w \in CountWrites(p) \/ w \in DropWrites(p)
                                 \/ w \in UnlikeWrites(p) \/ w \in UnnoteWrites(p)
           \/ \E p \in PostIds, u \in Users :
                 w \in MarkWrites(p, u) \/ w \in LikeWrites(p, u) \/ w \in NoteWrites(p, u)
  BY DEF PostWrites, Stores, Counts, Drops, Marks, Likes, Notices, Unlikes, Unnotes

LEMMA WriteClasses ==
    /\ \A p \in NewIds : StoreWrites(p) \subseteq Stores
    /\ \A p \in PostIds : /\ CountWrites(p) \subseteq Counts /\ DropWrites(p) \subseteq Drops
                          /\ UnlikeWrites(p) \subseteq Unlikes /\ UnnoteWrites(p) \subseteq Unnotes
    /\ \A p \in PostIds, u \in Users :
          /\ MarkWrites(p, u) \subseteq Marks /\ LikeWrites(p, u) \subseteq Likes
          /\ NoteWrites(p, u) \subseteq Notices
    /\ Stores \cup Counts \cup Drops \cup Marks \cup Likes \cup Notices \cup Unlikes \cup Unnotes
         = PostWrites
  BY DEF PostWrites, Stores, Counts, Drops, Marks, Likes, Notices, Unlikes, Unnotes

LEMMA BlockClasses ==
    /\ UploadBlocks \cup SharedBlocks \cup FeedBlocks \cup NoteBlocks \subseteq PostBlocks
    /\ \A p \in PostIds :
          /\ LikesBlocks(p) \subseteq PostBlocks /\ DropBlocks(p) \subseteq PostBlocks
          /\ FeedsBlocks(p) \subseteq PostBlocks /\ NotesBlocks(p) \subseteq PostBlocks
          /\ MarkBlocks(p) \subseteq PostBlocks /\ LikedBlocks(p) \subseteq PostBlocks
  <1>1. \A p \in PostIds : BlocksAbout(p) \subseteq PostBlocks
    BY DEF PostBlocks
  <1> QED BY <1>1 DEF PostBlocks, BlocksAbout

LEMMA WriteTells ==
    ASSUME NEW w \in PostWrites
    PROVE  /\ Tells(w, PostBlocks)
           /\ w.paths \subseteq Paths /\ w.data \in Contents
           /\ \A path \in w.paths : w.paths # {path} => Trimmed(w, path) \in PostWrites
  <1> DEFINE G == /\ Tells(w, PostBlocks) /\ w.paths \subseteq Paths /\ w.data \in Contents
                  /\ \A path \in w.paths : w.paths # {path} => Trimmed(w, path) \in PostWrites
  <1>1. ASSUME NEW p \in NewIds, w \in StoreWrites(p) PROVE G
    <2>1. Tells(w, PostBlocks)
      <3>1. \A a \in BOOLEAN : [then |-> w.then, res |-> a] \in SharedBlocks
        BY <1>1, StoreFacts DEF SharedBlocks
      <3> QED BY <3>1, BlockClasses DEF Tells
    <2> QED BY <1>1, <2>1, StoreFacts, PathFacts DEF Contents
  <1>2. ASSUME NEW p \in PostIds, w \in CountWrites(p) PROVE G
    <2>1. Tells(w, PostBlocks)
      BY <1>2, CountFacts DEF Tells
    <2> QED BY <1>2, <2>1, CountFacts, PathFacts DEF Contents
  <1>3. ASSUME NEW p \in PostIds, w \in DropWrites(p) PROVE G
    <2>1. Tells(w, PostBlocks)
      <3>1. \A a \in BOOLEAN : [then |-> w.then, res |-> a] \in DropBlocks(p)
        BY <1>3, DropFacts DEF DropBlocks
      <3> QED BY <3>1, BlockClasses DEF Tells
    <2> QED BY <1>3, <2>1, DropFacts, PathFacts DEF Contents
  <1>4. ASSUME NEW p \in PostIds, w \in UnlikeWrites(p) PROVE G
    <2>1. Tells(w, PostBlocks)
      BY <1>4, UnlikeFacts DEF Tells
    <2>2. UserLikes(p) \subseteq Paths
      BY PathFacts DEF UserLikes
    <2> QED BY <1>4, <2>1, <2>2, UnlikeFacts, WriteClasses DEF Contents
  <1>5. ASSUME NEW p \in PostIds, w \in UnnoteWrites(p) PROVE G
    <2>1. Tells(w, PostBlocks)
      <3>1. \A a \in BOOLEAN : [then |-> w.then, res |-> a] \in NoteBlocks
        BY <1>5, UnnoteFacts DEF NoteBlocks
      <3> QED BY <3>1, BlockClasses DEF Tells
    <2>2. Notes(p) \subseteq Paths
      BY PathFacts DEF Notes
    <2> QED BY <1>5, <2>1, <2>2, UnnoteFacts, WriteClasses DEF Contents
  <1>6. ASSUME NEW p \in PostIds, NEW u \in Users, w \in MarkWrites(p, u) PROVE G
    <2>1. Tells(w, PostBlocks)
      <3>1. \A a \in BOOLEAN : [then |-> w.then, res |-> a] \in MarkBlocks(p)
        BY <1>6, MarkFacts DEF MarkBlocks
      <3> QED BY <3>1, BlockClasses DEF Tells
    <2> QED BY <1>6, <2>1, MarkFacts, PathFacts DEF Contents
  <1>7. ASSUME NEW p \in PostIds, NEW u \in Users, w \in LikeWrites(p, u) PROVE G
    <2>1. Tells(w, PostBlocks)
      <3>1. \A a \in BOOLEAN : [then |-> w.then, res |-> a] \in LikedBlocks(p)
        BY <1>7, LikeFacts DEF LikedBlocks
      <3> QED BY <3>1, BlockClasses DEF Tells
    <2> QED BY <1>7, <2>1, LikeFacts, PathFacts DEF Contents
  <1>8. ASSUME NEW p \in PostIds, NEW u \in Users, w \in NoteWrites(p, u) PROVE G
    <2>1. Tells(w, PostBlocks)
      BY <1>8, NoteFacts DEF Tells
    <2> QED BY <1>8, <2>1, NoteFacts, PathFacts DEF Contents
  <1> HIDE DEF G
  <1>9. G
    BY <1>1, <1>2, <1>3, <1>4, <1>5, <1>6, <1>7, <1>8, WriteCases
  <1> QED BY <1>9 DEF G

\* The blocks, by kind.
LEMMA BlockKinds ==
    /\ \A b \in UploadBlocks : b.then \in UploadThens /\ b.then.kind = "uploaded" /\ b.res
    /\ \A b \in SharedBlocks : b.then \in SharedThens /\ b.then.kind = "shared" /\ b.res \in BOOLEAN
    /\ \A b \in FeedBlocks : b.then.kind = "fetchedPosts" /\ b.res \in [PostDocs -> Contents]
    /\ \A b \in NoteBlocks : b.then = NoteDeleted /\ b.then.kind = "noteDeleted"
    /\ \A p \in PostIds : \A b \in LikesBlocks(p) :
          b.then.kind = "foundLikes" /\ b.then.p = p /\ b.res \in [PostLikes(p) -> Contents]
    /\ \A p \in PostIds : \A b \in DropBlocks(p) : b.then.kind = "postDeleted" /\ b.then.p = p
    /\ \A p \in PostIds : \A b \in FeedsBlocks(p) : b.then.kind = "foundFeeds" /\ b.then.p = p
    /\ \A p \in PostIds : \A b \in NotesBlocks(p) :
          b.then.kind = "foundNotes" /\ b.then.p = p /\ b.res \in [Notes(p) -> Contents]
    /\ \A p \in PostIds : \A b \in MarkBlocks(p) :
          /\ b.then \in LikeThens(p) /\ b.then.kind = "markedPost" /\ b.then.post.postId = p
          /\ b.then.post \in FeedPosts /\ b.res \in BOOLEAN
    /\ \A p \in PostIds : \A b \in LikedBlocks(p) :
          /\ b.then \in DoneThens(p) /\ b.then.kind = "liked" /\ b.then.post.postId = p
          /\ b.then.post \in FeedPosts
  <1>1. \A b \in UploadBlocks : b.then \in UploadThens /\ b.then.kind = "uploaded" /\ b.res
    BY ThenFacts DEF UploadBlocks
  <1>2. \A b \in SharedBlocks : b.then \in SharedThens /\ b.then.kind = "shared" /\ b.res \in BOOLEAN
    BY ThenFacts DEF SharedBlocks
  <1>3. \A b \in FeedBlocks : b.then.kind = "fetchedPosts" /\ b.res \in [PostDocs -> Contents]
    BY DEF FeedBlocks, FetchedPosts
  <1>4. \A b \in NoteBlocks : b.then = NoteDeleted /\ b.then.kind = "noteDeleted"
    BY ThenFacts DEF NoteBlocks
  <1>5. \A p \in PostIds : \A b \in LikesBlocks(p) :
          b.then.kind = "foundLikes" /\ b.then.p = p /\ b.res \in [PostLikes(p) -> Contents]
    BY DEF LikesBlocks, FoundLikes
  <1>6. \A p \in PostIds : \A b \in DropBlocks(p) : b.then.kind = "postDeleted" /\ b.then.p = p
    BY DEF DropBlocks, PostDeleted
  <1>7. \A p \in PostIds : \A b \in FeedsBlocks(p) : b.then.kind = "foundFeeds" /\ b.then.p = p
    BY DEF FeedsBlocks, FoundFeeds
  <1>8. \A p \in PostIds : \A b \in NotesBlocks(p) :
          b.then.kind = "foundNotes" /\ b.then.p = p /\ b.res \in [Notes(p) -> Contents]
    BY DEF NotesBlocks, FoundNotes
  <1>9. \A p \in PostIds : \A b \in MarkBlocks(p) :
          /\ b.then \in LikeThens(p) /\ b.then.kind = "markedPost" /\ b.then.post.postId = p
          /\ b.then.post \in FeedPosts /\ b.res \in BOOLEAN
    BY ThenFacts DEF MarkBlocks
  <1>10. \A p \in PostIds : \A b \in LikedBlocks(p) :
          /\ b.then \in DoneThens(p) /\ b.then.kind = "liked" /\ b.then.post.postId = p
          /\ b.then.post \in FeedPosts
    BY ThenFacts DEF LikedBlocks
  <1> QED BY <1>1, <1>2, <1>3, <1>4, <1>5, <1>6, <1>7, <1>8, <1>9, <1>10

LEMMA BlockCases ==
    ASSUME NEW b \in PostBlocks
    PROVE  \/ b \in UploadBlocks \/ b \in SharedBlocks \/ b \in FeedBlocks \/ b \in NoteBlocks
           \/ \E p \in PostIds : \/ b \in LikesBlocks(p) \/ b \in DropBlocks(p) \/ b \in FeedsBlocks(p)
                                 \/ b \in NotesBlocks(p) \/ b \in MarkBlocks(p) \/ b \in LikedBlocks(p)
  BY DEF PostBlocks, BlocksAbout

\* A block is known by its kind.
LEMMA KindOfBlock ==
    ASSUME NEW b \in PostBlocks
    PROVE  /\ b.then.kind = "uploaded" => b \in UploadBlocks
           /\ b.then.kind = "shared" => b \in SharedBlocks
           /\ b.then.kind = "fetchedPosts" => b \in FeedBlocks
           /\ b.then.kind = "noteDeleted" => b \in NoteBlocks
           /\ b.then.kind = "foundLikes" => b.then.p \in PostIds /\ b \in LikesBlocks(b.then.p)
           /\ b.then.kind = "postDeleted" => b.then.p \in PostIds /\ b \in DropBlocks(b.then.p)
           /\ b.then.kind = "foundFeeds" => b.then.p \in PostIds /\ b \in FeedsBlocks(b.then.p)
           /\ b.then.kind = "foundNotes" => b.then.p \in PostIds /\ b \in NotesBlocks(b.then.p)
           /\ b.then.kind = "markedPost" =>
                 /\ b.then.post \in FeedPosts /\ b.then.post.postId \in PostIds
                 /\ b \in MarkBlocks(b.then.post.postId)
           /\ b.then.kind = "liked" =>
                 /\ b.then.post \in FeedPosts /\ b.then.post.postId \in PostIds
                 /\ b \in LikedBlocks(b.then.post.postId)
  <1>1. CASE b \in UploadBlocks
    BY <1>1, BlockKinds
  <1>2. CASE b \in SharedBlocks
    BY <1>2, BlockKinds
  <1>3. CASE b \in FeedBlocks
    BY <1>3, BlockKinds
  <1>4. CASE b \in NoteBlocks
    BY <1>4, BlockKinds
  <1>5. ASSUME NEW p \in PostIds, b \in LikesBlocks(p) PROVE b.then.kind = "foundLikes" /\ b.then.p = p
    BY <1>5, BlockKinds
  <1>6. ASSUME NEW p \in PostIds, b \in DropBlocks(p) PROVE b.then.kind = "postDeleted" /\ b.then.p = p
    BY <1>6, BlockKinds
  <1>7. ASSUME NEW p \in PostIds, b \in FeedsBlocks(p) PROVE b.then.kind = "foundFeeds" /\ b.then.p = p
    BY <1>7, BlockKinds
  <1>8. ASSUME NEW p \in PostIds, b \in NotesBlocks(p) PROVE b.then.kind = "foundNotes" /\ b.then.p = p
    BY <1>8, BlockKinds
  <1>9. ASSUME NEW p \in PostIds, b \in MarkBlocks(p)
        PROVE  b.then.kind = "markedPost" /\ b.then.post.postId = p /\ b.then.post \in FeedPosts
    BY <1>9, BlockKinds
  <1>10. ASSUME NEW p \in PostIds, b \in LikedBlocks(p)
         PROVE  b.then.kind = "liked" /\ b.then.post.postId = p /\ b.then.post \in FeedPosts
    BY <1>10, BlockKinds
  <1> QED BY <1>1, <1>2, <1>3, <1>4, <1>5, <1>6, <1>7, <1>8, <1>9, <1>10, BlockCases

\* The reads.
LEMMA ReadFacts ==
    /\ FeedRead.then = FetchedPosts /\ FeedRead.paths = PostDocs /\ ~FeedRead.each
    /\ \A p : /\ LikesRead(p).then = FoundLikes(p) /\ LikesRead(p).paths = PostLikes(p) /\ ~LikesRead(p).each
              /\ FeedsRead(p).then = FoundFeeds(p) /\ FeedsRead(p).paths = {} /\ ~FeedsRead(p).each
              /\ NotesRead(p).then = FoundNotes(p) /\ NotesRead(p).paths = Notes(p) /\ ~NotesRead(p).each
    /\ FetchedPosts.kind = "fetchedPosts"
    /\ \A p : /\ FoundLikes(p).kind = "foundLikes" /\ FoundLikes(p).p = p
              /\ FoundFeeds(p).kind = "foundFeeds" /\ FoundFeeds(p).p = p
              /\ FoundNotes(p).kind = "foundNotes" /\ FoundNotes(p).p = p
  BY DEF FeedRead, LikesRead, FeedsRead, NotesRead, getDocuments, Read, FetchedPosts, FoundLikes,
         FoundFeeds, FoundNotes

LEMMA ReadCases ==
    /\ FeedRead \in PostReads
    /\ \A p \in PostIds : LikesRead(p) \in PostReads /\ FeedsRead(p) \in PostReads /\ NotesRead(p) \in PostReads
    /\ \A r \in PostReads :
          \/ r = FeedRead
          \/ \E p \in PostIds : r = LikesRead(p) \/ r = FeedsRead(p) \/ r = NotesRead(p)
  BY DEF PostReads

\* Reads are apart by what they are read for.
LEMMA ReadsApart ==
    /\ \A p : LikesRead(p) # FeedRead /\ FeedsRead(p) # FeedRead /\ NotesRead(p) # FeedRead
    /\ \A p, q : /\ LikesRead(p) # FeedsRead(q) /\ LikesRead(p) # NotesRead(q) /\ FeedsRead(p) # NotesRead(q)
                 /\ LikesRead(p) = LikesRead(q) => p = q
                 /\ FeedsRead(p) = FeedsRead(q) => p = q
                 /\ NotesRead(p) = NotesRead(q) => p = q
  <1>1. \A p : LikesRead(p) # FeedRead /\ FeedsRead(p) # FeedRead /\ NotesRead(p) # FeedRead
    BY ReadFacts
  <1>2. \A p, q : LikesRead(p) # FeedsRead(q) /\ LikesRead(p) # NotesRead(q) /\ FeedsRead(p) # NotesRead(q)
    BY ReadFacts
  <1>3. \A p, q : /\ LikesRead(p) = LikesRead(q) => p = q
                  /\ FeedsRead(p) = FeedsRead(q) => p = q
                  /\ NotesRead(p) = NotesRead(q) => p = q
    BY ReadFacts
  <1> QED BY <1>1, <1>2, <1>3

-----------------------------------------------------------------------------
(* What the services send.                                                 *)

LEMMA SentFacts ==
    /\ \A p \in NewIds, u \in Users, k \in Screens : setData(PostDoc(p), u, Shared(k)) \in StoreWrites(p)
    /\ \A p \in PostIds, u \in Users : updateData(PostDoc(p), u) \in CountWrites(p)
    /\ \A p \in PostIds : delete(PostDoc(p), PostDeleted(p)) \in DropWrites(p)
    /\ \A post \in FeedPosts, u \in Users :
          /\ setData(PostLike(post.postId, u), u, MarkedPost(post)) \in MarkWrites(post.postId, u)
          /\ setData(UserLike(u, post.postId), u, Liked(post)) \in LikeWrites(post.postId, u)
          /\ setData(NoteDoc(post.postId, u), u, NoThen) \in NoteWrites(post.postId, u)
    /\ \A p \in PostIds : \A S \in SUBSET UserLikes(p) : deleteAll(S, NoThen) \in UnlikeWrites(p)
    /\ \A p \in PostIds : \A S \in SUBSET Notes(p) : deleteAll(S, NoteDeleted) \in UnnoteWrites(p)
  <1>1. \A p \in NewIds, u \in Users, k \in Screens : setData(PostDoc(p), u, Shared(k)) \in StoreWrites(p)
    BY DEF setData, Write, StoreWrites, SharedThens
  <1>2. \A p \in PostIds, u \in Users : updateData(PostDoc(p), u) \in CountWrites(p)
    BY DEF updateData, Write, CountWrites
  <1>3. \A p \in PostIds : delete(PostDoc(p), PostDeleted(p)) \in DropWrites(p)
    BY DEF delete, Write, DropWrites
  <1>4. ASSUME NEW post \in FeedPosts, NEW u \in Users
        PROVE  setData(PostLike(post.postId, u), u, MarkedPost(post)) \in MarkWrites(post.postId, u)
    BY DEF setData, Write, MarkWrites, LikeThens
  <1>5. ASSUME NEW post \in FeedPosts, NEW u \in Users
        PROVE  setData(UserLike(u, post.postId), u, Liked(post)) \in LikeWrites(post.postId, u)
    BY DEF setData, Write, LikeWrites, DoneThens
  <1>6. ASSUME NEW post \in FeedPosts, NEW u \in Users
        PROVE  setData(NoteDoc(post.postId, u), u, NoThen) \in NoteWrites(post.postId, u)
    BY DEF setData, Write, NoteWrites
  <1>7. \A p \in PostIds : \A S \in SUBSET UserLikes(p) : deleteAll(S, NoThen) \in UnlikeWrites(p)
    BY DEF deleteAll, Write, UnlikeWrites
  <1>8. \A p \in PostIds : \A S \in SUBSET Notes(p) : deleteAll(S, NoteDeleted) \in UnnoteWrites(p)
    BY DEF deleteAll, Write, UnnoteWrites
  <1> QED BY <1>1, <1>2, <1>3, <1>4, <1>5, <1>6, <1>7, <1>8

LEMMA FeedPostFacts ==
    /\ \A post \in FeedPosts : post.postId \in PostIds /\ post.ownerUid \in Users
    /\ \A p \in PostIds, u \in Users : /\ Post(p, u) \in FeedPosts
                                       /\ Post(p, u).postId = p /\ Post(p, u).ownerUid = u
    /\ \A d \in Devices : UidOf[d] \in Users
    /\ NewIds \subseteq PostIds /\ OldPosts \subseteq PostIds
    /\ \A p \in OldPosts : p \notin NewIds
  <1>1. \A post \in FeedPosts : post.postId \in PostIds /\ post.ownerUid \in Users
    BY DEF FeedPosts
  <1>2. \A p \in PostIds, u \in Users : /\ Post(p, u) \in FeedPosts
                                        /\ Post(p, u).postId = p /\ Post(p, u).ownerUid = u
    BY DEF FeedPosts, Post
  <1> QED BY <1>1, <1>2, PostsAssumption DEF PostIds, NewIds

LEMMA HudFacts ==
    /\ Hidden \in Huds(PostViews)
    /\ \A h \in Huds(PostViews) :
          /\ \A v \in PostViews : show(h, v) \in Huds(PostViews)
          /\ dismiss(h) \in Huds(PostViews)
          /\ Animating(h) => animated(h) \in Huds(PostViews)
          /\ freed(h) \in {h, Hidden} /\ freed(h).phase # "shown"
  <1>1. Hidden \in Huds(PostViews)
    BY DEF Hidden, Huds, Phases
  <1>2. NoView \notin PostViews
    BY PostsAssumption DEF PostViews, FeedView, UploadView, Screens
  <1>3. ASSUME NEW h \in Huds(PostViews), NEW v \in PostViews PROVE show(h, v) \in Huds(PostViews)
    BY <1>2 DEF show, Huds, Phases
  <1>4. ASSUME NEW h \in Huds(PostViews) PROVE dismiss(h) \in Huds(PostViews)
    BY DEF dismiss, Huds, Phases
  <1>5. ASSUME NEW h \in Huds(PostViews), Animating(h) PROVE animated(h) \in Huds(PostViews)
    BY <1>1, <1>5 DEF animated, Animating, Huds, Phases
  <1>6. ASSUME NEW h \in Huds(PostViews) PROVE freed(h) \in {h, Hidden} /\ freed(h).phase # "shown"
    BY DEF freed, Hidden
  <1> QED BY <1>1, <1>3, <1>4, <1>5, <1>6

\* The loader becomes h, or goes with its view.
LEMMA BecomesFacts ==
    ASSUME hud \in [Devices -> Huds(PostViews)], NEW d \in Devices, NEW h \in Huds(PostViews), hudBecomes(d, h)
    PROVE  /\ hud' \in [Devices -> Huds(PostViews)]
           /\ \A e \in Devices \ {d} : hud'[e] = hud[e]
           /\ hud'[d] \in {h, Hidden}
           /\ hud'[d].phase = "shown" => hud'[d].view \in Alive(d)'
  <1>1. PICK A : A = Alive(d)'
    OBVIOUS
  <1>2. PICK g : g = IF h.view \in A THEN h ELSE freed(h)
    OBVIOUS
  <1>3. hud' = [hud EXCEPT ![d] = g]
    BY <1>1, <1>2 DEF hudBecomes
  <1>4. g \in Huds(PostViews) /\ g \in {h, Hidden} /\ (g.phase = "shown" => g.view \in A)
    BY <1>2, HudFacts
  <1> QED BY <1>1, <1>3, <1>4

-----------------------------------------------------------------------------
(* Completion blocks run, reads and writes are answered.                   *)

\* The block b at the head of the main queue of d runs, sending ws and rs.
Ran(d, b, ws, rs) ==
    /\ mainq[d] # <<>> /\ b = Head(mainq[d]) /\ mainq'[d] = Tail(mainq[d])
    /\ Taken(d, b, ws, rs)

LEMMA RunBlock ==
    ASSUME FlightOK, NEW d \in Devices, mainq[d] # <<>>,
           NEW ws \in Seq(PostWrites), NEW rs \in Seq(PostReads), Take(d, ws, rs),
           calls' = calls
    PROVE  FlightOK' /\ Head(mainq[d]) \in PostBlocks /\ Ran(d, Head(mainq[d]), ws, rs)
  <1>1. queue \in QueuesOf(PostWrites) /\ gets \in QueuesOf(PostReads) /\ mainq \in QueuesOf(PostBlocks)
    BY DEF FlightOK
  <1>2. /\ queue' \in QueuesOf(PostWrites) /\ gets' \in QueuesOf(PostReads)
        /\ mainq' \in QueuesOf(PostBlocks)
        /\ Head(mainq[d]) \in PostBlocks
        /\ Taken(d, Head(mainq[d]), ws, rs)
    BY <1>1, TakeOne
  <1>3. mainq'[d] = Tail(mainq[d])
    BY <1>1 DEF Take, QueuesOf
  <1>4. calls' \in QueuesOf(UploadThens)
    BY DEF FlightOK
  <1> QED BY <1>2, <1>3, <1>4 DEF FlightOK, Ran

LEMMA DueBlock ==
    ASSUME FlightOK, NEW d \in Devices, NEW kind, Due(d, kind)
    PROVE  /\ mainq[d] # <<>> /\ Head(mainq[d]) \in PostBlocks
           /\ Head(mainq[d]).then.kind = kind
           /\ Block(d) = Head(mainq[d]).then /\ Result(d) = Head(mainq[d]).res
           /\ Head(mainq[d]) \in Range(mainq[d])
  <1>1. mainq[d] \in Seq(PostBlocks) /\ mainq[d] # <<>>
    BY DEF FlightOK, QueuesOf, Due
  <1>2. Head(mainq[d]) \in PostBlocks /\ Head(mainq[d]) \in Range(mainq[d])
    BY <1>1, RangeOfTail
  <1> QED BY <1>1, <1>2 DEF Due, Block, Result

\* What an answered write does to the documents.
LEMMA AnswerDocs ==
    ASSUME docs \in [Paths -> Contents], NEW w \in PostWrites, NEW path \in w.paths, NEW done,
           docs' = IF done /\ Accepts(w, path) THEN [docs EXCEPT ![path] = w.data] ELSE docs
    PROVE  /\ docs' \in [Paths -> Contents] /\ path \in Paths
           /\ done /\ Accepts(w, path) => docs'[path] = w.data
           /\ ~(done /\ Accepts(w, path)) => docs'[path] = docs[path]
           /\ \A x \in Paths : x # path => docs'[x] = docs[x]
  <1>1. path \in Paths /\ w.data \in Contents
    BY WriteTells
  <1> QED BY <1>1

LEMMA AnswerTypes ==
    ASSUME TypesInv, NEW d \in Devices, NEW done \in BOOLEAN, Answer(d, done),
           UNCHANGED appVars, hasty' = hasty
    PROVE  /\ TypesInv'
           /\ \E w \in PostWrites : \E path \in w.paths : AnsweredPart(d, done, w, path)
  <1>1. queue \in QueuesOf(PostWrites) /\ mainq \in QueuesOf(PostBlocks)
    BY DEF TypesInv, FlightOK
  <1>2. \A w \in PostWrites : Tells(w, PostBlocks)
    BY WriteTells
  <1>3. \A w \in PostWrites : \A path \in w.paths : w.paths # {path} => Trimmed(w, path) \in PostWrites
    BY WriteTells
  <1>4. /\ queue' \in QueuesOf(PostWrites) /\ mainq' \in QueuesOf(PostBlocks)
        /\ \E w \in PostWrites : \E path \in w.paths : AnsweredPart(d, done, w, path)
    BY <1>1, <1>2, <1>3, AnswerPart
  <1>5. gets' = gets
    BY DEF Answer
  <1>6. FlightOK'
    BY <1>4, <1>5 DEF TypesInv, FlightOK, appVars
  <1>7. docs' \in [Paths -> Contents]
    <2>1. PICK w \in PostWrites : \E path \in w.paths : AnsweredPart(d, done, w, path)
      BY <1>4
    <2>2. PICK path \in w.paths : AnsweredPart(d, done, w, path)
      BY <2>1
    <2>3. docs' = IF done /\ Accepts(w, path) THEN [docs EXCEPT ![path] = w.data] ELSE docs
      BY <2>2 DEF AnsweredPart
    <2>4. docs \in [Paths -> Contents]
      BY DEF TypesInv, StateOK
    <2> QED BY <2>3, <2>4, AnswerDocs
  <1>8. StateOK'
    BY <1>7 DEF TypesInv, StateOK, appVars
  <1> QED BY <1>4, <1>6, <1>8 DEF TypesInv

\* What a device sees is of the types stored.
LEMMA ViewType ==
    ASSUME TypesInv, NEW d \in Devices, NEW path \in Paths
    PROVE  View(d, path) \in Contents
  <1>1. queue \in QueuesOf(PostWrites)
    BY DEF TypesInv, FlightOK
  <1>2. View(d, path) = docs[path] \/ \E w \in Range(queue[d]) : path \in w.paths /\ View(d, path) = w.data
    BY <1>1, ViewFrom
  <1>3. docs[path] \in Contents
    BY DEF TypesInv, StateOK
  <1>4. \A w \in Range(queue[d]) : w.data \in Contents
    BY <1>1, InQueue, WriteTells
  <1> QED BY <1>2, <1>3, <1>4

\* The answers to reads.
LEMMA ReadTells ==
    ASSUME TypesInv, NEW d \in Devices, NEW r \in PostReads
    PROVE  [then |-> r.then, res |-> [path \in r.paths |-> View(d, path)]] \in PostBlocks
  <1>1. CASE r = FeedRead
    <2>1. r.then = FetchedPosts /\ r.paths = PostDocs
      BY <1>1, ReadFacts
    <2>2. \A path \in PostDocs : View(d, path) \in Contents
      BY ViewType DEF Paths
    <2>3. [then |-> r.then, res |-> [path \in r.paths |-> View(d, path)]] \in FeedBlocks
      BY <2>1, <2>2 DEF FeedBlocks
    <2> QED BY <2>3, BlockClasses
  <1>2. ASSUME NEW p \in PostIds, r = LikesRead(p)
        PROVE  [then |-> r.then, res |-> [path \in r.paths |-> View(d, path)]] \in PostBlocks
    <2>1. r.then = FoundLikes(p) /\ r.paths = PostLikes(p)
      BY <1>2, ReadFacts
    <2>2. \A path \in PostLikes(p) : View(d, path) \in Contents
      <3>1. PostLikes(p) \subseteq Paths
        BY PathFacts DEF PostLikes
      <3> QED BY <3>1, ViewType
    <2>3. [then |-> r.then, res |-> [path \in r.paths |-> View(d, path)]] \in LikesBlocks(p)
      BY <2>1, <2>2 DEF LikesBlocks
    <2> QED BY <2>3, BlockClasses
  <1>3. ASSUME NEW p \in PostIds, r = FeedsRead(p)
        PROVE  [then |-> r.then, res |-> [path \in r.paths |-> View(d, path)]] \in PostBlocks
    <2>1. r.then = FoundFeeds(p) /\ r.paths = {}
      BY <1>3, ReadFacts
    <2>2. [then |-> r.then, res |-> [path \in r.paths |-> View(d, path)]] \in FeedsBlocks(p)
      BY <2>1 DEF FeedsBlocks
    <2> QED BY <2>2, BlockClasses
  <1>4. ASSUME NEW p \in PostIds, r = NotesRead(p)
        PROVE  [then |-> r.then, res |-> [path \in r.paths |-> View(d, path)]] \in PostBlocks
    <2>1. r.then = FoundNotes(p) /\ r.paths = Notes(p)
      BY <1>4, ReadFacts
    <2>2. \A path \in Notes(p) : View(d, path) \in Contents
      <3>1. Notes(p) \subseteq Paths
        BY PathFacts DEF Notes
      <3> QED BY <3>1, ViewType
    <2>3. [then |-> r.then, res |-> [path \in r.paths |-> View(d, path)]] \in NotesBlocks(p)
      BY <2>1, <2>2 DEF NotesBlocks
    <2> QED BY <2>3, BlockClasses
  <1> QED BY <1>1, <1>2, <1>3, <1>4, ReadCases

LEMMA ReadsWhole == \A r \in PostReads : ~r.each
  BY ReadCases, ReadFacts

LEMMA ResolveTypes ==
    ASSUME TypesInv, NEW d \in Devices, NEW k \in DOMAIN gets[d], Resolve(d, k),
           UNCHANGED appVars, hasty' = hasty
    PROVE  /\ TypesInv'
           /\ \E r \in PostReads :
                /\ Resolved(d, r)
                /\ mainq'[d] = Append(mainq[d], [then |-> r.then, res |-> [path \in r.paths |-> View(d, path)]])
  <1>1. gets \in QueuesOf(PostReads) /\ mainq \in QueuesOf(PostBlocks)
    BY DEF TypesInv, FlightOK
  <1>2. \A r \in PostReads : [then |-> r.then, res |-> [path \in r.paths |-> View(d, path)]] \in PostBlocks
    BY ReadTells
  <1>3. /\ gets' \in QueuesOf(PostReads) /\ mainq' \in QueuesOf(PostBlocks)
        /\ \E r \in PostReads :
             /\ Resolved(d, r)
             /\ mainq'[d] = Append(mainq[d], [then |-> r.then, res |-> [path \in r.paths |-> View(d, path)]])
    BY <1>1, <1>2, ReadsWhole, ResolveOne
  <1>4. docs' = docs /\ queue' = queue
    BY DEF Resolve
  <1> QED BY <1>3, <1>4 DEF TypesInv, FlightOK, StateOK, appVars

LEMMA LoseTypes ==
    ASSUME TypesInv, NEW d \in Devices, NEW k \in DOMAIN gets[d], Lose(d, k),
           UNCHANGED appVars, hasty' = hasty
    PROVE  TypesInv'
  <1>1. gets \in QueuesOf(PostReads)
    BY DEF TypesInv, FlightOK
  <1>2. gets' \in QueuesOf(PostReads)
    BY <1>1, ReadsWhole, LoseOne
  <1>3. docs' = docs /\ queue' = queue /\ mainq' = mainq
    BY DEF Lose
  <1> QED BY <1>2, <1>3 DEF TypesInv, FlightOK, StateOK, appVars

\* The network, step by step.
LEMMA DeliverCases ==
    ASSUME NEW d \in Devices, Deliver(d)
    PROVE  /\ UNCHANGED appVars
           /\ \/ \E done \in BOOLEAN : (~done => Failures) /\ Answer(d, done)
              \/ \E k \in DOMAIN gets[d] : Resolve(d, k)
              \/ Failures /\ \E k \in DOMAIN gets[d] : Lose(d, k)
  <1>1. Network(d) /\ UNCHANGED appVars
    BY DEF Deliver
  <1>2. CASE Commit(d)
    <2>1. TRUE \in BOOLEAN
      OBVIOUS
    <2> QED BY <1>1, <1>2, <2>1 DEF Commit
  <1>3. CASE Refuse(d)
    <2>1. FALSE \in BOOLEAN
      OBVIOUS
    <2> QED BY <1>1, <1>3, <2>1 DEF Refuse
  <1>4. CASE \E k \in DOMAIN gets[d] : Resolve(d, k)
    BY <1>1, <1>4
  <1>5. CASE \E k \in DOMAIN gets[d] : Lose(d, k)
    BY <1>1, <1>5 DEF Lose
  <1> QED BY <1>1, <1>2, <1>3, <1>4, <1>5 DEF Network, Serve, Fail

LEMMA DeliverTypes ==
    ASSUME TypesInv, NEW d \in Devices, Deliver(d), hasty' = hasty
    PROVE  TypesInv'
  BY DeliverCases, AnswerTypes, ResolveTypes, LoseTypes

-----------------------------------------------------------------------------
(* The blocks, one by one: what runs, what it sends, and the types.        *)

\* The state that a block changes is of its type.
LEMMA BlockTypes ==
    ASSUME TypesInv, FlightOK', docs' = docs, hasty' = hasty, shares' = shares, screens' = screens,
           feed' \in [Devices -> SUBSET FeedPosts], open' \in [Devices -> BOOLEAN],
           \A d \in Devices : open'[d] => open[d],
           hud' \in [Devices -> Huds(PostViews)], silent' \in [Devices -> SUBSET PostIds]
    PROVE  TypesInv'
  BY DEF TypesInv, StateOK

LEMMA uploadedRuns ==
    ASSUME TypesInv, NEW d \in Devices, uploaded(d), hasty' = hasty
    PROVE  /\ TypesInv'
           /\ \E b \in UploadBlocks :
                Ran(d, b, <<setData(PostDoc(b.then.p), UidOf[d], Shared(b.then.k))>>, <<>>)
  <1>1. FlightOK /\ Due(d, "uploaded")
    BY DEF TypesInv, uploaded
  <1>2. PICK b : b = Head(mainq[d])
    OBVIOUS
  <1>3. mainq[d] # <<>> /\ b \in UploadBlocks /\ Block(d) = b.then
    BY <1>1, <1>2, DueBlock, KindOfBlock
  <1>4. PICK w : w = setData(PostDoc(b.then.p), UidOf[d], Shared(b.then.k))
    OBVIOUS
  <1>5. w \in PostWrites
    <2>1. b.then \in UploadThens /\ b.then.p \in NewIds /\ b.then.k \in Screens
      BY <1>3, BlockKinds, ThenFacts
    <2> QED BY <2>1, <1>4, SentFacts, FeedPostFacts, WriteClasses
  <1>6. Take(d, <<w>>, <<>>) /\ UNCHANGED appVars
    BY <1>3, <1>4 DEF uploaded
  <1>7. <<w>> \in Seq(PostWrites) /\ <<>> \in Seq(PostReads) /\ calls' = calls
    BY <1>5, <1>6 DEF appVars
  <1>8. FlightOK' /\ Ran(d, b, <<w>>, <<>>)
    BY <1>1, <1>2, <1>3, <1>6, <1>7, RunBlock
  <1>9. docs' = docs
    BY <1>6 DEF Take
  <1>10. TypesInv'
    BY <1>8, <1>9, <1>6 DEF TypesInv, StateOK, appVars
  <1> QED BY <1>3, <1>4, <1>8, <1>10

LEMMA sharedRuns ==
    ASSUME TypesInv, NEW d \in Devices, shared(d), hasty' = hasty
    PROVE  /\ TypesInv'
           /\ \E b \in SharedBlocks :
                /\ Ran(d, b, <<>>, IF b.res THEN <<FeedRead>> ELSE <<>>)
                /\ b.res => /\ feed' = [feed EXCEPT ![d] = {}]
                            /\ open' = [open EXCEPT ![d] = @ /\ b.then.k # screens[d]]
                /\ ~b.res => feed' = feed /\ open' = open
                /\ hudBecomes(d, IF b.res THEN hud[d] ELSE dismiss(hud[d]))
  <1>1. FlightOK /\ Due(d, "shared")
    BY DEF TypesInv, shared
  <1>2. PICK b : b = Head(mainq[d])
    OBVIOUS
  <1>3. mainq[d] # <<>> /\ b \in SharedBlocks /\ Block(d) = b.then /\ Result(d) = b.res
    BY <1>1, <1>2, DueBlock, KindOfBlock
  <1>4. /\ Take(d, <<>>, IF b.res THEN <<FeedRead>> ELSE <<>>)
        /\ b.res => /\ feed' = [feed EXCEPT ![d] = {}]
                    /\ open' = [open EXCEPT ![d] = @ /\ b.then.k # screens[d]]
        /\ ~b.res => feed' = feed /\ open' = open
        /\ hudBecomes(d, IF b.res THEN hud[d] ELSE dismiss(hud[d]))
    BY <1>3 DEF shared, refresh, fetchPosts, FeedRead
  <1>5. UNCHANGED <<calls, screens, silent, shares>>
    BY DEF shared
  <1>6. <<>> \in Seq(PostWrites) /\ (IF b.res THEN <<FeedRead>> ELSE <<>>) \in Seq(PostReads)
    BY ReadCases
  <1>7. FlightOK' /\ Ran(d, b, <<>>, IF b.res THEN <<FeedRead>> ELSE <<>>)
    BY <1>1, <1>2, <1>3, <1>4, <1>5, <1>6, RunBlock
  <1>8. docs' = docs
    BY <1>4 DEF Take
  <1>9. /\ feed \in [Devices -> SUBSET FeedPosts] /\ open \in [Devices -> BOOLEAN]
        /\ hud \in [Devices -> Huds(PostViews)] /\ silent \in [Devices -> SUBSET PostIds]
    BY DEF TypesInv, StateOK
  <1>10. feed' \in [Devices -> SUBSET FeedPosts]
    BY <1>4, <1>9
  <1>11. open' \in [Devices -> BOOLEAN] /\ \A e \in Devices : open'[e] => open[e]
    BY <1>4, <1>9
  <1>12. hud' \in [Devices -> Huds(PostViews)]
    <2>1. PICK h : h = IF b.res THEN hud[d] ELSE dismiss(hud[d])
      OBVIOUS
    <2>2. h \in Huds(PostViews)
      BY <1>9, <2>1, HudFacts
    <2>3. hudBecomes(d, h)
      BY <1>4, <2>1
    <2> QED BY <1>9, <2>2, <2>3, BecomesFacts
  <1>13. TypesInv'
    BY <1>5, <1>7, <1>8, <1>9, <1>10, <1>11, <1>12, BlockTypes
  <1> QED BY <1>3, <1>4, <1>7, <1>13

LEMMA fetchedPostsRuns ==
    ASSUME TypesInv, NEW d \in Devices, fetchedPosts(d), hasty' = hasty
    PROVE  /\ TypesInv'
           /\ \E b \in FeedBlocks :
                /\ Ran(d, b, <<>>, <<>>)
                /\ feed' = [feed EXCEPT ![d] = {Post(p, b.res[PostDoc(p)]) :
                               p \in {q \in PostIds : b.res[PostDoc(q)] # NoDoc}}]
  <1>1. FlightOK /\ Due(d, "fetchedPosts")
    BY DEF TypesInv, fetchedPosts
  <1>2. PICK b : b = Head(mainq[d])
    OBVIOUS
  <1>3. mainq[d] # <<>> /\ b \in FeedBlocks /\ Result(d) = b.res
    BY <1>1, <1>2, DueBlock, KindOfBlock
  <1> DEFINE F == {Post(p, b.res[PostDoc(p)]) : p \in {q \in PostIds : b.res[PostDoc(q)] # NoDoc}}
  <1>4. feed' = [feed EXCEPT ![d] = F] /\ Take(d, <<>>, <<>>)
    BY <1>3 DEF fetchedPosts
  <1>5. UNCHANGED <<calls, screens, open, hud, silent, shares>>
    BY DEF fetchedPosts
  <1>6. F \subseteq FeedPosts
    <2>1. ASSUME NEW p \in PostIds, b.res[PostDoc(p)] # NoDoc PROVE Post(p, b.res[PostDoc(p)]) \in FeedPosts
      <3>1. b.res \in [PostDocs -> Contents] /\ PostDoc(p) \in PostDocs
        BY <1>3, BlockKinds, PathFacts
      <3>2. b.res[PostDoc(p)] \in Users
        BY <3>1, <2>1 DEF Contents
      <3> QED BY <3>2, FeedPostFacts
    <2> QED BY <2>1
  <1>7. FlightOK' /\ Ran(d, b, <<>>, <<>>)
    <2>1. <<>> \in Seq(PostWrites) /\ <<>> \in Seq(PostReads)
      OBVIOUS
    <2> QED BY <1>1, <1>2, <1>3, <1>4, <1>5, <2>1, RunBlock
  <1>8. docs' = docs
    BY <1>4 DEF Take
  <1> HIDE DEF F
  <1>9. TypesInv'
    BY <1>4, <1>5, <1>6, <1>7, <1>8 DEF TypesInv, StateOK
  <1> QED BY <1>3, <1>4, <1>7, <1>9 DEF F

LEMMA foundLikesRuns ==
    ASSUME TypesInv, NEW d \in Devices, foundLikes(d), hasty' = hasty
    PROVE  /\ TypesInv' /\ UNCHANGED appVars
           /\ \E p \in PostIds : \E b \in LikesBlocks(p) : \E U \in SUBSET Users :
                /\ U = {u \in Users : b.res[PostLike(p, u)] # NoDoc}
                /\ Ran(d, b, IF U = {} THEN <<>> ELSE <<deleteAll({UserLike(u, p) : u \in U}, NoThen)>>, <<>>)
  <1>1. FlightOK /\ Due(d, "foundLikes") /\ UNCHANGED appVars
    BY DEF TypesInv, foundLikes
  <1>2. PICK b : b = Head(mainq[d])
    OBVIOUS
  <1>3. /\ mainq[d] # <<>> /\ Result(d) = b.res /\ Block(d) = b.then
        /\ b.then.p \in PostIds /\ b \in LikesBlocks(b.then.p)
    BY <1>1, <1>2, DueBlock, KindOfBlock
  <1>4. PICK p \in PostIds : p = b.then.p
    BY <1>3
  <1>5. PICK U \in SUBSET Users : U = {u \in Users : b.res[PostLike(p, u)] # NoDoc}
    OBVIOUS
  <1>6. PICK w : w = deleteAll({UserLike(u, p) : u \in U}, NoThen)
    OBVIOUS
  <1>7. Take(d, IF U = {} THEN <<>> ELSE <<w>>, <<>>)
    BY <1>3, <1>4, <1>5, <1>6 DEF foundLikes
  <1>8. w \in PostWrites
    <2>1. {UserLike(u, p) : u \in U} \in SUBSET UserLikes(p)
      BY DEF UserLikes
    <2> QED BY <2>1, <1>6, SentFacts, WriteClasses
  <1>9. (IF U = {} THEN <<>> ELSE <<w>>) \in Seq(PostWrites) /\ <<>> \in Seq(PostReads) /\ calls' = calls
    BY <1>1, <1>8 DEF appVars
  <1>10. FlightOK' /\ Ran(d, b, IF U = {} THEN <<>> ELSE <<w>>, <<>>)
    BY <1>1, <1>2, <1>3, <1>7, <1>9, RunBlock
  <1>11. docs' = docs
    BY <1>7 DEF Take
  <1>12. TypesInv'
    BY <1>1, <1>10, <1>11 DEF TypesInv, StateOK, appVars
  <1> QED BY <1>1, <1>3, <1>4, <1>5, <1>6, <1>10, <1>12

LEMMA postDeletedRuns ==
    ASSUME TypesInv, NEW d \in Devices, postDeleted(d), hasty' = hasty
    PROVE  /\ TypesInv' /\ UNCHANGED appVars
           /\ \E p \in PostIds : \E b \in DropBlocks(p) : Ran(d, b, <<>>, <<FeedsRead(p)>>)
  <1>1. FlightOK /\ Due(d, "postDeleted") /\ UNCHANGED appVars
    BY DEF TypesInv, postDeleted
  <1>2. PICK b : b = Head(mainq[d])
    OBVIOUS
  <1>3. mainq[d] # <<>> /\ Block(d) = b.then /\ b.then.p \in PostIds /\ b \in DropBlocks(b.then.p)
    BY <1>1, <1>2, DueBlock, KindOfBlock
  <1>4. PICK p \in PostIds : p = b.then.p
    BY <1>3
  <1>5. Take(d, <<>>, <<FeedsRead(p)>>)
    BY <1>3, <1>4 DEF postDeleted, FeedsRead
  <1>6. <<>> \in Seq(PostWrites) /\ <<FeedsRead(p)>> \in Seq(PostReads) /\ calls' = calls
    BY <1>1, ReadCases DEF appVars
  <1>7. FlightOK' /\ Ran(d, b, <<>>, <<FeedsRead(p)>>)
    BY <1>1, <1>2, <1>3, <1>5, <1>6, RunBlock
  <1>8. docs' = docs
    BY <1>5 DEF Take
  <1>9. TypesInv'
    BY <1>1, <1>7, <1>8 DEF TypesInv, StateOK, appVars
  <1> QED BY <1>1, <1>3, <1>4, <1>7, <1>9

LEMMA foundFeedsRuns ==
    ASSUME TypesInv, NEW d \in Devices, foundFeeds(d), hasty' = hasty
    PROVE  /\ TypesInv' /\ UNCHANGED appVars
           /\ \E p \in PostIds : \E b \in FeedsBlocks(p) : Ran(d, b, <<>>, <<NotesRead(p)>>)
  <1>1. FlightOK /\ Due(d, "foundFeeds") /\ UNCHANGED appVars
    BY DEF TypesInv, foundFeeds
  <1>2. PICK b : b = Head(mainq[d])
    OBVIOUS
  <1>3. mainq[d] # <<>> /\ Block(d) = b.then /\ b.then.p \in PostIds /\ b \in FeedsBlocks(b.then.p)
    BY <1>1, <1>2, DueBlock, KindOfBlock
  <1>4. PICK p \in PostIds : p = b.then.p
    BY <1>3
  <1>5. Take(d, <<>>, <<NotesRead(p)>>)
    BY <1>3, <1>4 DEF foundFeeds, NotesRead
  <1>6. <<>> \in Seq(PostWrites) /\ <<NotesRead(p)>> \in Seq(PostReads) /\ calls' = calls
    BY <1>1, ReadCases DEF appVars
  <1>7. FlightOK' /\ Ran(d, b, <<>>, <<NotesRead(p)>>)
    BY <1>1, <1>2, <1>3, <1>5, <1>6, RunBlock
  <1>8. docs' = docs
    BY <1>5 DEF Take
  <1>9. TypesInv'
    BY <1>1, <1>7, <1>8 DEF TypesInv, StateOK, appVars
  <1> QED BY <1>1, <1>3, <1>4, <1>7, <1>9

LEMMA foundNotesRuns ==
    ASSUME TypesInv, NEW d \in Devices, foundNotes(d), hasty' = hasty
    PROVE  /\ TypesInv' /\ UNCHANGED <<calls, feed, screens, open, hud, shares>>
           /\ \E p \in PostIds : \E b \in NotesBlocks(p) : \E N \in SUBSET Notes(p) :
                /\ N = {x \in Notes(p) : b.res[x] # NoDoc}
                /\ Ran(d, b, IF N = {} THEN <<>> ELSE <<deleteAll(N, NoteDeleted)>>, <<>>)
                /\ silent' = IF N = {} THEN [silent EXCEPT ![d] = @ \cup {p}] ELSE silent
  <1>1. FlightOK /\ Due(d, "foundNotes") /\ UNCHANGED <<calls, feed, screens, open, hud, shares>>
    BY DEF TypesInv, foundNotes
  <1>2. PICK b : b = Head(mainq[d])
    OBVIOUS
  <1>3. /\ mainq[d] # <<>> /\ Result(d) = b.res /\ Block(d) = b.then
        /\ b.then.p \in PostIds /\ b \in NotesBlocks(b.then.p)
    BY <1>1, <1>2, DueBlock, KindOfBlock
  <1>4. PICK p \in PostIds : p = b.then.p
    BY <1>3
  <1>5. PICK N \in SUBSET Notes(p) : N = {x \in Notes(p) : b.res[x] # NoDoc}
    OBVIOUS
  <1>6. PICK w : w = deleteAll(N, NoteDeleted)
    OBVIOUS
  <1>7. /\ Take(d, IF N = {} THEN <<>> ELSE <<w>>, <<>>)
        /\ silent' = IF N = {} THEN [silent EXCEPT ![d] = @ \cup {p}] ELSE silent
    BY <1>3, <1>4, <1>5, <1>6 DEF foundNotes
  <1>8. w \in PostWrites
    BY <1>6, SentFacts, WriteClasses
  <1>9. (IF N = {} THEN <<>> ELSE <<w>>) \in Seq(PostWrites) /\ <<>> \in Seq(PostReads) /\ calls' = calls
    BY <1>1, <1>8
  <1>10. FlightOK' /\ Ran(d, b, IF N = {} THEN <<>> ELSE <<w>>, <<>>)
    BY <1>1, <1>2, <1>3, <1>7, <1>9, RunBlock
  <1>11. docs' = docs
    BY <1>7 DEF Take
  <1>12. silent' \in [Devices -> SUBSET PostIds]
    BY <1>7 DEF TypesInv, StateOK
  <1>13. TypesInv'
    BY <1>1, <1>10, <1>11, <1>12 DEF TypesInv, StateOK
  <1> QED BY <1>1, <1>3, <1>4, <1>5, <1>6, <1>7, <1>10, <1>13

LEMMA noteDeletedRuns ==
    ASSUME TypesInv, NEW d \in Devices, noteDeleted(d), hasty' = hasty
    PROVE  /\ TypesInv'
           /\ \E b \in NoteBlocks : Ran(d, b, <<>>, <<FeedRead>>)
           /\ feed' = [feed EXCEPT ![d] = {}] /\ hud' = [hud EXCEPT ![d] = dismiss(@)]
           /\ UNCHANGED <<calls, screens, open, silent, shares>>
  <1>1. FlightOK /\ Due(d, "noteDeleted") /\ UNCHANGED <<calls, screens, open, silent, shares>>
    BY DEF TypesInv, noteDeleted
  <1>2. PICK b : b = Head(mainq[d])
    OBVIOUS
  <1>3. mainq[d] # <<>> /\ b \in NoteBlocks
    BY <1>1, <1>2, DueBlock, KindOfBlock
  <1>4. /\ Take(d, <<>>, <<FeedRead>>) /\ feed' = [feed EXCEPT ![d] = {}]
        /\ hud' = [hud EXCEPT ![d] = dismiss(@)]
    BY DEF noteDeleted, refresh, fetchPosts, FeedRead
  <1>5. <<>> \in Seq(PostWrites) /\ <<FeedRead>> \in Seq(PostReads)
    BY ReadCases
  <1>6. FlightOK' /\ Ran(d, b, <<>>, <<FeedRead>>)
    BY <1>1, <1>2, <1>3, <1>4, <1>5, RunBlock
  <1>7. docs' = docs
    BY <1>4 DEF Take
  <1>8. hud' \in [Devices -> Huds(PostViews)] /\ feed' \in [Devices -> SUBSET FeedPosts]
    BY <1>4, HudFacts DEF TypesInv, StateOK
  <1>9. TypesInv'
    BY <1>1, <1>6, <1>7, <1>8 DEF TypesInv, StateOK
  <1> QED BY <1>1, <1>3, <1>4, <1>6, <1>9

LEMMA markedPostRuns ==
    ASSUME TypesInv, NEW d \in Devices, markedPost(d), hasty' = hasty
    PROVE  /\ TypesInv' /\ UNCHANGED appVars
           /\ \E p \in PostIds : \E b \in MarkBlocks(p) : \E w \in LikeWrites(p, UidOf[d]) : Ran(d, b, <<w>>, <<>>)
  <1>1. FlightOK /\ Due(d, "markedPost") /\ UNCHANGED appVars
    BY DEF TypesInv, markedPost
  <1>2. PICK b : b = Head(mainq[d])
    OBVIOUS
  <1>3. /\ mainq[d] # <<>> /\ Block(d) = b.then /\ b.then.post \in FeedPosts
        /\ b.then.post.postId \in PostIds /\ b \in MarkBlocks(b.then.post.postId)
    BY <1>1, <1>2, DueBlock, KindOfBlock
  <1>4. PICK post \in FeedPosts : post = b.then.post
    BY <1>3
  <1>5. PICK w : w = setData(UserLike(UidOf[d], post.postId), UidOf[d], Liked(post))
    OBVIOUS
  <1>6. Take(d, <<w>>, <<>>)
    BY <1>3, <1>4, <1>5 DEF markedPost
  <1>7. w \in LikeWrites(post.postId, UidOf[d]) /\ w \in PostWrites
    BY <1>3, <1>4, <1>5, SentFacts, FeedPostFacts, WriteClasses
  <1>8. <<w>> \in Seq(PostWrites) /\ <<>> \in Seq(PostReads) /\ calls' = calls
    BY <1>1, <1>7 DEF appVars
  <1>9. FlightOK' /\ Ran(d, b, <<w>>, <<>>)
    BY <1>1, <1>2, <1>3, <1>6, <1>8, RunBlock
  <1>10. docs' = docs
    BY <1>6 DEF Take
  <1>11. TypesInv'
    BY <1>1, <1>9, <1>10 DEF TypesInv, StateOK, appVars
  <1> QED BY <1>1, <1>3, <1>4, <1>7, <1>9, <1>11

LEMMA likedRuns ==
    ASSUME TypesInv, NEW d \in Devices, liked(d), hasty' = hasty
    PROVE  /\ TypesInv' /\ UNCHANGED appVars
           /\ \E p \in PostIds : \E b \in LikedBlocks(p) :
                \/ Ran(d, b, <<>>, <<>>)
                \/ \E w \in NoteWrites(p, UidOf[d]) : Ran(d, b, <<w>>, <<>>)
  <1>1. FlightOK /\ Due(d, "liked") /\ UNCHANGED appVars
    BY DEF TypesInv, liked
  <1>2. PICK b : b = Head(mainq[d])
    OBVIOUS
  <1>3. /\ mainq[d] # <<>> /\ Block(d) = b.then /\ b.then.post \in FeedPosts
        /\ b.then.post.postId \in PostIds /\ b \in LikedBlocks(b.then.post.postId)
    BY <1>1, <1>2, DueBlock, KindOfBlock
  <1>4. PICK post \in FeedPosts : post = b.then.post
    BY <1>3
  <1>5. PICK w : w = setData(NoteDoc(post.postId, UidOf[d]), UidOf[d], NoThen)
    OBVIOUS
  <1>6. PICK ws : ws = IF post.ownerUid = UidOf[d] THEN <<>> ELSE <<w>>
    OBVIOUS
  <1>7. Take(d, ws, <<>>)
    BY <1>3, <1>4, <1>5, <1>6 DEF liked, uploadNotification
  <1>8. w \in NoteWrites(post.postId, UidOf[d]) /\ w \in PostWrites
    BY <1>3, <1>4, <1>5, SentFacts, FeedPostFacts, WriteClasses
  <1>9. ws \in Seq(PostWrites) /\ <<>> \in Seq(PostReads) /\ calls' = calls
    BY <1>1, <1>6, <1>8 DEF appVars
  <1>10. FlightOK' /\ Ran(d, b, ws, <<>>)
    BY <1>1, <1>2, <1>3, <1>7, <1>9, RunBlock
  <1>11. docs' = docs
    BY <1>7 DEF Take
  <1>12. TypesInv'
    BY <1>1, <1>10, <1>11 DEF TypesInv, StateOK, appVars
  <1>13. Ran(d, b, <<>>, <<>>) \/ Ran(d, b, <<w>>, <<>>)
    BY <1>6, <1>10
  <1> QED BY <1>1, <1>3, <1>4, <1>8, <1>12, <1>13

-----------------------------------------------------------------------------
(* Touches, the animation and Storage.                                     *)

LEMMA didFinishPickingMediaTypes ==
    ASSUME TypesInv, NEW d \in Devices, didFinishPickingMedia(d), hasty' \in BOOLEAN
    PROVE  /\ TypesInv'
           /\ screens'[d] = screens[d] + 1 /\ open'[d]
           /\ \A e \in Devices \ {d} : screens'[e] = screens[e] /\ open'[e] = open[e]
  <1>1. /\ screens[d] < MaxScreens
        /\ screens' = [screens EXCEPT ![d] = screens[d] + 1] /\ open' = [open EXCEPT ![d] = TRUE]
        /\ UNCHANGED <<docs, queue, gets, mainq, calls, feed, hud, silent, shares>>
    BY DEF didFinishPickingMedia
  <1>2. screens \in [Devices -> 0..MaxScreens] /\ open \in [Devices -> BOOLEAN] /\ MaxScreens \in Nat
    BY PostsAssumption DEF TypesInv, StateOK
  <1>3. screens[d] + 1 \in 0..MaxScreens /\ screens[d] + 1 > 0
    BY <1>1, <1>2
  <1>4. /\ screens' \in [Devices -> 0..MaxScreens] /\ screens'[d] = screens[d] + 1
        /\ \A e \in Devices \ {d} : screens'[e] = screens[e]
    BY <1>1, <1>2, <1>3
  <1>5. open' \in [Devices -> BOOLEAN] /\ open'[d] /\ \A e \in Devices \ {d} : open'[e] = open[e]
    BY <1>1, <1>2
  <1>6. \A e \in Devices : open'[e] => screens'[e] > 0
    BY <1>3, <1>4, <1>5 DEF TypesInv, StateOK
  <1>7. FlightOK'
    BY <1>1 DEF TypesInv, FlightOK
  <1>8. StateOK'
    BY <1>1, <1>4, <1>5, <1>6 DEF TypesInv, StateOK
  <1> QED BY <1>4, <1>5, <1>7, <1>8 DEF TypesInv

LEMMA didTapCancelTypes ==
    ASSUME TypesInv, NEW d \in Devices, didTapCancel(d), hasty' \in BOOLEAN
    PROVE  /\ TypesInv' /\ ~open'[d] /\ hud'[d] \in {hud[d], Hidden}
           /\ \A e \in Devices \ {d} : open'[e] = open[e] /\ hud'[e] = hud[e]
  <1>1. /\ open' = [open EXCEPT ![d] = FALSE] /\ hudBecomes(d, hud[d])
        /\ UNCHANGED <<docs, queue, gets, mainq, calls, feed, screens, silent, shares>>
    BY DEF didTapCancel
  <1>2. open \in [Devices -> BOOLEAN]
    BY DEF TypesInv, StateOK
  <1>3. open' \in [Devices -> BOOLEAN] /\ ~open'[d] /\ \A e \in Devices \ {d} : open'[e] = open[e]
    BY <1>1, <1>2
  <1>4. FlightOK'
    BY <1>1 DEF TypesInv, FlightOK
  <1>5. /\ hud' \in [Devices -> Huds(PostViews)] /\ hud'[d] \in {hud[d], Hidden}
        /\ \A e \in Devices \ {d} : hud'[e] = hud[e]
    <2>1. hud \in [Devices -> Huds(PostViews)] /\ hud[d] \in Huds(PostViews)
      BY DEF TypesInv, StateOK
    <2> QED BY <1>1, <2>1, BecomesFacts
  <1>6. StateOK'
    BY <1>1, <1>3, <1>5 DEF TypesInv, StateOK
  <1> QED BY <1>3, <1>4, <1>5, <1>6 DEF TypesInv

\* The post of the tap on Share is new.
LEMMA didTapDoneTypes ==
    ASSUME TypesInv, NEW d \in Devices, didTapDone(d), hasty' \in BOOLEAN
    PROVE  /\ TypesInv'
           /\ open[d] /\ screens[d] \in Screens /\ UploadView(screens[d]) \in PostViews
           /\ shares \in Nat /\ shares' = shares + 1 /\ shares + 1 \in NewIds
           /\ Range(calls'[d]) = Range(calls[d]) \cup {Uploaded(shares + 1, screens[d])}
           /\ \A e \in Devices \ {d} : calls'[e] = calls[e] /\ hud'[e] = hud[e]
           /\ hud'[d] = show(hud[d], UploadView(screens[d]))
           /\ UNCHANGED <<docs, queue, gets, mainq, feed, screens, open, silent>>
  <1>1. /\ open[d] /\ shares < MaxShares /\ shares' = shares + 1
        /\ hud' = [hud EXCEPT ![d] = show(hud[d], UploadView(screens[d]))]
        /\ calls' = [calls EXCEPT ![d] = Append(calls[d], Uploaded(shares + 1, screens[d]))]
        /\ UNCHANGED <<docs, queue, gets, mainq, feed, screens, open, silent>>
    BY DEF didTapDone
  <1>2. /\ screens[d] \in 0..MaxScreens /\ screens[d] > 0 /\ shares \in 0..MaxShares
        /\ MaxScreens \in Nat /\ MaxShares \in Nat
    BY <1>1, PostsAssumption DEF TypesInv, StateOK
  <1>3. /\ screens[d] \in Screens /\ shares + 1 \in NewIds /\ shares + 1 \in 0..MaxShares
        /\ shares \in Nat
    BY <1>1, <1>2 DEF Screens, NewIds
  <1>4. PICK c : c = Uploaded(shares + 1, screens[d])
    OBVIOUS
  <1>5. c \in UploadThens
    BY <1>3, <1>4 DEF UploadThens
  <1>6. calls \in QueuesOf(UploadThens) /\ calls[d] \in Seq(UploadThens)
    BY DEF TypesInv, FlightOK, QueuesOf
  <1>7. Append(calls[d], c) \in Seq(UploadThens) /\ Range(Append(calls[d], c)) = Range(calls[d]) \cup {c}
    BY <1>5, <1>6, RangeOfAppend
  <1>8. calls' = [calls EXCEPT ![d] = Append(calls[d], c)]
    BY <1>1, <1>4
  <1>9. /\ calls' \in QueuesOf(UploadThens) /\ Range(calls'[d]) = Range(calls[d]) \cup {c}
        /\ \A e \in Devices \ {d} : calls'[e] = calls[e]
    BY <1>6, <1>7, <1>8 DEF QueuesOf
  <1>10. UploadView(screens[d]) \in PostViews
    BY <1>3 DEF PostViews
  <1>11. hud \in [Devices -> Huds(PostViews)]
    BY DEF TypesInv, StateOK
  <1>12. show(hud[d], UploadView(screens[d])) \in Huds(PostViews)
    BY <1>10, <1>11, HudFacts
  <1>13. /\ hud' \in [Devices -> Huds(PostViews)] /\ hud'[d] = show(hud[d], UploadView(screens[d]))
         /\ \A e \in Devices \ {d} : hud'[e] = hud[e]
    BY <1>1, <1>11, <1>12
  <1>14. FlightOK'
    BY <1>1, <1>9 DEF TypesInv, FlightOK
  <1>15. StateOK'
    BY <1>1, <1>3, <1>13 DEF TypesInv, StateOK
  <1> QED BY <1>1, <1>3, <1>4, <1>9, <1>10, <1>13, <1>14, <1>15 DEF TypesInv

LEMMA handleRefreshTypes ==
    ASSUME TypesInv, NEW d \in Devices, handleRefresh(d), hasty' \in BOOLEAN
    PROVE  /\ TypesInv' /\ Issued(d, <<>>, <<FeedRead>>)
           /\ feed' = [feed EXCEPT ![d] = {}]
           /\ UNCHANGED <<calls, screens, open, hud, silent, shares>>
  <1>1. /\ Issue(d, <<>>, <<FeedRead>>) /\ feed' = [feed EXCEPT ![d] = {}]
        /\ UNCHANGED <<calls, screens, open, hud, silent, shares>>
    BY DEF handleRefresh, fetchPosts, FeedRead
  <1>2. queue \in QueuesOf(PostWrites) /\ gets \in QueuesOf(PostReads)
    BY DEF TypesInv, FlightOK
  <1>3. <<>> \in Seq(PostWrites) /\ <<FeedRead>> \in Seq(PostReads)
    BY ReadCases
  <1>4. /\ queue' \in QueuesOf(PostWrites) /\ gets' \in QueuesOf(PostReads)
        /\ Issued(d, <<>>, <<FeedRead>>)
    BY <1>1, <1>2, <1>3, IssueOne
  <1>5. docs' = docs /\ mainq' = mainq
    BY <1>4 DEF Issued
  <1>6. FlightOK'
    BY <1>1, <1>4, <1>5 DEF TypesInv, FlightOK
  <1>7. feed' \in [Devices -> SUBSET FeedPosts]
    BY <1>1 DEF TypesInv, StateOK
  <1>8. StateOK'
    BY <1>1, <1>5, <1>7 DEF TypesInv, StateOK
  <1> QED BY <1>1, <1>4, <1>6, <1>8 DEF TypesInv

LEMMA deletePostTypes ==
    ASSUME TypesInv, NEW d \in Devices, NEW post \in feed[d], deletePost(d, post), hasty' \in BOOLEAN
    PROVE  /\ TypesInv'
           /\ \E p \in PostIds : \E w \in DropWrites(p) :
                post.postId = p /\ post.ownerUid = UidOf[d] /\ Issued(d, <<w>>, <<LikesRead(p)>>)
           /\ hud'[d] = show(hud[d], FeedView) /\ \A e \in Devices \ {d} : hud'[e] = hud[e]
           /\ UNCHANGED <<calls, feed, screens, open, silent, shares>>
  <1>1. post \in FeedPosts
    BY DEF TypesInv, StateOK
  <1>2. PICK p \in PostIds : p = post.postId
    BY <1>1, FeedPostFacts
  <1>3. PICK w : w = delete(PostDoc(p), PostDeleted(p))
    OBVIOUS
  <1>4. w \in DropWrites(p) /\ w \in PostWrites
    BY <1>3, SentFacts, WriteClasses
  <1>5. /\ Issue(d, <<w>>, <<LikesRead(p)>>) /\ post.ownerUid = UidOf[d]
        /\ hud' = [hud EXCEPT ![d] = show(hud[d], FeedView)]
        /\ UNCHANGED <<calls, feed, screens, open, silent, shares>>
    BY <1>2, <1>3 DEF deletePost, deletePostCalls, LikesRead
  <1>6. queue \in QueuesOf(PostWrites) /\ gets \in QueuesOf(PostReads)
    BY DEF TypesInv, FlightOK
  <1>7. <<w>> \in Seq(PostWrites) /\ <<LikesRead(p)>> \in Seq(PostReads)
    BY <1>4, ReadCases
  <1>8. /\ queue' \in QueuesOf(PostWrites) /\ gets' \in QueuesOf(PostReads)
        /\ Issued(d, <<w>>, <<LikesRead(p)>>)
    BY <1>5, <1>6, <1>7, IssueOne
  <1>9. docs' = docs /\ mainq' = mainq
    BY <1>8 DEF Issued
  <1>10. FlightOK'
    BY <1>5, <1>8, <1>9 DEF TypesInv, FlightOK
  <1>11. hud \in [Devices -> Huds(PostViews)]
    BY DEF TypesInv, StateOK
  <1>12. show(hud[d], FeedView) \in Huds(PostViews)
    BY <1>11, HudFacts DEF PostViews
  <1>13. /\ hud' \in [Devices -> Huds(PostViews)] /\ hud'[d] = show(hud[d], FeedView)
         /\ \A e \in Devices \ {d} : hud'[e] = hud[e]
    BY <1>5, <1>11, <1>12
  <1>14. StateOK'
    BY <1>5, <1>9, <1>13 DEF TypesInv, StateOK
  <1> QED BY <1>2, <1>4, <1>5, <1>8, <1>10, <1>13, <1>14 DEF TypesInv

LEMMA didLikeTypes ==
    ASSUME TypesInv, NEW d \in Devices, NEW post \in feed[d], didLike(d, post), hasty' \in BOOLEAN
    PROVE  /\ TypesInv'
           /\ \E p \in PostIds : \E c \in CountWrites(p) : \E w \in MarkWrites(p, UidOf[d]) :
                post.postId = p /\ c.data = post.ownerUid /\ Issued(d, <<c, w>>, <<>>)
           /\ UNCHANGED <<calls, feed, screens, open, hud, silent, shares>>
  <1>1. post \in FeedPosts
    BY DEF TypesInv, StateOK
  <1>2. PICK p \in PostIds : p = post.postId
    BY <1>1, FeedPostFacts
  <1>3. PICK c : c = updateData(PostDoc(p), post.ownerUid)
    OBVIOUS
  <1>4. PICK w : w = setData(PostLike(post.postId, UidOf[d]), UidOf[d], MarkedPost(post))
    OBVIOUS
  <1>5. c \in CountWrites(p) /\ c \in PostWrites /\ c.data = post.ownerUid
    <2>1. c.data = post.ownerUid
      BY <1>3 DEF updateData, Write
    <2> QED BY <1>1, <1>3, <2>1, FeedPostFacts, SentFacts, WriteClasses
  <1>6. w \in MarkWrites(p, UidOf[d]) /\ w \in PostWrites
    BY <1>1, <1>2, <1>4, FeedPostFacts, SentFacts, WriteClasses
  <1>7. /\ Issue(d, <<c, w>>, <<>>)
        /\ UNCHANGED <<calls, feed, screens, open, hud, silent, shares>>
    BY <1>2, <1>3, <1>4 DEF didLike, likePost
  <1>8. queue \in QueuesOf(PostWrites) /\ gets \in QueuesOf(PostReads)
    BY DEF TypesInv, FlightOK
  <1>9. <<c, w>> \in Seq(PostWrites) /\ <<>> \in Seq(PostReads)
    BY <1>5, <1>6
  <1>10. /\ queue' \in QueuesOf(PostWrites) /\ gets' \in QueuesOf(PostReads)
         /\ Issued(d, <<c, w>>, <<>>)
    BY <1>7, <1>8, <1>9, IssueOne
  <1>11. docs' = docs /\ mainq' = mainq
    BY <1>10 DEF Issued
  <1>12. FlightOK'
    BY <1>7, <1>10, <1>11 DEF TypesInv, FlightOK
  <1>13. StateOK'
    BY <1>7, <1>11 DEF TypesInv, StateOK
  <1> QED BY <1>2, <1>5, <1>6, <1>7, <1>10, <1>12, <1>13 DEF TypesInv

LEMMA AnimateTypes ==
    ASSUME TypesInv, NEW d \in Devices, Animate(d), hasty' = hasty
    PROVE  /\ TypesInv' /\ Animating(hud[d])
           /\ hud'[d] = IF hud[d].view \in Alive(d) THEN animated(hud[d]) ELSE Hidden
           /\ \A e \in Devices \ {d} : hud'[e] = hud[e]
           /\ UNCHANGED <<docs, queue, gets, mainq, calls, feed, screens, open, silent, shares>>
  <1> DEFINE g == IF hud[d].view \in Alive(d) THEN animated(hud[d]) ELSE Hidden
  <1>1. /\ Animating(hud[d]) /\ hud' = [hud EXCEPT ![d] = g]
        /\ UNCHANGED <<docs, queue, gets, mainq, calls, feed, screens, open, silent, shares>>
    BY DEF Animate
  <1>2. hud \in [Devices -> Huds(PostViews)]
    BY DEF TypesInv, StateOK
  <1>3. g \in Huds(PostViews)
    BY <1>1, <1>2, HudFacts
  <1>4. /\ hud' \in [Devices -> Huds(PostViews)] /\ hud'[d] = g
        /\ \A e \in Devices \ {d} : hud'[e] = hud[e]
    BY <1>1, <1>2, <1>3
  <1>5. FlightOK'
    BY <1>1 DEF TypesInv, FlightOK
  <1>6. StateOK'
    BY <1>1, <1>4 DEF TypesInv, StateOK
  <1> QED BY <1>1, <1>4, <1>5, <1>6 DEF TypesInv

\* The upload c of d is answered.
LEMMA StorageTypes ==
    ASSUME TypesInv, NEW d \in Devices, NEW i \in DOMAIN calls[d], StorageAnswer(d, i), hasty' = hasty
    PROVE  /\ TypesInv'
           /\ UNCHANGED <<docs, queue, gets, feed, screens, open, silent, shares>>
           /\ \A e \in Devices \ {d} : calls'[e] = calls[e] /\ mainq'[e] = mainq[e] /\ hud'[e] = hud[e]
           /\ hud'[d] \in {hud[d], Hidden}
           /\ \E c \in UploadThens :
                /\ Range(calls[d]) = {c} \cup Range(calls'[d])
                /\ \/ Failures /\ mainq' = mainq
                   \/ \E b \in UploadBlocks :
                        /\ b.then = c /\ mainq'[d] = Append(mainq[d], b)
                        /\ Range(mainq'[d]) = Range(mainq[d]) \cup {b}
  <1>1. calls \in QueuesOf(UploadThens) /\ calls[d] \in Seq(UploadThens) /\ mainq \in QueuesOf(PostBlocks)
    BY DEF TypesInv, FlightOK, QueuesOf
  <1>2. PICK c : c = calls[d][i]
    OBVIOUS
  <1>3. PICK b : b = [then |-> c, res |-> TRUE]
    OBVIOUS
  <1>4. /\ calls' = [calls EXCEPT ![d] = RemoveAt(calls[d], i)]
        /\ \/ mainq' = [mainq EXCEPT ![d] = Append(mainq[d], b)]
           \/ Failures /\ mainq' = mainq
        /\ hudBecomes(d, hud[d])
        /\ UNCHANGED <<docs, queue, gets, feed, screens, open, silent, shares>>
    BY <1>2, <1>3 DEF StorageAnswer
  <1>5. /\ c \in UploadThens /\ RemoveAt(calls[d], i) \in Seq(UploadThens)
        /\ Range(calls[d]) = {c} \cup Range(RemoveAt(calls[d], i))
    BY <1>1, <1>2, RangeOfRemoveAt
  <1>6. /\ calls' \in QueuesOf(UploadThens) /\ calls'[d] = RemoveAt(calls[d], i)
        /\ \A e \in Devices \ {d} : calls'[e] = calls[e]
    BY <1>1, <1>4, <1>5 DEF QueuesOf
  <1>7. b \in UploadBlocks /\ b.then = c /\ b \in PostBlocks
    BY <1>3, <1>5 DEF UploadBlocks, PostBlocks
  <1>8. mainq[d] \in Seq(PostBlocks)
    BY <1>1 DEF QueuesOf
  <1>9. /\ Append(mainq[d], b) \in Seq(PostBlocks)
        /\ Range(Append(mainq[d], b)) = Range(mainq[d]) \cup {b}
    BY <1>7, <1>8, RangeOfAppend
  <1>10. /\ mainq' \in QueuesOf(PostBlocks)
         /\ \A e \in Devices \ {d} : mainq'[e] = mainq[e]
         /\ \/ Failures /\ mainq' = mainq
            \/ /\ mainq'[d] = Append(mainq[d], b)
               /\ Range(mainq'[d]) = Range(mainq[d]) \cup {b}
    BY <1>1, <1>4, <1>9 DEF QueuesOf
  <1>11. FlightOK'
    BY <1>4, <1>6, <1>10 DEF TypesInv, FlightOK
  <1>12. /\ hud' \in [Devices -> Huds(PostViews)] /\ hud'[d] \in {hud[d], Hidden}
         /\ \A e \in Devices \ {d} : hud'[e] = hud[e]
    <2>1. hud \in [Devices -> Huds(PostViews)] /\ hud[d] \in Huds(PostViews)
      BY DEF TypesInv, StateOK
    <2> QED BY <1>4, <2>1, BecomesFacts
  <1>13. StateOK'
    BY <1>4, <1>12 DEF TypesInv, StateOK
  <1>14. Range(calls[d]) = {c} \cup Range(calls'[d])
    BY <1>5, <1>6
  <1> QED BY <1>4, <1>5, <1>6, <1>7, <1>10, <1>11, <1>12, <1>13, <1>14 DEF TypesInv

-----------------------------------------------------------------------------
(* The types are kept.                                                     *)

\* What a touch remembers of the moment it comes.
LEMMA RememberFacts ==
    ASSUME TypesInv, NEW waited \in BOOLEAN, Remember(waited)
    PROVE  hasty' \in BOOLEAN /\ (~hasty' => ~hasty /\ waited /\ \A e \in Devices : Settled(e))
  BY DEF Remember, TypesInv, StateOK

LEMMA TouchTypes ==
    ASSUME TypesInv, NEW d \in Devices, Touch(d)
    PROVE  TypesInv'
  <1>1. CASE /\ didFinishPickingMedia(d) \/ didTapCancel(d) \/ didTapDone(d) \/ handleRefresh(d)
             /\ Remember(TRUE)
    <2>1. hasty' \in BOOLEAN
      BY <1>1, RememberFacts
    <2> QED BY <1>1, <2>1, didFinishPickingMediaTypes, didTapCancelTypes, didTapDoneTypes, handleRefreshTypes
  <1>2. ASSUME NEW post \in feed[d], deletePost(d, post), Remember(TRUE) PROVE TypesInv'
    <2>1. hasty' \in BOOLEAN
      BY <1>2, RememberFacts
    <2> QED BY <1>2, <2>1, deletePostTypes
  <1>3. ASSUME NEW post \in feed[d], didLike(d, post), Remember(Exists(post.postId)) PROVE TypesInv'
    <2>1. hasty' \in BOOLEAN
      <3>1. Exists(post.postId) \in BOOLEAN
        BY DEF Exists
      <3> QED BY <1>3, <3>1, RememberFacts
    <2> QED BY <1>3, <2>1, didLikeTypes
  <1> QED BY <1>1, <1>2, <1>3 DEF Touch

LEMMA MainQueueTypes ==
    ASSUME TypesInv, NEW d \in Devices, MainQueue(d), hasty' = hasty
    PROVE  TypesInv'
  <1>1. CASE uploaded(d) \/ shared(d) \/ fetchedPosts(d)
    BY <1>1, uploadedRuns, sharedRuns, fetchedPostsRuns
  <1>2. CASE foundLikes(d) \/ postDeleted(d) \/ foundFeeds(d) \/ foundNotes(d) \/ noteDeleted(d)
    BY <1>2, foundLikesRuns, postDeletedRuns, foundFeedsRuns, foundNotesRuns, noteDeletedRuns
  <1>3. CASE markedPost(d) \/ liked(d)
    BY <1>3, markedPostRuns, likedRuns
  <1> QED BY <1>1, <1>2, <1>3 DEF MainQueue

LEMMA InitTypes ==
    ASSUME Init
    PROVE  TypesInv
  <1>1. \A S : [d \in Devices |-> <<>>] \in QueuesOf(S)
    BY DEF QueuesOf
  <1>2. FlightOK
    BY <1>1 DEF Init, FlightOK
  <1>3. docs \in [Paths -> Contents] /\ hud \in [Devices -> Huds(PostViews)]
    BY PostsAssumption, HudFacts DEF Init, Contents
  <1>4. feed \in [Devices -> SUBSET FeedPosts]
    BY PostsAssumption, FeedPostFacts DEF Init
  <1>5. /\ screens \in [Devices -> 0..MaxScreens] /\ open \in [Devices -> BOOLEAN]
        /\ \A d \in Devices : open[d] => screens[d] > 0
        /\ silent \in [Devices -> SUBSET PostIds] /\ shares \in 0..MaxShares /\ hasty \in BOOLEAN
    <2>1. 0 \in 0..MaxScreens /\ 0 \in 0..MaxShares
      BY PostsAssumption
    <2>2. FALSE \in BOOLEAN /\ {} \in SUBSET PostIds
      OBVIOUS
    <2>3. /\ screens = [d \in Devices |-> 0] /\ open = [d \in Devices |-> FALSE]
          /\ silent = [d \in Devices |-> {}] /\ shares = 0 /\ hasty = FALSE
      BY DEF Init
    <2> QED BY <2>1, <2>2, <2>3
  <1> QED BY <1>2, <1>3, <1>4, <1>5 DEF TypesInv, StateOK

LEMMA NextTypes ==
    ASSUME TypesInv, [Next]_vars
    PROVE  TypesInv'
  <1>1. CASE UNCHANGED vars
    BY <1>1 DEF vars, appVars, TypesInv, FlightOK, StateOK
  <1>2. ASSUME NEW d \in Devices, Touch(d) PROVE TypesInv'
    BY <1>2, TouchTypes
  <1>3. ASSUME NEW d \in Devices, Step(d), hasty' = hasty PROVE TypesInv'
    <2>1. CASE Deliver(d) \/ MainQueue(d) \/ Animate(d)
      BY <1>3, <2>1, DeliverTypes, MainQueueTypes, AnimateTypes
    <2>2. ASSUME NEW i \in DOMAIN calls[d], StorageAnswer(d, i) PROVE TypesInv'
      BY <1>3, <2>2, StorageTypes
    <2> QED BY <1>3, <2>1, <2>2 DEF Step
  <1> QED BY <1>1, <1>2, <1>3 DEF Next

\* Every variable of the upload and feed screens keeps its type, and everything in
\* flight is one of the calls PostService, NotificationService or ImageUploader makes.
THEOREM TypesSafe == Spec => []TypesInv
  <1>1. Init => TypesInv
    BY InitTypes
  <1>2. TypesInv /\ [Next]_vars => TypesInv'
    BY NextTypes
  <1> QED BY <1>1, <1>2, PTL DEF Spec

-----------------------------------------------------------------------------
(* A deleted post stays deleted.                                           *)

\* The writes of the document of an old post.
LEMMA OldPostWrites ==
    ASSUME NEW w \in PostWrites, NEW p \in OldPosts, PostDoc(p) \in w.paths
    PROVE  w.upd \/ w.data = NoDoc
  <1>1. ASSUME NEW q \in NewIds, w \in StoreWrites(q) PROVE FALSE
    <2>1. PostDoc(p) = PostDoc(q)
      BY <1>1, StoreFacts
    <2> QED BY <2>1, PathsApart, FeedPostFacts
  <1>2. ASSUME NEW q \in PostIds, NEW u \in Users,
               w \in MarkWrites(q, u) \/ w \in LikeWrites(q, u) \/ w \in NoteWrites(q, u)
        PROVE  FALSE
    BY <1>2, MarkFacts, LikeFacts, NoteFacts, PathsApart
  <1>3. ASSUME NEW q \in PostIds, w \in CountWrites(q) PROVE w.upd
    BY <1>3, CountFacts
  <1>4. ASSUME NEW q \in PostIds, w \in DropWrites(q) PROVE w.data = NoDoc
    BY <1>4, DropFacts
  <1>5. ASSUME NEW q \in PostIds, w \in UnlikeWrites(q) PROVE w.data = NoDoc
    BY <1>5, UnlikeFacts
  <1>6. ASSUME NEW q \in PostIds, w \in UnnoteWrites(q) PROVE w.data = NoDoc
    BY <1>6, UnnoteFacts
  <1> QED BY <1>1, <1>2, <1>3, <1>4, <1>5, <1>6, WriteCases

LEMMA DocsOfAnswer ==
    ASSUME TypesInv, NEW d \in Devices, NEW done, NEW w \in PostWrites, NEW path \in w.paths,
           AnsweredPart(d, done, w, path)
    PROVE  \A p \in OldPosts : ~Exists(p) => ~Exists(p)'
  <1>1. /\ done /\ Accepts(w, path) => docs'[path] = w.data
        /\ ~(done /\ Accepts(w, path)) => docs'[path] = docs[path]
        /\ \A x \in Paths : x # path => docs'[x] = docs[x]
    <2>1. docs \in [Paths -> Contents]
      BY DEF TypesInv, StateOK
    <2>2. docs' = IF done /\ Accepts(w, path) THEN [docs EXCEPT ![path] = w.data] ELSE docs
      BY DEF AnsweredPart
    <2> QED BY <2>1, <2>2, AnswerDocs
  <1> SUFFICES ASSUME NEW p \in OldPosts, docs[PostDoc(p)] = NoDoc PROVE docs'[PostDoc(p)] = NoDoc
    BY DEF Exists
  <1>2. PostDoc(p) \in Paths
    BY PathFacts, FeedPostFacts
  <1>3. CASE PostDoc(p) # path
    BY <1>1, <1>2, <1>3
  <1>4. CASE PostDoc(p) = path
    <2>1. w.upd \/ w.data = NoDoc
      BY <1>4, OldPostWrites
    <2> QED BY <1>1, <1>4, <2>1 DEF Accepts
  <1> QED BY <1>3, <1>4

LEMMA StaysDeleted ==
    ASSUME TypesInv, [Next]_vars
    PROVE  \A p \in OldPosts : ~Exists(p) => ~Exists(p)'
  <1>1. CASE docs' = docs
    BY <1>1 DEF Exists
  <1>2. ASSUME NEW d \in Devices, Touch(d) PROVE docs' = docs
    <2>1. CASE didFinishPickingMedia(d) \/ didTapCancel(d) \/ didTapDone(d) \/ handleRefresh(d)
      BY <2>1 DEF didFinishPickingMedia, didTapCancel, didTapDone, handleRefresh, Issue
    <2>2. ASSUME NEW post \in feed[d], deletePost(d, post) \/ didLike(d, post) PROVE docs' = docs
      BY <2>2 DEF deletePost, deletePostCalls, didLike, Issue
    <2> QED BY <1>2, <2>1, <2>2 DEF Touch
  <1>3. ASSUME NEW d \in Devices, MainQueue(d) PROVE docs' = docs
    BY <1>3 DEF MainQueue, uploaded, shared, refresh, fetchedPosts, foundLikes, postDeleted, foundFeeds,
                foundNotes, noteDeleted, markedPost, liked, Take
  <1>4. ASSUME NEW d \in Devices, NEW i \in DOMAIN calls[d], StorageAnswer(d, i) PROVE docs' = docs
    BY <1>4 DEF StorageAnswer
  <1>5. ASSUME NEW d \in Devices, Animate(d) PROVE docs' = docs
    BY <1>5 DEF Animate
  <1>6. ASSUME NEW d \in Devices, Deliver(d), hasty' = hasty
        PROVE  \A p \in OldPosts : ~Exists(p) => ~Exists(p)'
    <2>1. UNCHANGED appVars
      BY <1>6, DeliverCases
    <2>2. ASSUME NEW done \in BOOLEAN, Answer(d, done)
          PROVE  \A p \in OldPosts : ~Exists(p) => ~Exists(p)'
      <3>1. PICK w \in PostWrites : \E path \in w.paths : AnsweredPart(d, done, w, path)
        BY <1>6, <2>1, <2>2, AnswerTypes
      <3>2. PICK path \in w.paths : AnsweredPart(d, done, w, path)
        BY <3>1
      <3> QED BY <3>2, DocsOfAnswer
    <2>3. ASSUME NEW k \in DOMAIN gets[d], Resolve(d, k) \/ Lose(d, k) PROVE docs' = docs
      BY <2>3 DEF Resolve, Lose
    <2> QED BY <1>1, <1>6, <2>2, <2>3, DeliverCases
  <1>7. CASE UNCHANGED vars
    BY <1>1, <1>7 DEF vars
  <1> QED BY <1>1, <1>2, <1>3, <1>4, <1>5, <1>6, <1>7 DEF Next, Step

\* A post that existed at the start and was deleted never exists again, whatever likes,
\* refreshes and refusals are in flight: PostService.likePost updates the counter of a
\* post and the update is refused where there is no document.
THEOREM NoResurrectionSafe == Spec => NoResurrection
  <1>1. TypesInv /\ [Next]_vars => [\A p \in OldPosts : ~Exists(p) => ~Exists(p)']_vars
    BY StaysDeleted
  <1> QED BY <1>1, TypesSafe, PTL DEF Spec, NoResurrection

-----------------------------------------------------------------------------
(* The loader has an owner.                                                *)

\* LoaderInv, for one device.
LoaderAt(d) ==
    /\ \A k \in Screens : hud[d].view = UploadView(k) => k <= screens[d]
    /\ Stays(hud[d]) =>
        /\ hud[d].view = FeedView => silent[d] # {} \/ DeletionComing(d)
        /\ \A k \in Screens : hud[d].view = UploadView(k) => Owned(d, k)

LEMMA LoaderByDevice == LoaderInv <=> \A d \in Devices : LoaderAt(d)
  BY DEF LoaderInv, ViewsOpened, LoaderOwned, LoaderAt

\* What the steps do to the loader.
LEMMA LoaderMoves ==
    /\ ~Stays(Hidden) /\ Hidden.view = NoView
    /\ \A k : FeedView # UploadView(k) /\ \A j : UploadView(j) = UploadView(k) => j = k
    /\ NoView # FeedView /\ \A k \in Screens : NoView # UploadView(k)
    /\ \A h \in Huds(PostViews) :
          /\ ~Stays(dismiss(h)) /\ dismiss(h).view = h.view
          /\ Stays(h) => h.phase \in {"showing", "shown"}
          /\ Animating(h) => /\ Stays(animated(h)) => Stays(h) /\ h.phase = "showing"
                             /\ animated(h).view \in {h.view, NoView}
          /\ \A v : show(h, v).view = v \/ show(h, v) = h
  <1>1. ~Stays(Hidden) /\ Hidden.view = NoView
    BY DEF Stays, Hidden
  <1>2. \A k : FeedView # UploadView(k) /\ \A j : UploadView(j) = UploadView(k) => j = k
    BY DEF FeedView, UploadView
  <1>3. NoView # FeedView /\ \A k \in Screens : NoView # UploadView(k)
    BY PostsAssumption DEF FeedView, UploadView, Screens
  <1>4. ASSUME NEW h \in Huds(PostViews) PROVE ~Stays(dismiss(h)) /\ dismiss(h).view = h.view
    BY DEF Stays, dismiss, Huds, Phases
  <1>5. ASSUME NEW h \in Huds(PostViews), Animating(h)
        PROVE  /\ Stays(animated(h)) => Stays(h) /\ h.phase = "showing"
               /\ animated(h).view \in {h.view, NoView}
    BY <1>5 DEF Stays, animated, Animating, Hidden, Huds, Phases
  <1>6. ASSUME NEW h \in Huds(PostViews), NEW v PROVE show(h, v).view = v \/ show(h, v) = h
    BY DEF show
  <1>7. \A h \in Huds(PostViews) : Stays(h) => h.phase \in {"showing", "shown"}
    BY DEF Stays
  <1> QED BY <1>1, <1>2, <1>3, <1>4, <1>5, <1>6, <1>7

\* A step on another device.
SameLoader(e) ==
    /\ queue'[e] = queue[e] /\ gets'[e] = gets[e] /\ mainq'[e] = mainq[e] /\ calls'[e] = calls[e]
    /\ screens'[e] = screens[e] /\ open'[e] = open[e] /\ hud'[e] = hud[e] /\ silent'[e] = silent[e]

LEMMA LoaderElsewhere ==
    ASSUME NEW e \in Devices, LoaderAt(e), SameLoader(e)
    PROVE  LoaderAt(e)'
  BY DEF LoaderAt, SameLoader, DeletionComing, UploadComing, Owned, Presented

\* The owner is kept or passed on.
LEMMA LoaderKept ==
    ASSUME NEW d \in Devices, LoaderAt(d), screens'[d] = screens[d],
           hud'[d].view \in {hud[d].view, NoView},
           Stays(hud'[d]) =>
              /\ Stays(hud[d])
              /\ silent[d] # {} \/ DeletionComing(d) => silent'[d] # {} \/ DeletionComing(d)'
              /\ \A k \in Screens : hud'[d].view = UploadView(k) /\ Owned(d, k) => Owned(d, k)'
    PROVE  LoaderAt(d)'
  <1>1. NoView # FeedView /\ \A k \in Screens : NoView # UploadView(k)
    BY LoaderMoves
  <1>2. \A k \in Screens : hud'[d].view = UploadView(k) => k <= screens'[d]
    BY <1>1 DEF LoaderAt
  <1>3. ASSUME Stays(hud'[d]), hud'[d].view = FeedView PROVE silent'[d] # {} \/ DeletionComing(d)'
    BY <1>1, <1>3 DEF LoaderAt
  <1>4. ASSUME Stays(hud'[d]), NEW k \in Screens, hud'[d].view = UploadView(k) PROVE Owned(d, k)'
    BY <1>1, <1>4 DEF LoaderAt
  <1> QED BY <1>2, <1>3, <1>4 DEF LoaderAt

\* The loader stays as it is, or goes.
LEMMA LoaderStill ==
    ASSUME NEW d \in Devices, LoaderAt(d), screens'[d] = screens[d], open'[d] => open[d],
           hud'[d] \in {hud[d], Hidden}, UploadsKept(d),
           silent[d] # {} \/ DeletionComing(d) => silent'[d] # {} \/ DeletionComing(d)'
    PROVE  LoaderAt(d)'
  <1>1. ~Stays(Hidden) /\ Hidden.view = NoView
    BY LoaderMoves
  <1>2. CASE hud'[d] = Hidden
    BY <1>1, <1>2, LoaderKept
  <1>3. CASE hud'[d] = hud[d]
    <2>1. ASSUME NEW k \in Screens, Owned(d, k) PROVE Owned(d, k)'
      BY <1>3, <2>1 DEF Owned, UploadsKept, Presented
    <2> QED BY <1>3, <2>1, LoaderKept
  <1> QED BY <1>2, <1>3

\* A block that is no part of an upload or of a deletion runs.
LEMMA ComingKept ==
    ASSUME NEW d \in Devices, NEW b, NEW ws, NEW rs, Ran(d, b, ws, rs),
           calls' = calls, screens' = screens
    PROVE  /\ b \notin UploadBlocks \cup SharedBlocks => UploadsKept(d)
           /\ b.then.kind \notin DropKinds => (DeletionComing(d) => DeletionComing(d)')
  <1>1. /\ Range(mainq[d]) = {b} \cup Range(mainq'[d]) /\ Range(queue[d]) \subseteq Range(queue'[d])
        /\ Range(gets[d]) \subseteq Range(gets'[d])
    BY DEF Ran, Taken
  <1> QED BY <1>1 DEF UploadsKept, UploadComing, DeletionComing

\* The writes by what their blocks do.
LEMMA WritesApart ==
    ASSUME NEW w \in PostWrites
    PROVE  /\ w \in Stores => /\ w.then \in SharedThens /\ w.then # NoThen
                              /\ \A path \in w.paths : w.paths = {path}
           /\ w \in Drops => w.then # NoThen /\ w.then.kind = "postDeleted"
           /\ w \in Unnotes => w.then # NoThen /\ w.then.kind = "noteDeleted"
  <1>1. ASSUME w \in Stores
        PROVE  /\ w.then \in SharedThens /\ w.then # NoThen /\ \A path \in w.paths : w.paths = {path}
    <2>1. PICK p \in NewIds : w \in StoreWrites(p)
      BY <1>1 DEF Stores
    <2> QED BY <2>1, StoreFacts
  <1>2. ASSUME w \in Drops PROVE w.then # NoThen /\ w.then.kind = "postDeleted"
    BY <1>2, DropFacts DEF Drops
  <1>3. ASSUME w \in Unnotes PROVE w.then # NoThen /\ w.then.kind = "noteDeleted"
    BY <1>3, UnnoteFacts DEF Unnotes
  <1> QED BY <1>1, <1>2, <1>3

\* A write is known by its completion block.
LEMMA ThenClasses ==
    ASSUME NEW w \in PostWrites, w.then # NoThen
    PROVE  /\ w.then.kind = "markedPost" =>
                 w.then.post.postId \in PostIds /\ \E u \in Users : w \in MarkWrites(w.then.post.postId, u)
           /\ w.then.kind = "liked" =>
                 w.then.post.postId \in PostIds /\ \E u \in Users : w \in LikeWrites(w.then.post.postId, u)
           /\ w.then.kind = "postDeleted" => w.then.p \in PostIds /\ w \in DropWrites(w.then.p)
           /\ w.then.kind = "shared" => w \in Stores
           /\ w.then.kind = "noteDeleted" => w \in Unnotes
           /\ w.then.kind \in {"markedPost", "liked", "postDeleted", "shared", "noteDeleted"}
  <1> DEFINE G ==
           /\ w.then.kind = "markedPost" =>
                 w.then.post.postId \in PostIds /\ \E u \in Users : w \in MarkWrites(w.then.post.postId, u)
           /\ w.then.kind = "liked" =>
                 w.then.post.postId \in PostIds /\ \E u \in Users : w \in LikeWrites(w.then.post.postId, u)
           /\ w.then.kind = "postDeleted" => w.then.p \in PostIds /\ w \in DropWrites(w.then.p)
           /\ w.then.kind = "shared" => w \in Stores
           /\ w.then.kind = "noteDeleted" => w \in Unnotes
           /\ w.then.kind \in {"markedPost", "liked", "postDeleted", "shared", "noteDeleted"}
  <1>1. ASSUME NEW q \in NewIds, w \in StoreWrites(q) PROVE G
    BY <1>1, StoreFacts, WriteClasses
  <1>2. ASSUME NEW q \in PostIds, w \in CountWrites(q) \/ w \in UnlikeWrites(q) PROVE G
    BY <1>2, CountFacts, UnlikeFacts
  <1>3. ASSUME NEW q \in PostIds, w \in DropWrites(q) PROVE G
    <2>1. w.then.kind = "postDeleted" /\ w.then.p = q
      BY <1>3, DropFacts, ThenFacts
    <2> QED BY <1>3, <2>1
  <1>4. ASSUME NEW q \in PostIds, w \in UnnoteWrites(q) PROVE G
    BY <1>4, UnnoteFacts, WriteClasses
  <1>5. ASSUME NEW q \in PostIds, NEW u \in Users, w \in MarkWrites(q, u) PROVE G
    <2>1. w.then.kind = "markedPost" /\ w.then.post.postId = q
      BY <1>5, MarkFacts
    <2> QED BY <1>5, <2>1
  <1>6. ASSUME NEW q \in PostIds, NEW u \in Users, w \in LikeWrites(q, u) PROVE G
    <2>1. w.then.kind = "liked" /\ w.then.post.postId = q
      BY <1>6, LikeFacts
    <2> QED BY <1>6, <2>1
  <1>7. ASSUME NEW q \in PostIds, NEW u \in Users, w \in NoteWrites(q, u) PROVE G
    BY <1>7, NoteFacts
  <1> HIDE DEF G
  <1>8. G
    BY <1>1, <1>2, <1>3, <1>4, <1>5, <1>6, <1>7, WriteCases
  <1> QED BY <1>8 DEF G

\* What retains an upload screen: as the model looks at it, and by the sets.
RetainedIn(cs, q, m, k) ==
    \/ \E i \in DOMAIN cs : cs[i].k = k
    \/ \E i \in DOMAIN q : q[i].then = Shared(k)
    \/ \E i \in DOMAIN m : m[i].then.kind \in {"uploaded", "shared"} /\ m[i].then.k = k
ComingIn(cs, q, m, k) ==
    \/ \E c \in Range(cs) : c.k = k
    \/ \E w \in Range(q) : w \in Stores /\ w.then.k = k
    \/ \E b \in Range(m) : b \in UploadBlocks \cup SharedBlocks /\ b.then.k = k

LEMMA Retained ==
    ASSUME NEW k \in Screens, NEW cs, NEW q \in Seq(PostWrites), NEW m \in Seq(PostBlocks)
    PROVE  RetainedIn(cs, q, m, k) <=> ComingIn(cs, q, m, k)
  <1>1. ASSUME NEW w \in PostWrites PROVE w.then = Shared(k) <=> w \in Stores /\ w.then.k = k
    <2>1. w.then = Shared(k) => w \in Stores
      <3>1. Shared(k) \in SharedThens
        BY DEF SharedThens
      <3> QED BY <3>1, ThenFacts, ThenClasses
    <2>2. w \in Stores => \E j \in Screens : w.then = Shared(j)
      BY WritesApart DEF SharedThens
    <2>3. \A j : Shared(j).k = j
      BY DEF Shared
    <2> QED BY <2>1, <2>2, <2>3
  <1>2. ASSUME NEW b \in PostBlocks
        PROVE  b.then.kind \in {"uploaded", "shared"} <=> b \in UploadBlocks \cup SharedBlocks
    BY KindOfBlock, BlockKinds
  <1>3. (\E i \in DOMAIN cs : cs[i].k = k) <=> \E c \in Range(cs) : c.k = k
    BY DEF Range
  <1>4. (\E i \in DOMAIN q : q[i].then = Shared(k)) <=> \E w \in Range(q) : w \in Stores /\ w.then.k = k
    <2>1. \A i \in DOMAIN q : q[i] \in PostWrites
      OBVIOUS
    <2> QED BY <1>1, <2>1 DEF Range
  <1>5. (\E i \in DOMAIN m : m[i].then.kind \in {"uploaded", "shared"} /\ m[i].then.k = k)
        <=> \E b \in Range(m) : b \in UploadBlocks \cup SharedBlocks /\ b.then.k = k
    <2>1. \A i \in DOMAIN m : m[i] \in PostBlocks
      OBVIOUS
    <2> QED BY <1>2, <2>1 DEF Range
  <1> QED BY <1>3, <1>4, <1>5 DEF RetainedIn, ComingIn

LEMMA HeldComing ==
    ASSUME NEW d \in Devices, NEW k \in Screens
    PROVE  /\ FlightOK => (Held(d, k) <=> UploadComing(d, k))
           /\ FlightOK' => (Held(d, k)' <=> UploadComing(d, k)')
  <1>1. ASSUME FlightOK PROVE Held(d, k) <=> UploadComing(d, k)
    <2>1. queue[d] \in Seq(PostWrites) /\ mainq[d] \in Seq(PostBlocks)
      BY <1>1 DEF FlightOK, QueuesOf
    <2>2. PICK cs : cs = calls[d]
      OBVIOUS
    <2>3. PICK q \in Seq(PostWrites) : q = queue[d]
      BY <2>1
    <2>4. PICK m \in Seq(PostBlocks) : m = mainq[d]
      BY <2>1
    <2>5. Held(d, k) <=> RetainedIn(cs, q, m, k)
      BY <2>2, <2>3, <2>4 DEF Held, RetainedIn
    <2>6. UploadComing(d, k) <=> ComingIn(cs, q, m, k)
      BY <2>2, <2>3, <2>4 DEF UploadComing, ComingIn
    <2> QED BY <2>5, <2>6, Retained
  <1>2. ASSUME FlightOK' PROVE Held(d, k)' <=> UploadComing(d, k)'
    <2>1. queue'[d] \in Seq(PostWrites) /\ mainq'[d] \in Seq(PostBlocks)
      BY <1>2 DEF FlightOK, QueuesOf
    <2>2. PICK cs : cs = calls'[d]
      OBVIOUS
    <2>3. PICK q \in Seq(PostWrites) : q = queue'[d]
      BY <2>1
    <2>4. PICK m \in Seq(PostBlocks) : m = mainq'[d]
      BY <2>1
    <2>5. Held(d, k)' <=> RetainedIn(cs, q, m, k)
      BY <2>2, <2>3, <2>4 DEF Held, RetainedIn
    <2>6. UploadComing(d, k)' <=> ComingIn(cs, q, m, k)
      BY <2>2, <2>3, <2>4 DEF UploadComing, ComingIn
    <2> QED BY <2>5, <2>6, Retained
  <1> QED BY <1>1, <1>2

LEMMA AnswerComing ==
    ASSUME NEW d \in Devices, NEW done \in BOOLEAN, NEW w \in PostWrites, NEW path \in w.paths,
           AnsweredPart(d, done, w, path), calls' = calls, screens' = screens
    PROVE  /\ UploadsKept(d)
           /\ DeletionComing(d) => DeletionComing(d)'
  <1> DEFINE b == [then |-> w.then, res |-> done /\ Accepts(w, path)]
  <1>1. /\ Range(queue[d]) = {w} \cup Range(Tail(queue[d])) /\ gets' = gets
        /\ Range(Tail(queue[d])) \subseteq Range(queue'[d])
        /\ Range(mainq'[d]) = Range(mainq[d]) \cup (IF w.then = NoThen THEN {} ELSE {b})
    BY DEF AnsweredPart
  <1>2. b.then = w.then /\ b.res \in BOOLEAN
    BY DEF Accepts
  <1>3. w \in Stores => b \in SharedBlocks
    BY <1>2, WritesApart DEF SharedBlocks
  <1> HIDE DEF b
  <1>4. ASSUME NEW k \in Screens, UploadComing(d, k) PROVE UploadComing(d, k)'
    <2>1. CASE w \in Stores
      <3>1. b \in Range(mainq'[d])
        BY <1>1, <2>1, WritesApart
      <3> QED BY <1>1, <1>2, <1>3, <1>4, <2>1, <3>1 DEF UploadComing
    <2>2. CASE w \notin Stores
      BY <1>1, <1>4, <2>2 DEF UploadComing
    <2> QED BY <2>1, <2>2
  <1>5. ASSUME DeletionComing(d) PROVE DeletionComing(d)'
    <2>1. CASE w \in Drops \cup Unnotes
      <3>1. b \in Range(mainq'[d]) /\ b.then.kind \in DropKinds
        BY <1>1, <1>2, <2>1, WritesApart DEF DropKinds
      <3> QED BY <3>1 DEF DeletionComing
    <2>2. CASE w \notin Drops \cup Unnotes
      BY <1>1, <1>5, <2>2 DEF DeletionComing
    <2> QED BY <2>1, <2>2
  <1> QED BY <1>4, <1>5 DEF UploadsKept

LEMMA DeliverLoader ==
    ASSUME ~Failures, TypesInv, TypesInv', NEW d \in Devices, Deliver(d), hasty' = hasty,
           \A e \in Devices : LoaderAt(e)
    PROVE  \A e \in Devices : LoaderAt(e)'
  <1>1. UNCHANGED appVars
    BY DeliverCases
  <1>2. screens' = screens /\ open' = open /\ hud' = hud /\ silent' = silent /\ calls' = calls
    BY <1>1 DEF appVars
  <1>3. CASE Answer(d, TRUE)
    <2>1. TRUE \in BOOLEAN
      OBVIOUS
    <2>2. PICK w \in PostWrites : \E path \in w.paths : AnsweredPart(d, TRUE, w, path)
      BY <1>1, <1>3, <2>1, AnswerTypes
    <2>3. PICK path \in w.paths : AnsweredPart(d, TRUE, w, path)
      BY <2>2
    <2>4. ASSUME NEW e \in Devices \ {d} PROVE LoaderAt(e)'
      <3>1. SameLoader(e)
        BY <1>2, <2>3 DEF SameLoader, AnsweredPart
      <3> QED BY <3>1, LoaderElsewhere
    <2>5. /\ UploadsKept(d)
          /\ DeletionComing(d) => DeletionComing(d)'
      BY <1>2, <2>1, <2>3, AnswerComing
    <2>6. LoaderAt(d)'
      BY <1>2, <2>5, LoaderStill
    <2> QED BY <2>4, <2>6
  <1>4. ASSUME NEW k \in DOMAIN gets[d], Resolve(d, k) PROVE \A e \in Devices : LoaderAt(e)'
    <2>1. PICK r \in PostReads : Resolved(d, r)
      BY <1>1, <1>4, ResolveTypes
    <2>2. ASSUME NEW e \in Devices \ {d} PROVE LoaderAt(e)'
      <3>1. SameLoader(e)
        BY <1>2, <2>1 DEF SameLoader, Resolved
      <3> QED BY <3>1, LoaderElsewhere
    <2>3. PICK b : b = [then |-> r.then, res |-> [path \in r.paths |-> View(d, path)]]
      OBVIOUS
    <2>4. /\ queue' = queue /\ Range(gets[d]) = {r} \cup Range(gets'[d])
          /\ Range(mainq'[d]) = Range(mainq[d]) \cup {b} /\ b.then = r.then
      BY <2>1, <2>3 DEF Resolved
    <2>5. /\ UploadsKept(d)
          /\ DeletionComing(d) => DeletionComing(d)'
      BY <1>2, <2>4 DEF UploadsKept, UploadComing, DeletionComing
    <2>6. LoaderAt(d)'
      BY <1>2, <2>5, LoaderStill
    <2> QED BY <2>2, <2>6
  <1> QED BY <1>3, <1>4, DeliverCases

\* A block runs on d: the other devices are as before.
LEMMA RanElsewhere ==
    ASSUME NEW d \in Devices, NEW b, NEW ws, NEW rs, Ran(d, b, ws, rs), \A e \in Devices : LoaderAt(e),
           calls' = calls, screens' = screens,
           \A e \in Devices \ {d} : open'[e] = open[e] /\ hud'[e] = hud[e] /\ silent'[e] = silent[e]
    PROVE  \A e \in Devices \ {d} : LoaderAt(e)'
  <1> SUFFICES ASSUME NEW e \in Devices \ {d} PROVE LoaderAt(e)'
    OBVIOUS
  <1>1. SameLoader(e)
    BY DEF SameLoader, Ran, Taken
  <1> QED BY <1>1, LoaderElsewhere

\* The blocks that leave the loader alone.
LEMMA PlainBlocksLoader ==
    ASSUME TypesInv, TypesInv', NEW d \in Devices, \A e \in Devices : LoaderAt(e), hasty' = hasty,
           \/ uploaded(d) \/ fetchedPosts(d) \/ foundLikes(d) \/ postDeleted(d) \/ foundFeeds(d)
           \/ markedPost(d) \/ liked(d)
    PROVE  \A e \in Devices : LoaderAt(e)'
  <1>1. calls' = calls /\ screens' = screens /\ open' = open /\ hud' = hud /\ silent' = silent
    BY DEF uploaded, fetchedPosts, foundLikes, postDeleted, foundFeeds, markedPost, liked, appVars
  <1>2. ASSUME NEW b, NEW ws, NEW rs, Ran(d, b, ws, rs),
               UploadsKept(d), DeletionComing(d) => DeletionComing(d)'
        PROVE  \A e \in Devices : LoaderAt(e)'
    <2>1. \A e \in Devices \ {d} : LoaderAt(e)'
      BY <1>1, <1>2, RanElsewhere
    <2>2. LoaderAt(d)'
      BY <1>1, <1>2, LoaderStill
    <2> QED BY <2>1, <2>2
  <1>3. CASE uploaded(d)
    <2>1. PICK b \in UploadBlocks : Ran(d, b, <<setData(PostDoc(b.then.p), UidOf[d], Shared(b.then.k))>>, <<>>)
      BY <1>3, uploadedRuns
    <2>2. PICK w : w = setData(PostDoc(b.then.p), UidOf[d], Shared(b.then.k))
      OBVIOUS
    <2>3. b.then.kind \notin DropKinds /\ b.then.p \in NewIds /\ b.then.k \in Screens
      BY BlockKinds, ThenFacts DEF DropKinds
    <2>4. w \in Stores /\ w.then.k = b.then.k
      <3>1. w.then = Shared(b.then.k)
        BY <2>2 DEF setData, Write
      <3>2. w.then.k = b.then.k
        BY <3>1 DEF Shared
      <3> QED BY <2>2, <2>3, <3>2, SentFacts, FeedPostFacts, WriteClasses
    <2>5. DeletionComing(d) => DeletionComing(d)'
      BY <1>1, <2>1, <2>3, ComingKept
    <2>6. Range(queue'[d]) = Range(queue[d]) \cup {w} /\ Range(mainq[d]) = {b} \cup Range(mainq'[d])
      BY <2>1, <2>2, RangeOfOne DEF Ran, Taken
    <2>7. UploadsKept(d)
      BY <1>1, <2>4, <2>6 DEF UploadsKept, UploadComing
    <2> QED BY <1>2, <2>1, <2>5, <2>7
  <1>4. CASE fetchedPosts(d)
    <2>1. PICK b \in FeedBlocks : Ran(d, b, <<>>, <<>>)
      BY <1>4, fetchedPostsRuns
    <2>2. b.then.kind \notin DropKinds /\ b \notin UploadBlocks \cup SharedBlocks
      BY BlockKinds DEF DropKinds
    <2> QED BY <1>1, <1>2, <2>1, <2>2, ComingKept
  <1>5. CASE foundLikes(d)
    <2>1. PICK p \in PostIds : \E b \in LikesBlocks(p) : \E ws : Ran(d, b, ws, <<>>)
      BY <1>5, foundLikesRuns
    <2>2. PICK b \in LikesBlocks(p) : \E ws : Ran(d, b, ws, <<>>)
      BY <2>1
    <2>3. b.then.kind \notin DropKinds /\ b \notin UploadBlocks \cup SharedBlocks
      BY BlockKinds DEF DropKinds
    <2> QED BY <1>1, <1>2, <2>2, <2>3, ComingKept
  <1>6. CASE postDeleted(d)
    <2>1. PICK p \in PostIds : \E b \in DropBlocks(p) : Ran(d, b, <<>>, <<FeedsRead(p)>>)
      BY <1>6, postDeletedRuns
    <2>2. PICK b \in DropBlocks(p) : Ran(d, b, <<>>, <<FeedsRead(p)>>)
      BY <2>1
    <2>3. b \notin UploadBlocks \cup SharedBlocks
      BY BlockKinds
    <2>4. FeedsRead(p) \in Range(gets'[d])
      BY <2>2, RangeOfOne DEF Ran, Taken
    <2>5. DeletionComing(d)'
      BY <2>4, ReadFacts DEF DeletionComing, DropKinds
    <2> QED BY <1>1, <1>2, <2>2, <2>3, <2>5, ComingKept
  <1>7. CASE foundFeeds(d)
    <2>1. PICK p \in PostIds : \E b \in FeedsBlocks(p) : Ran(d, b, <<>>, <<NotesRead(p)>>)
      BY <1>7, foundFeedsRuns
    <2>2. PICK b \in FeedsBlocks(p) : Ran(d, b, <<>>, <<NotesRead(p)>>)
      BY <2>1
    <2>3. b \notin UploadBlocks \cup SharedBlocks
      BY BlockKinds
    <2>4. NotesRead(p) \in Range(gets'[d])
      BY <2>2, RangeOfOne DEF Ran, Taken
    <2>5. DeletionComing(d)'
      BY <2>4, ReadFacts DEF DeletionComing, DropKinds
    <2> QED BY <1>1, <1>2, <2>2, <2>3, <2>5, ComingKept
  <1>8. CASE markedPost(d)
    <2>1. PICK p \in PostIds : \E b \in MarkBlocks(p) : \E ws : Ran(d, b, ws, <<>>)
      BY <1>8, markedPostRuns
    <2>2. PICK b \in MarkBlocks(p) : \E ws : Ran(d, b, ws, <<>>)
      BY <2>1
    <2>3. b.then.kind \notin DropKinds /\ b \notin UploadBlocks \cup SharedBlocks
      BY BlockKinds DEF DropKinds
    <2> QED BY <1>1, <1>2, <2>2, <2>3, ComingKept
  <1>9. CASE liked(d)
    <2>1. PICK p \in PostIds : \E b \in LikedBlocks(p) : \E ws : Ran(d, b, ws, <<>>)
      BY <1>9, likedRuns
    <2>2. PICK b \in LikedBlocks(p) : \E ws : Ran(d, b, ws, <<>>)
      BY <2>1
    <2>3. b.then.kind \notin DropKinds /\ b \notin UploadBlocks \cup SharedBlocks
      BY BlockKinds DEF DropKinds
    <2> QED BY <1>1, <1>2, <2>2, <2>3, ComingKept
  <1> QED BY <1>3, <1>4, <1>5, <1>6, <1>7, <1>8, <1>9

\* A post was shared: its screen closes, or the loader goes.
LEMMA sharedLoader ==
    ASSUME TypesInv, TypesInv', NEW d \in Devices, \A e \in Devices : LoaderAt(e), hasty' = hasty, shared(d)
    PROVE  \A e \in Devices : LoaderAt(e)'
  <1>1. calls' = calls /\ screens' = screens /\ silent' = silent
    BY DEF shared
  <1>2. PICK b \in SharedBlocks :
          /\ Ran(d, b, <<>>, IF b.res THEN <<FeedRead>> ELSE <<>>)
          /\ b.res => open' = [open EXCEPT ![d] = @ /\ b.then.k # screens[d]]
          /\ ~b.res => open' = open
          /\ hudBecomes(d, IF b.res THEN hud[d] ELSE dismiss(hud[d]))
    BY sharedRuns
  <1>3. PICK rs : Ran(d, b, <<>>, rs)
    BY <1>2
  <1>4. open \in [Devices -> BOOLEAN] /\ hud \in [Devices -> Huds(PostViews)] /\ hud[d] \in Huds(PostViews)
    BY DEF TypesInv, StateOK
  <1>5. PICK h : h = IF b.res THEN hud[d] ELSE dismiss(hud[d])
    OBVIOUS
  <1>6. /\ h \in Huds(PostViews) /\ h.view = hud[d].view
        /\ Stays(h) => b.res /\ h = hud[d]
    BY <1>4, <1>5, HudFacts, LoaderMoves
  <1>7. /\ \A e \in Devices \ {d} : hud'[e] = hud[e]
        /\ hud'[d] \in {h, Hidden} /\ (hud'[d].phase = "shown" => hud'[d].view \in Alive(d)')
    BY <1>2, <1>4, <1>5, <1>6, BecomesFacts
  <1>8. (\A e \in Devices \ {d} : open'[e] = open[e]) /\ (open'[d] => open[d])
    BY <1>2, <1>4
  <1>9. \A e \in Devices \ {d} : LoaderAt(e)'
    BY <1>1, <1>3, <1>7, <1>8, RanElsewhere
  <1>10. DeletionComing(d) => DeletionComing(d)'
    <2>1. b.then.kind \notin DropKinds
      BY BlockKinds DEF DropKinds
    <2> QED BY <1>1, <1>3, <2>1, ComingKept
  <1>11. ~Stays(Hidden) /\ Hidden.view = NoView
    BY LoaderMoves
  <1>12. ASSUME Stays(hud'[d]), NEW k \in Screens, hud'[d].view = UploadView(k), Owned(d, k)
         PROVE  Owned(d, k)'
    <2>1. b.res /\ hud'[d] = hud[d]
      BY <1>6, <1>7, <1>11, <1>12
    <2>2. Presented(d, k)' => Presented(d, k) /\ b.then.k # k
      BY <1>1, <1>2, <1>4, <2>1 DEF Presented
    <2>3. UploadComing(d, k) /\ b.then.k # k => UploadComing(d, k)'
      <3>1. Range(mainq[d]) = {b} \cup Range(mainq'[d]) /\ Range(queue[d]) \subseteq Range(queue'[d])
        BY <1>3 DEF Ran, Taken
      <3> QED BY <1>1, <3>1 DEF UploadComing
    <2>4. Presented(d, k)' => UploadComing(d, k)'
      BY <1>12, <2>2, <2>3 DEF Owned
    <2>5. hud'[d].phase = "shown" => UploadComing(d, k)'
      <3>1. ASSUME UploadView(k) \in Alive(d)' PROVE Held(d, k)' \/ Presented(d, k)'
        BY <3>1, LoaderMoves DEF Alive, Presented
      <3>2. Held(d, k)' <=> UploadComing(d, k)'
        <4>1. FlightOK'
          BY DEF TypesInv
        <4> QED BY <4>1, HeldComing
      <3> QED BY <1>7, <1>12, <2>4, <3>1, <3>2
    <2>6. hud'[d].phase \in {"showing", "shown"}
      BY <1>4, <1>12, <2>1, LoaderMoves
    <2> QED BY <2>4, <2>5, <2>6 DEF Owned
  <1>13. hud'[d].view \in {hud[d].view, NoView}
    BY <1>6, <1>7, <1>11
  <1>14. Stays(hud'[d]) => Stays(hud[d])
    BY <1>6, <1>7, <1>11
  <1>15. LoaderAt(d)'
    BY <1>1, <1>10, <1>12, <1>13, <1>14, LoaderKept
  <1> QED BY <1>9, <1>15

LEMMA foundNotesLoader ==
    ASSUME TypesInv, TypesInv', NEW d \in Devices, \A e \in Devices : LoaderAt(e), hasty' = hasty, foundNotes(d)
    PROVE  \A e \in Devices : LoaderAt(e)'
  <1>1. calls' = calls /\ screens' = screens /\ open' = open /\ hud' = hud
    BY DEF foundNotes
  <1>2. PICK p \in PostIds : \E b \in NotesBlocks(p) : \E N \in SUBSET Notes(p) :
                /\ Ran(d, b, IF N = {} THEN <<>> ELSE <<deleteAll(N, NoteDeleted)>>, <<>>)
                /\ silent' = IF N = {} THEN [silent EXCEPT ![d] = @ \cup {p}] ELSE silent
    BY foundNotesRuns
  <1>3. PICK b \in NotesBlocks(p) : \E N \in SUBSET Notes(p) :
                /\ Ran(d, b, IF N = {} THEN <<>> ELSE <<deleteAll(N, NoteDeleted)>>, <<>>)
                /\ silent' = IF N = {} THEN [silent EXCEPT ![d] = @ \cup {p}] ELSE silent
    BY <1>2
  <1>4. PICK N \in SUBSET Notes(p) :
                /\ Ran(d, b, IF N = {} THEN <<>> ELSE <<deleteAll(N, NoteDeleted)>>, <<>>)
                /\ silent' = IF N = {} THEN [silent EXCEPT ![d] = @ \cup {p}] ELSE silent
    BY <1>3
  <1>5. PICK ws : ws = IF N = {} THEN <<>> ELSE <<deleteAll(N, NoteDeleted)>>
    OBVIOUS
  <1>6. Ran(d, b, ws, <<>>)
    BY <1>4, <1>5
  <1>7. silent \in [Devices -> SUBSET PostIds]
    BY DEF TypesInv, StateOK
  <1>8. \A e \in Devices \ {d} : silent'[e] = silent[e]
    BY <1>4, <1>7
  <1>9. \A e \in Devices \ {d} : LoaderAt(e)'
    BY <1>1, <1>6, <1>8, RanElsewhere
  <1>10. UploadsKept(d)
    <2>1. b \notin UploadBlocks \cup SharedBlocks
      BY BlockKinds
    <2> QED BY <1>1, <1>6, <2>1, ComingKept
  <1>11. silent'[d] # {} \/ DeletionComing(d)'
    <2>1. CASE N = {}
      BY <1>4, <1>7, <2>1
    <2>2. CASE N # {}
      <3>1. PICK w : w = deleteAll(N, NoteDeleted)
        OBVIOUS
      <3>2. w \in Unnotes
        BY <3>1, SentFacts, WriteClasses
      <3>3. w \in Range(queue'[d])
        BY <1>5, <1>6, <2>2, <3>1, RangeOfOne DEF Ran, Taken
      <3> QED BY <3>2, <3>3 DEF DeletionComing
    <2> QED BY <2>1, <2>2
  <1>12. LoaderAt(d)'
    BY <1>1, <1>10, <1>11, LoaderStill
  <1> QED BY <1>9, <1>12

LEMMA noteDeletedLoader ==
    ASSUME TypesInv, TypesInv', NEW d \in Devices, \A e \in Devices : LoaderAt(e), hasty' = hasty, noteDeleted(d)
    PROVE  \A e \in Devices : LoaderAt(e)'
  <1>1. /\ hud' = [hud EXCEPT ![d] = dismiss(@)] /\ UNCHANGED <<calls, screens, open, silent, shares>>
        /\ \E b \in NoteBlocks : Ran(d, b, <<>>, <<FeedRead>>)
    BY noteDeletedRuns
  <1>2. hud \in [Devices -> Huds(PostViews)]
    BY DEF TypesInv, StateOK
  <1>3. hud'[d] = dismiss(hud[d]) /\ \A e \in Devices \ {d} : hud'[e] = hud[e]
    BY <1>1, <1>2
  <1>4. ~Stays(hud'[d]) /\ hud'[d].view = hud[d].view
    BY <1>2, <1>3, LoaderMoves
  <1>5. \A e \in Devices \ {d} : LoaderAt(e)'
    BY <1>1, <1>3, RanElsewhere
  <1>6. LoaderAt(d)'
    BY <1>1, <1>4, LoaderKept
  <1> QED BY <1>5, <1>6

\* Touches on the upload screen.
LEMMA ScreensLoader ==
    ASSUME TypesInv, TypesInv', NEW d \in Devices, \A e \in Devices : LoaderAt(e),
           didFinishPickingMedia(d) \/ didTapCancel(d)
    PROVE  \A e \in Devices : LoaderAt(e)'
  <1>1. UNCHANGED <<queue, gets, mainq, calls, silent>>
    BY DEF didFinishPickingMedia, didTapCancel
  <1>2. hasty' \in BOOLEAN
    BY DEF TypesInv, StateOK
  <1>3. CASE didFinishPickingMedia(d)
    <2>1. /\ screens'[d] = screens[d] + 1 /\ hud' = hud
          /\ \A e \in Devices \ {d} : screens'[e] = screens[e] /\ open'[e] = open[e]
      BY <1>2, <1>3, didFinishPickingMediaTypes DEF didFinishPickingMedia
    <2>2. ASSUME NEW e \in Devices \ {d} PROVE LoaderAt(e)'
      <3>1. SameLoader(e)
        BY <1>1, <2>1 DEF SameLoader
      <3> QED BY <3>1, LoaderElsewhere
    <2>3. screens[d] \in Nat /\ screens[d] + 1 \in Screens
      <3>1. screens[d] \in 0..MaxScreens /\ screens[d] + 1 \in 0..MaxScreens
        BY <2>1 DEF TypesInv, StateOK
      <3> QED BY <3>1, PostsAssumption DEF Screens
    <2>4. hud[d].view # UploadView(screens[d] + 1)
      <3>1. LoaderAt(d) /\ ~(screens[d] + 1 <= screens[d])
        BY <2>3
      <3> QED BY <2>3, <3>1 DEF LoaderAt
    <2>5. \A k \in Screens : hud'[d].view = UploadView(k) => k <= screens'[d]
      <3>1. \A k \in Screens : k <= screens[d] => k <= screens[d] + 1
        BY <2>3 DEF Screens
      <3> QED BY <2>1, <3>1 DEF LoaderAt
    <2>6. DeletionComing(d)' <=> DeletionComing(d)
      BY <1>1 DEF DeletionComing
    <2>7. LoaderAt(d)'
      <3>1. Stays(hud'[d]) /\ hud'[d].view = FeedView => silent'[d] # {} \/ DeletionComing(d)'
        BY <1>1, <2>1, <2>6 DEF LoaderAt
      <3>2. ASSUME Stays(hud'[d]), NEW k \in Screens, hud'[d].view = UploadView(k) PROVE Owned(d, k)'
        <4>1. k # screens[d] + 1 /\ Owned(d, k)
          BY <2>1, <2>4, <3>2 DEF LoaderAt
        <4>2. ~Presented(d, k)'
          BY <2>1, <4>1 DEF Presented
        <4>3. UploadComing(d, k) => UploadComing(d, k)'
          BY <1>1 DEF UploadComing
        <4> QED BY <2>1, <4>1, <4>2, <4>3 DEF Owned
      <3> QED BY <2>5, <3>1, <3>2 DEF LoaderAt
    <2> QED BY <2>2, <2>7
  <1>4. CASE didTapCancel(d)
    <2>1. /\ ~open'[d] /\ hud'[d] \in {hud[d], Hidden} /\ screens' = screens
          /\ \A e \in Devices \ {d} : open'[e] = open[e] /\ hud'[e] = hud[e]
      BY <1>2, <1>4, didTapCancelTypes DEF didTapCancel
    <2>2. ASSUME NEW e \in Devices \ {d} PROVE LoaderAt(e)'
      <3>1. SameLoader(e)
        BY <1>1, <2>1 DEF SameLoader
      <3> QED BY <3>1, LoaderElsewhere
    <2>3. (DeletionComing(d) => DeletionComing(d)') /\ UploadsKept(d)
      BY <1>1 DEF DeletionComing, UploadsKept, UploadComing
    <2>4. LoaderAt(d)'
      BY <1>1, <2>1, <2>3, LoaderStill
    <2> QED BY <2>2, <2>4
  <1> QED BY <1>3, <1>4

\* A loader that somebody else shows, or that is shown now.
LEMMA ShownKept ==
    ASSUME TypesInv, NEW d \in Devices, LoaderAt(d), NEW v,
           hud'[d] = show(hud[d], v), screens'[d] = screens[d], open'[d] = open[d], silent'[d] = silent[d],
           \A k \in Screens : v = UploadView(k) => k <= screens[d] /\ UploadComing(d, k)',
           DeletionComing(d) \/ v = FeedView => DeletionComing(d)',
           UploadsKept(d)
    PROVE  LoaderAt(d)'
  <1>1. hud[d] \in Huds(PostViews)
    BY DEF TypesInv, StateOK
  <1>2. hud'[d].view = v \/ hud'[d] = hud[d]
    BY <1>1, LoaderMoves
  <1>3. CASE hud'[d] = hud[d]
    BY <1>3, LoaderStill
  <1>4. CASE hud'[d].view = v
    BY <1>4 DEF LoaderAt, Owned
  <1> QED BY <1>2, <1>3, <1>4

LEMMA didTapDoneLoader ==
    ASSUME TypesInv, TypesInv', NEW d \in Devices, \A e \in Devices : LoaderAt(e), didTapDone(d)
    PROVE  \A e \in Devices : LoaderAt(e)'
  <1>1. hasty' \in BOOLEAN
    BY DEF TypesInv, StateOK
  <1>2. PICK c : c = Uploaded(shares + 1, screens[d])
    OBVIOUS
  <1>3. /\ screens[d] \in Screens
        /\ Range(calls'[d]) = Range(calls[d]) \cup {c}
        /\ \A e \in Devices \ {d} : calls'[e] = calls[e] /\ hud'[e] = hud[e]
        /\ hud'[d] = show(hud[d], UploadView(screens[d]))
        /\ UNCHANGED <<docs, queue, gets, mainq, feed, screens, open, silent>>
    BY <1>1, <1>2, didTapDoneTypes
  <1>4. ASSUME NEW e \in Devices \ {d} PROVE LoaderAt(e)'
    <2>1. SameLoader(e)
      BY <1>3 DEF SameLoader
    <2> QED BY <2>1, LoaderElsewhere
  <1>5. c.k = screens[d]
    BY <1>2 DEF Uploaded
  <1>6. UploadComing(d, screens[d])' /\ UploadsKept(d)
    BY <1>3, <1>5 DEF UploadsKept, UploadComing
  <1>7. DeletionComing(d) => DeletionComing(d)'
    BY <1>3 DEF DeletionComing
  <1>8. \A k \in Screens : UploadView(screens[d]) = UploadView(k) => k <= screens[d] /\ UploadComing(d, k)'
    <2>1. \A k \in Screens : k <= k
      BY DEF Screens
    <2>2. \A k \in Screens : UploadView(screens[d]) = UploadView(k) => k = screens[d]
      BY LoaderMoves
    <2>3. \A k \in Screens : k = screens[d] => UploadComing(d, k)'
      BY <1>3, <1>5 DEF UploadComing
    <2> QED BY <2>1, <2>2, <2>3
  <1>9. UploadView(screens[d]) # FeedView
    BY LoaderMoves
  <1>10. LoaderAt(d)'
    BY <1>3, <1>6, <1>7, <1>8, <1>9, ShownKept
  <1> QED BY <1>4, <1>10

\* Touches on the feed.
LEMMA FeedLoader ==
    ASSUME TypesInv, TypesInv', NEW d \in Devices, \A e \in Devices : LoaderAt(e),
           handleRefresh(d) \/ \E post \in feed[d] : deletePost(d, post) \/ didLike(d, post)
    PROVE  \A e \in Devices : LoaderAt(e)'
  <1>1. hasty' \in BOOLEAN
    BY DEF TypesInv, StateOK
  <1>2. calls' = calls /\ screens' = screens /\ open' = open /\ silent' = silent
    BY DEF handleRefresh, deletePost, didLike
  <1>3. ASSUME NEW ws, NEW rs, Issued(d, ws, rs), \A e \in Devices \ {d} : hud'[e] = hud[e]
        PROVE  /\ \A e \in Devices \ {d} : LoaderAt(e)'
               /\ UploadsKept(d)
               /\ DeletionComing(d) => DeletionComing(d)'
    <2>1. ASSUME NEW e \in Devices \ {d} PROVE LoaderAt(e)'
      <3>1. SameLoader(e)
        BY <1>2, <1>3 DEF SameLoader, Issued
      <3> QED BY <3>1, LoaderElsewhere
    <2>2. /\ mainq' = mainq /\ Range(queue[d]) \subseteq Range(queue'[d])
          /\ Range(gets[d]) \subseteq Range(gets'[d])
      BY <1>3 DEF Issued
    <2> QED BY <1>2, <2>1, <2>2 DEF UploadsKept, UploadComing, DeletionComing
  <1>4. CASE handleRefresh(d)
    <2>1. Issued(d, <<>>, <<FeedRead>>) /\ hud' = hud
      BY <1>1, <1>4, handleRefreshTypes
    <2>2. LoaderAt(d)'
      BY <1>2, <1>3, <2>1, LoaderStill
    <2> QED BY <1>3, <2>1, <2>2
  <1>5. ASSUME NEW post \in feed[d], didLike(d, post) PROVE \A e \in Devices : LoaderAt(e)'
    <2>1. PICK ws : Issued(d, ws, <<>>) /\ hud' = hud
      BY <1>1, <1>5, didLikeTypes
    <2>2. LoaderAt(d)'
      BY <1>2, <1>3, <2>1, LoaderStill
    <2> QED BY <1>3, <2>1, <2>2
  <1>6. ASSUME NEW post \in feed[d], deletePost(d, post) PROVE \A e \in Devices : LoaderAt(e)'
    <2>1. /\ \E p \in PostIds : \E w \in DropWrites(p) : Issued(d, <<w>>, <<LikesRead(p)>>)
          /\ hud'[d] = show(hud[d], FeedView) /\ \A e \in Devices \ {d} : hud'[e] = hud[e]
      BY <1>1, <1>6, deletePostTypes
    <2>2. PICK p \in PostIds : \E w \in DropWrites(p) : Issued(d, <<w>>, <<LikesRead(p)>>)
      BY <2>1
    <2>3. PICK w \in DropWrites(p) : Issued(d, <<w>>, <<LikesRead(p)>>)
      BY <2>2
    <2>4. w \in Range(queue'[d]) /\ w \in Drops
      BY <2>3, RangeOfOne, WriteClasses DEF Issued
    <2>5. DeletionComing(d)'
      BY <2>4 DEF DeletionComing
    <2>6. \A k : FeedView # UploadView(k)
      BY LoaderMoves
    <2>7. /\ \A e \in Devices \ {d} : LoaderAt(e)'
          /\ UploadsKept(d)
      BY <1>3, <2>1, <2>3
    <2>8. LoaderAt(d)'
      BY <1>2, <2>1, <2>5, <2>6, <2>7, ShownKept
    <2> QED BY <2>7, <2>8
  <1> QED BY <1>4, <1>5, <1>6

LEMMA AnimateLoader ==
    ASSUME TypesInv, TypesInv', NEW d \in Devices, \A e \in Devices : LoaderAt(e), Animate(d), hasty' = hasty
    PROVE  \A e \in Devices : LoaderAt(e)'
  <1>1. /\ Animating(hud[d])
        /\ hud'[d] = IF hud[d].view \in Alive(d) THEN animated(hud[d]) ELSE Hidden
        /\ \A e \in Devices \ {d} : hud'[e] = hud[e]
        /\ UNCHANGED <<docs, queue, gets, mainq, calls, feed, screens, open, silent, shares>>
    BY AnimateTypes
  <1>2. ASSUME NEW e \in Devices \ {d} PROVE LoaderAt(e)'
    <2>1. SameLoader(e)
      BY <1>1 DEF SameLoader
    <2> QED BY <2>1, LoaderElsewhere
  <1>3. hud[d] \in Huds(PostViews)
    BY DEF TypesInv, StateOK
  <1>4. /\ Stays(hud'[d]) => Stays(hud[d]) /\ hud[d].phase = "showing" /\ hud[d].view \in Alive(d)
        /\ hud'[d].view \in {hud[d].view, NoView}
    BY <1>1, <1>3, LoaderMoves
  <1>5. UploadsKept(d) /\ (DeletionComing(d) => DeletionComing(d)')
    BY <1>1 DEF UploadsKept, UploadComing, DeletionComing
  <1>6. ASSUME Stays(hud'[d]), NEW k \in Screens, hud'[d].view = UploadView(k), Owned(d, k)
        PROVE  Owned(d, k)'
    <2>1. hud[d].view = UploadView(k)
      BY <1>4, <1>6, LoaderMoves
    <2>2. Held(d, k) \/ Presented(d, k)
      BY <1>4, <1>6, <2>1, LoaderMoves DEF Alive, Presented
    <2>3. Held(d, k) <=> UploadComing(d, k)
      BY HeldComing DEF TypesInv
    <2>4. UploadComing(d, k)
      BY <1>6, <2>2, <2>3 DEF Owned
    <2> QED BY <1>5, <2>4 DEF Owned, UploadsKept
  <1>7. LoaderAt(d)'
    BY <1>1, <1>4, <1>5, <1>6, LoaderKept
  <1> QED BY <1>2, <1>7

LEMMA StorageLoader ==
    ASSUME ~Failures, TypesInv, TypesInv', NEW d \in Devices, \A e \in Devices : LoaderAt(e),
           NEW i \in DOMAIN calls[d], StorageAnswer(d, i), hasty' = hasty
    PROVE  \A e \in Devices : LoaderAt(e)'
  <1>1. /\ UNCHANGED <<docs, queue, gets, feed, screens, open, silent, shares>>
        /\ \A e \in Devices \ {d} : calls'[e] = calls[e] /\ mainq'[e] = mainq[e] /\ hud'[e] = hud[e]
        /\ hud'[d] \in {hud[d], Hidden}
    BY StorageTypes
  <1>2. PICK c \in UploadThens :
                /\ Range(calls[d]) = {c} \cup Range(calls'[d])
                /\ \/ Failures /\ mainq' = mainq
                   \/ \E b \in UploadBlocks :
                        /\ b.then = c /\ mainq'[d] = Append(mainq[d], b)
                        /\ Range(mainq'[d]) = Range(mainq[d]) \cup {b}
    BY StorageTypes
  <1>3. PICK b \in UploadBlocks : b.then = c /\ Range(mainq'[d]) = Range(mainq[d]) \cup {b}
    BY <1>2
  <1>4. ASSUME NEW e \in Devices \ {d} PROVE LoaderAt(e)'
    <2>1. SameLoader(e)
      BY <1>1 DEF SameLoader
    <2> QED BY <2>1, LoaderElsewhere
  <1>5. UploadsKept(d)
    BY <1>1, <1>2, <1>3 DEF UploadsKept, UploadComing
  <1>6. DeletionComing(d) => DeletionComing(d)'
    BY <1>1, <1>3 DEF DeletionComing
  <1>7. LoaderAt(d)'
    BY <1>1, <1>5, <1>6, LoaderStill
  <1> QED BY <1>4, <1>7

LEMMA NextLoader ==
    ASSUME ~Failures, TypesInv, LoaderInv, [Next]_vars
    PROVE  LoaderInv'
  <1>1. TypesInv'
    BY NextTypes
  <1>2. \A e \in Devices : LoaderAt(e)
    BY LoaderByDevice
  <1> SUFFICES \A e \in Devices : LoaderAt(e)'
    BY DEF LoaderInv, ViewsOpened, LoaderOwned, LoaderAt
  <1>3. CASE UNCHANGED vars
    <2> SUFFICES ASSUME NEW e \in Devices PROVE LoaderAt(e)'
      OBVIOUS
    <2>1. SameLoader(e)
      BY <1>3 DEF vars, appVars, SameLoader
    <2> QED BY <1>2, <2>1, LoaderElsewhere
  <1>4. ASSUME NEW d \in Devices, Touch(d) PROVE \A e \in Devices : LoaderAt(e)'
    BY <1>1, <1>2, <1>4, ScreensLoader, didTapDoneLoader, FeedLoader DEF Touch
  <1>5. ASSUME NEW d \in Devices, MainQueue(d), hasty' = hasty PROVE \A e \in Devices : LoaderAt(e)'
    BY <1>1, <1>2, <1>5, PlainBlocksLoader, sharedLoader, foundNotesLoader, noteDeletedLoader DEF MainQueue
  <1>6. ASSUME NEW d \in Devices, Deliver(d) \/ Animate(d), hasty' = hasty
        PROVE  \A e \in Devices : LoaderAt(e)'
    BY <1>1, <1>2, <1>6, DeliverLoader, AnimateLoader
  <1>7. ASSUME NEW d \in Devices, NEW i \in DOMAIN calls[d], StorageAnswer(d, i), hasty' = hasty
        PROVE  \A e \in Devices : LoaderAt(e)'
    BY <1>1, <1>2, <1>7, StorageLoader
  <1> QED BY <1>3, <1>4, <1>5, <1>6, <1>7 DEF Next, Step

LEMMA InitLoader ==
    ASSUME Init
    PROVE  LoaderInv
  <1>1. \A d \in Devices : hud[d] = Hidden
    BY DEF Init
  <1>2. \A d \in Devices : LoaderAt(d)
    BY <1>1, LoaderMoves DEF LoaderAt
  <1> QED BY <1>2, LoaderByDevice

\* What is in flight, as the property looks at it.
LEMMA ExpectedFrom ==
    ASSUME TypesInv, NEW d \in Devices
    PROVE  DeletionComing(d) => Expected(d, {"postDeleted", "foundFeeds", "foundNotes", "noteDeleted"})
  <1>1. Range(queue[d]) \subseteq PostWrites
    BY InQueue DEF TypesInv, FlightOK
  <1>2. ASSUME NEW kinds, NEW w \in Range(queue[d]), w.then # NoThen, w.then.kind \in kinds
        PROVE  Expected(d, kinds)
    BY <1>2 DEF Expected, Range
  <1>3. ASSUME NEW kinds, NEW b \in Range(mainq[d]), b.then.kind \in kinds PROVE Expected(d, kinds)
    BY <1>3 DEF Expected, Range
  <1>4. ASSUME NEW kinds, NEW r \in Range(gets[d]), r.then.kind \in kinds PROVE Expected(d, kinds)
    BY <1>4 DEF Expected, Range
  <1>5. ASSUME DeletionComing(d) PROVE Expected(d, DropKinds)
    <2>1. ASSUME NEW w \in Range(queue[d]), w \in Drops \cup Unnotes
          PROVE  w.then # NoThen /\ w.then.kind \in DropKinds
      BY <1>1, <2>1, WritesApart DEF DropKinds
    <2> QED BY <1>2, <1>3, <1>4, <1>5, <2>1 DEF DeletionComing
  <1> QED BY <1>5 DEF DropKinds

LEMMA PostsInvFrom ==
    ASSUME TypesInv, LoaderInv
    PROVE  PostsInv
  <1>1. PostsTypeOK
    <2>1. docs \in [Paths -> Users \cup {NoDoc}] /\ hasty \in BOOLEAN
      BY DEF TypesInv, StateOK, Contents
    <2>2. ASSUME NEW d \in Devices
          PROVE  /\ feed[d] \subseteq [postId : PostIds, ownerUid : Users] /\ screens[d] \in 0..MaxScreens
                 /\ open[d] => screens[d] > 0
                 /\ hud[d] \in Huds({FeedView} \cup {UploadView(k) : k \in 1..MaxScreens})
                 /\ silent[d] \subseteq PostIds
      BY DEF TypesInv, StateOK, FeedPosts, PostViews, Screens
    <2> QED BY <2>1, <2>2 DEF PostsTypeOK
  <1>2. PostLoaderHasOwner
    <2> SUFFICES ASSUME NEW d \in Devices, Stays(hud[d]), Animating(hud[d]) => hud[d].view \in Alive(d)
                 PROVE  /\ hud[d].view = FeedView => silent[d] # {} \/
                             Expected(d, {"postDeleted", "foundFeeds", "foundNotes", "noteDeleted"})
                        /\ \A k \in 1..MaxScreens : hud[d].view = UploadView(k) => Held(d, k)
      BY DEF PostLoaderHasOwner
    <2>1. hud[d].view = FeedView => silent[d] # {} \/ DeletionComing(d)
      BY DEF LoaderInv, LoaderOwned
    <2>2. ASSUME NEW k \in Screens, hud[d].view = UploadView(k) PROVE Held(d, k)
      <3>1. Owned(d, k)
        BY <2>2 DEF LoaderInv, LoaderOwned
      <3>2. CASE UploadComing(d, k)
        BY <3>2, HeldComing DEF TypesInv
      <3>3. CASE hud[d].phase = "showing" /\ ~Presented(d, k)
        BY <2>2, <3>3, LoaderMoves DEF Animating, Alive, Presented
      <3> QED BY <3>1, <3>2, <3>3 DEF Owned
    <2> QED BY <2>1, <2>2, ExpectedFrom DEF Screens
  <1> QED BY <1>1, <1>2 DEF PostsInv

\* When the server and Storage answer every call, a loader that stays on the feed always
\* has a call in flight whose completion block dismisses it, except after a deletion that
\* found no notification (PostService.deletePost then never calls its completion); and a
\* loader that stays in an upload screen always has an upload from that very screen in
\* flight, whose block dismisses it or is the last to retain the screen, so that no loader
\* is ignored because the one HUD was left in a screen that is gone.  Also after any
\* number of shares, on any number of screens.
THEOREM PostsSafe == ASSUME ~Failures PROVE Spec => []PostsInv
  <1>1. Init => TypesInv /\ LoaderInv
    BY InitTypes, InitLoader
  <1>2. TypesInv /\ LoaderInv /\ [Next]_vars => TypesInv' /\ LoaderInv'
    BY NextTypes, NextLoader
  <1>3. TypesInv /\ LoaderInv => PostsInv
    BY PostsInvFrom
  <1> QED BY <1>1, <1>2, <1>3, PTL DEF Spec

-----------------------------------------------------------------------------
(* The writes are apart by the documents they write.                       *)

LEMMA PathClasses ==
    ASSUME NEW w \in PostWrites, NEW p \in PostIds, NEW u \in Users
    PROVE  /\ PostLike(p, u) \in w.paths => w \in MarkWrites(p, u)
           /\ UserLike(u, p) \in w.paths => w \in LikeWrites(p, u) \/ w \in UnlikeWrites(p)
           /\ NoteDoc(p, u) \in w.paths => w \in NoteWrites(p, u) \/ w \in UnnoteWrites(p)
           /\ PostDoc(p) \in w.paths => \/ p \in NewIds /\ w \in StoreWrites(p)
                                        \/ w \in CountWrites(p) \/ w \in DropWrites(p)
  <1> DEFINE G == /\ PostLike(p, u) \in w.paths => w \in MarkWrites(p, u)
                  /\ UserLike(u, p) \in w.paths => w \in LikeWrites(p, u) \/ w \in UnlikeWrites(p)
                  /\ NoteDoc(p, u) \in w.paths => w \in NoteWrites(p, u) \/ w \in UnnoteWrites(p)
                  /\ PostDoc(p) \in w.paths => \/ p \in NewIds /\ w \in StoreWrites(p)
                                               \/ w \in CountWrites(p) \/ w \in DropWrites(p)
  <1>1. ASSUME NEW q \in NewIds, w \in StoreWrites(q) PROVE G
    <2>1. w.paths = {PostDoc(q)}
      BY <1>1, StoreFacts
    <2> QED BY <1>1, <2>1, PathsApart
  <1>2. ASSUME NEW q \in PostIds, w \in CountWrites(q) \/ w \in DropWrites(q) PROVE G
    <2>1. w.paths = {PostDoc(q)}
      BY <1>2, CountFacts, DropFacts
    <2> QED BY <1>2, <2>1, PathsApart
  <1>3. ASSUME NEW q \in PostIds, w \in UnlikeWrites(q) PROVE G
    <2>1. \A x \in w.paths : \E v \in Users : x = UserLike(v, q)
      BY <1>3, UnlikeFacts DEF UserLikes
    <2> QED BY <1>3, <2>1, PathsApart
  <1>4. ASSUME NEW q \in PostIds, w \in UnnoteWrites(q) PROVE G
    <2>1. \A x \in w.paths : \E v \in Users : x = NoteDoc(q, v)
      BY <1>4, UnnoteFacts DEF Notes
    <2> QED BY <1>4, <2>1, PathsApart
  <1>5. ASSUME NEW q \in PostIds, NEW v \in Users, w \in MarkWrites(q, v) PROVE G
    <2>1. w.paths = {PostLike(q, v)}
      BY <1>5, MarkFacts
    <2> QED BY <1>5, <2>1, PathsApart
  <1>6. ASSUME NEW q \in PostIds, NEW v \in Users, w \in LikeWrites(q, v) PROVE G
    <2>1. w.paths = {UserLike(v, q)}
      BY <1>6, LikeFacts
    <2> QED BY <1>6, <2>1, PathsApart
  <1>7. ASSUME NEW q \in PostIds, NEW v \in Users, w \in NoteWrites(q, v) PROVE G
    <2>1. w.paths = {NoteDoc(q, v)}
      BY <1>7, NoteFacts
    <2> QED BY <1>7, <2>1, PathsApart
  <1> HIDE DEF G
  <1>8. G
    BY <1>1, <1>2, <1>3, <1>4, <1>5, <1>6, <1>7, WriteCases
  <1> QED BY <1>8 DEF G

\* The writes of a like, by their document.
LEMMA LikingFacts ==
    ASSUME NEW p \in PostIds, NEW w \in LikingWrites(p)
    PROVE  /\ \E u \in Users : w \in MarkWrites(p, u) \/ w \in LikeWrites(p, u) \/ w \in NoteWrites(p, u)
           /\ \E u \in Users : w.paths = {PostLike(p, u)} \/ w.paths = {UserLike(u, p)} \/ w.paths = {NoteDoc(p, u)}
           /\ w.data # NoDoc /\ ~w.upd
  <1>1. PICK u \in Users : w \in MarkWrites(p, u) \/ w \in LikeWrites(p, u) \/ w \in NoteWrites(p, u)
    BY DEF LikingWrites
  <1> QED BY <1>1, MarkFacts, LikeFacts, NoteFacts

LEMMA NotLiking ==
    /\ \A q \in NewIds : \A w \in StoreWrites(q) : \A p \in PostIds : w \notin LikingWrites(p)
    /\ \A q \in PostIds : \A w \in CountWrites(q) \cup DropWrites(q) \cup UnlikeWrites(q) \cup UnnoteWrites(q) :
          \A p \in PostIds : w \notin LikingWrites(p)
  <1>1. ASSUME NEW q \in NewIds, NEW w \in StoreWrites(q), NEW p \in PostIds, w \in LikingWrites(p) PROVE FALSE
    <2>1. PostDoc(q) \in w.paths
      BY <1>1, StoreFacts
    <2> QED BY <1>1, <2>1, LikingFacts, PathsApart
  <1>2. ASSUME NEW q \in PostIds, NEW w \in CountWrites(q), NEW p \in PostIds PROVE w \notin LikingWrites(p)
    BY CountFacts, LikingFacts
  <1>3. ASSUME NEW q \in PostIds, NEW w \in DropWrites(q) \cup UnlikeWrites(q) \cup UnnoteWrites(q), NEW p \in PostIds
        PROVE  w \notin LikingWrites(p)
    <2>1. w.data = NoDoc
      BY DropFacts, UnlikeFacts, UnnoteFacts
    <2> QED BY <2>1, LikingFacts
  <1> QED BY <1>1, <1>2, <1>3

LEMMA NotDrops ==
    /\ \A q \in NewIds : \A w \in StoreWrites(q) : w \notin Drops
    /\ \A q \in PostIds : \A w \in CountWrites(q) \cup UnlikeWrites(q) \cup UnnoteWrites(q) : w \notin Drops
    /\ \A q \in PostIds : \A w \in LikingWrites(q) : w \notin Drops
    /\ \A p \in PostIds : DropWrites(p) \subseteq Drops
    /\ \A p, q \in PostIds : \A w \in DropWrites(p) : w \in DropWrites(q) => p = q
  <1>1. ASSUME NEW w \in Drops PROVE w.data = NoDoc /\ ~w.upd /\ w.then # NoThen /\ w.then.kind = "postDeleted"
    BY DropFacts DEF Drops
  <1>2. \A q \in NewIds : \A w \in StoreWrites(q) : w \notin Drops
    BY <1>1, StoreFacts
  <1>3. ASSUME NEW q \in PostIds, NEW w \in CountWrites(q) \cup UnlikeWrites(q) \cup UnnoteWrites(q)
        PROVE  w \notin Drops
    BY <1>1, CountFacts, UnlikeFacts, UnnoteFacts
  <1>4. \A q \in PostIds : \A w \in LikingWrites(q) : w \notin Drops
    BY <1>1, LikingFacts
  <1>5. ASSUME NEW p \in PostIds, NEW q \in PostIds, NEW w \in DropWrites(p), w \in DropWrites(q) PROVE p = q
    <2>1. w.paths = {PostDoc(p)} /\ w.paths = {PostDoc(q)}
      BY <1>5, DropFacts
    <2> QED BY <2>1, PathsApart
  <1> QED BY <1>2, <1>3, <1>4, <1>5, WriteClasses

\* What stays of a write that is answered in part.
LEMMA TrimFacts ==
    ASSUME NEW w \in PostWrites, NEW path \in w.paths, w.paths # {path}
    PROVE  \E q \in PostIds :
             \/ w \in UnlikeWrites(q) /\ Trimmed(w, path) \in UnlikeWrites(q)
             \/ w \in UnnoteWrites(q) /\ Trimmed(w, path) \in UnnoteWrites(q)
  <1>1. ASSUME NEW q \in NewIds, w \in StoreWrites(q) PROVE FALSE
    BY <1>1, StoreFacts
  <1>2. ASSUME NEW q \in PostIds, w \in CountWrites(q) \/ w \in DropWrites(q) PROVE FALSE
    BY <1>2, CountFacts, DropFacts
  <1>3. ASSUME NEW q \in PostIds, NEW v \in Users,
               w \in MarkWrites(q, v) \/ w \in LikeWrites(q, v) \/ w \in NoteWrites(q, v)
        PROVE  FALSE
    BY <1>3, MarkFacts, LikeFacts, NoteFacts
  <1>4. PICK q \in PostIds : w \in UnlikeWrites(q) \/ w \in UnnoteWrites(q)
    BY <1>1, <1>2, <1>3, WriteCases
  <1> QED BY <1>4, UnlikeFacts, UnnoteFacts

LEMMA NotMarking ==
    /\ \A w : \A p \in PostIds, u \in Users : w \in MarkWrites(p, u) \cup LikeWrites(p, u) \cup NoteWrites(p, u)
          => w \in LikingWrites(p)
    /\ \A p, q \in PostIds, u, v \in Users : \A w :
          /\ w \in MarkWrites(p, u) /\ w \in MarkWrites(q, v) => p = q /\ u = v
          /\ w \in LikeWrites(p, u) /\ w \in LikeWrites(q, v) => p = q /\ u = v
          /\ w \in MarkWrites(p, u) => w \notin LikeWrites(q, v) /\ w \notin NoteWrites(q, v)
          /\ w \in LikeWrites(p, u) => w \notin NoteWrites(q, v)
  <1>1. \A w : \A p \in PostIds, u \in Users : w \in MarkWrites(p, u) \cup LikeWrites(p, u) \cup NoteWrites(p, u)
          => w \in LikingWrites(p)
    BY DEF LikingWrites
  <1>2. \A p \in PostIds, u \in Users : \A w \in MarkWrites(p, u) : w.paths = {PostLike(p, u)}
    BY MarkFacts
  <1>3. \A p \in PostIds, u \in Users : \A w \in LikeWrites(p, u) : w.paths = {UserLike(u, p)}
    BY LikeFacts
  <1>4. \A p \in PostIds, u \in Users : \A w \in NoteWrites(p, u) : w.paths = {NoteDoc(p, u)}
    BY NoteFacts
  <1>5. \A x, y : {x} = {y} => x = y
    OBVIOUS
  <1>6. ASSUME NEW p \in PostIds, NEW q \in PostIds, NEW u \in Users, NEW v \in Users, NEW w
        PROVE  /\ w \in MarkWrites(p, u) /\ w \in MarkWrites(q, v) => p = q /\ u = v
               /\ w \in LikeWrites(p, u) /\ w \in LikeWrites(q, v) => p = q /\ u = v
    <2>1. w \in MarkWrites(p, u) /\ w \in MarkWrites(q, v) => PostLike(p, u) = PostLike(q, v)
      BY <1>2, <1>5
    <2>2. w \in LikeWrites(p, u) /\ w \in LikeWrites(q, v) => UserLike(u, p) = UserLike(v, q)
      BY <1>3, <1>5
    <2> QED BY <2>1, <2>2, PathsApart
  <1>7. ASSUME NEW p \in PostIds, NEW q \in PostIds, NEW u \in Users, NEW v \in Users, NEW w
        PROVE  /\ w \in MarkWrites(p, u) => w \notin LikeWrites(q, v) /\ w \notin NoteWrites(q, v)
               /\ w \in LikeWrites(p, u) => w \notin NoteWrites(q, v)
    <2>1. PostLike(p, u) # UserLike(v, q) /\ PostLike(p, u) # NoteDoc(q, v) /\ UserLike(u, p) # NoteDoc(q, v)
      BY PathsApart
    <2>2. w \in MarkWrites(p, u) => w \notin LikeWrites(q, v)
      BY <1>2, <1>3, <1>5, <2>1
    <2>3. w \in MarkWrites(p, u) => w \notin NoteWrites(q, v)
      BY <1>2, <1>4, <1>5, <2>1
    <2>4. w \in LikeWrites(p, u) => w \notin NoteWrites(q, v)
      BY <1>3, <1>4, <1>5, <2>1
    <2> QED BY <2>2, <2>3, <2>4
  <1> QED BY <1>1, <1>6, <1>7

-----------------------------------------------------------------------------
(* Steps that change no document: what joins the queues of d, what leaves. *)

Moved(d, W, RO, RI, BO, BI) ==
    /\ docs' = docs
    /\ \A e \in Devices \ {d} : queue'[e] = queue[e] /\ gets'[e] = gets[e] /\ mainq'[e] = mainq[e]
    /\ Range(queue'[d]) = Range(queue[d]) \cup W
    /\ Range(gets[d]) \subseteq RO \cup Range(gets'[d]) /\ Range(gets'[d]) \subseteq Range(gets[d]) \cup RI
    /\ RO \subseteq Range(gets[d]) /\ RI \subseteq Range(gets'[d])
    /\ Range(mainq[d]) \subseteq BO \cup Range(mainq'[d]) /\ Range(mainq'[d]) \subseteq Range(mainq[d]) \cup BI
    /\ BO \subseteq Range(mainq[d]) /\ BI \subseteq Range(mainq'[d])

LEMMA RanMoved ==
    ASSUME NEW d \in Devices, NEW b, NEW ws, NEW rs, Ran(d, b, ws, rs)
    PROVE  Moved(d, Range(ws), {}, Range(rs), {b}, {})
  BY DEF Ran, Taken, Moved

LEMMA IssuedMoved ==
    ASSUME NEW d \in Devices, NEW ws, NEW rs, Issued(d, ws, rs)
    PROVE  Moved(d, Range(ws), {}, Range(rs), {}, {})
  BY DEF Issued, Moved

LEMMA ResolvedMoved ==
    ASSUME NEW d \in Devices, NEW r, Resolved(d, r)
    PROVE  Moved(d, {}, {r}, {}, {}, {[then |-> r.then, res |-> [path \in r.paths |-> View(d, path)]]})
  <1>1. PICK b : b = [then |-> r.then, res |-> [path \in r.paths |-> View(d, path)]]
    OBVIOUS
  <1>2. Moved(d, {}, {r}, {}, {}, {b})
    BY <1>1 DEF Resolved, Moved
  <1> QED BY <1>1, <1>2

-----------------------------------------------------------------------------
(* A deletion leaves nothing behind.                                       *)

LEMMA PairedMoved ==
    ASSUME MarksPaired, NEW d \in Devices, NEW W, NEW RO, NEW RI, NEW BO, NEW BI, Moved(d, W, RO, RI, BO, BI),
           \A w \in W : \A p \in PostIds, u \in Users :
              /\ w \in MarkWrites(p, u) => u = UidOf[d]
              /\ w \in LikeWrites(p, u) => Marked(p, u),
           \A b \in BI : \A p \in PostIds : b \notin MarkBlocks(p)
    PROVE  MarksPaired'
  <1>1. docs' = docs
    BY DEF Moved
  <1>2. \A p, u : Marked(p, u)' <=> Marked(p, u)
    BY <1>1 DEF Marked
  <1>3. \A p \in PostIds, u \in Users : docs'[UserLike(u, p)] # NoDoc => Marked(p, u)'
    BY <1>1, <1>2 DEF MarksPaired
  <1>4. ASSUME NEW e \in Devices, NEW w \in Range(queue'[e]), NEW p \in PostIds, NEW u \in Users
        PROVE  /\ w \in MarkWrites(p, u) => u = UidOf[e]
               /\ w \in LikeWrites(p, u) => Marked(p, u)'
    <2>1. w \in Range(queue[e]) \/ (e = d /\ w \in W)
      BY DEF Moved
    <2>2. CASE w \in Range(queue[e])
      BY <1>2, <2>2 DEF MarksPaired
    <2>3. CASE e = d /\ w \in W
      BY <1>2, <2>3
    <2> QED BY <2>1, <2>2, <2>3
  <1>5. ASSUME NEW e \in Devices, NEW b \in Range(mainq'[e]), NEW p \in PostIds, b \in MarkBlocks(p)
        PROVE  Marked(p, UidOf[e])'
    <2>1. b \in Range(mainq[e]) \/ b \in BI
      BY DEF Moved
    <2>2. b \in Range(mainq[e])
      BY <1>5, <2>1
    <2> QED BY <1>2, <1>5, <2>2 DEF MarksPaired
  <1> QED BY <1>3, <1>4, <1>5 DEF MarksPaired

DropBlockKinds == {"foundLikes", "postDeleted", "foundFeeds", "foundNotes"}

LEMMA ApartKept ==
    ASSUME LikesApart, hasty' = hasty,
           \A e \in Devices, p \in PostIds : Liking(e, p)' => Liking(e, p),
           \A e \in Devices : Dropping(e)' => Dropping(e),
           \A p \in PostIds : Exists(p) /\ (\A e \in Devices : ~Dropping(e)) => Exists(p)'
    PROVE  LikesApart'
  BY DEF LikesApart

LEMMA ApartMoved ==
    ASSUME LikesApart, hasty' = hasty,
           NEW d \in Devices, NEW W, NEW RO, NEW RI, NEW BO, NEW BI, Moved(d, W, RO, RI, BO, BI),
           \A p \in PostIds : /\ (\E w \in W : w \in LikingWrites(p)) => Liking(d, p)
                              /\ \A b \in BI : b \notin MarkBlocks(p) /\ b \notin LikedBlocks(p),
           W \cap Drops = {},
           (\E r \in RI : r # FeedRead) \/ (\E b \in BI : b.then.kind \in DropBlockKinds) => Dropping(d)
    PROVE  LikesApart'
  <1>1. ASSUME NEW e \in Devices, NEW p \in PostIds, Liking(e, p)' PROVE Liking(e, p)
    <2>1. CASE e = d
      <3>1. CASE \E w \in W : w \in LikingWrites(p)
        BY <2>1, <3>1
      <3>2. CASE ~\E w \in W : w \in LikingWrites(p)
        BY <1>1, <2>1, <3>2 DEF Liking, Moved
      <3> QED BY <3>1, <3>2
    <2>2. CASE e # d
      BY <1>1, <2>2 DEF Liking, Moved
    <2> QED BY <2>1, <2>2
  <1>2. ASSUME NEW e \in Devices, Dropping(e)' PROVE Dropping(e)
    <2>1. CASE e = d
      BY <1>2, <2>1 DEF Dropping, Moved, DropBlockKinds
    <2>2. CASE e # d
      BY <1>2, <2>2 DEF Dropping, Moved
    <2> QED BY <2>1, <2>2
  <1>3. \A p \in PostIds : Exists(p) => Exists(p)'
    BY DEF Moved, Exists
  <1> QED BY <1>1, <1>2, <1>3, ApartKept

LEMMA CleaningMoved ==
    ASSUME Cleaning, hasty' = hasty,
           NEW d \in Devices, NEW W, NEW RO, NEW RI, NEW BO, NEW BI, Moved(d, W, RO, RI, BO, BI),
           W \cap Drops = {},
           \A p \in OldPosts, u \in Users :
              docs[UserLike(u, p)] # NoDoc /\
              (\/ LikesRead(p) \in RO
               \/ \E b \in BO : b \in LikesBlocks(p) /\ b.res[PostLike(p, u)] # NoDoc) => UnlikeComing(p, u)',
           \A p \in OldPosts, u \in Users :
              docs[NoteDoc(p, u)] # NoDoc /\
              (\/ FeedsRead(p) \in RO \/ NotesRead(p) \in RO
               \/ \E b \in BO : \/ b \in DropBlocks(p) \cup FeedsBlocks(p)
                                \/ b \in NotesBlocks(p) /\ b.res[NoteDoc(p, u)] # NoDoc) => UnnoteComing(p, u)'
    PROVE  Cleaning'
  <1> SUFFICES ASSUME ~hasty, NEW p \in OldPosts, NEW u \in Users
               PROVE  /\ Dropped(p)' /\ docs'[UserLike(u, p)] # NoDoc => UnlikeComing(p, u)'
                      /\ ~Exists(p)' /\ docs'[NoteDoc(p, u)] # NoDoc => UnnoteComing(p, u)'
    BY DEF Cleaning
  <1>1. docs' = docs /\ (Exists(p)' <=> Exists(p)) /\ p \in PostIds
    BY FeedPostFacts DEF Moved, Exists
  <1>2. Dropped(p)' => Dropped(p)
    <2>1. ASSUME NEW e \in Devices, NEW w \in Range(queue'[e]), w \in DropWrites(p) PROVE w \in Range(queue[e])
      <3>1. w \in Drops
        BY <1>1, <2>1, NotDrops
      <3> QED BY <2>1, <3>1 DEF Moved
    <2> QED BY <1>1, <2>1 DEF Dropped
  <1>3. ASSUME Dropped(p)', docs'[UserLike(u, p)] # NoDoc PROVE UnlikeComing(p, u)'
    <2>1. UnlikeComing(p, u)
      BY <1>1, <1>2, <1>3 DEF Cleaning
    <2>2. PICK e \in Devices :
        \/ LikesRead(p) \in Range(gets[e])
        \/ \E b \in Range(mainq[e]) : b \in LikesBlocks(p) /\ b.res[PostLike(p, u)] # NoDoc
        \/ \E w \in Range(queue[e]) : w \in UnlikeWrites(p) /\ UserLike(u, p) \in w.paths
      BY <2>1 DEF UnlikeComing
    <2>3. CASE \/ LikesRead(p) \in Range(gets'[e])
               \/ \E b \in Range(mainq'[e]) : b \in LikesBlocks(p) /\ b.res[PostLike(p, u)] # NoDoc
               \/ \E w \in Range(queue'[e]) : w \in UnlikeWrites(p) /\ UserLike(u, p) \in w.paths
      BY <2>3 DEF UnlikeComing
    <2>4. CASE e = d /\ (\/ LikesRead(p) \in RO
                         \/ \E b \in BO : b \in LikesBlocks(p) /\ b.res[PostLike(p, u)] # NoDoc)
      BY <1>1, <1>3, <2>4
    <2> QED BY <2>2, <2>3, <2>4 DEF Moved
  <1>4. ASSUME ~Exists(p)', docs'[NoteDoc(p, u)] # NoDoc PROVE UnnoteComing(p, u)'
    <2>1. UnnoteComing(p, u)
      BY <1>1, <1>4 DEF Cleaning
    <2>2. PICK e \in Devices :
        \/ FeedsRead(p) \in Range(gets[e]) \/ NotesRead(p) \in Range(gets[e])
        \/ \E b \in Range(mainq[e]) :
              \/ b \in DropBlocks(p) \cup FeedsBlocks(p)
              \/ b \in NotesBlocks(p) /\ b.res[NoteDoc(p, u)] # NoDoc
        \/ \E w \in Range(queue[e]) : w \in UnnoteWrites(p) /\ NoteDoc(p, u) \in w.paths
      BY <2>1 DEF UnnoteComing
    <2>3. CASE \/ FeedsRead(p) \in Range(gets'[e]) \/ NotesRead(p) \in Range(gets'[e])
               \/ \E b \in Range(mainq'[e]) :
                     \/ b \in DropBlocks(p) \cup FeedsBlocks(p)
                     \/ b \in NotesBlocks(p) /\ b.res[NoteDoc(p, u)] # NoDoc
               \/ \E w \in Range(queue'[e]) : w \in UnnoteWrites(p) /\ NoteDoc(p, u) \in w.paths
      BY <2>3 DEF UnnoteComing
    <2>4. CASE e = d /\ (\/ FeedsRead(p) \in RO \/ NotesRead(p) \in RO
                         \/ \E b \in BO : \/ b \in DropBlocks(p) \cup FeedsBlocks(p)
                                          \/ b \in NotesBlocks(p) /\ b.res[NoteDoc(p, u)] # NoDoc)
      BY <1>1, <1>4, <2>4
    <2> QED BY <2>2, <2>3, <2>4 DEF Moved
  <1> QED BY <1>3, <1>4

\* A block that is no part of a like or a deletion, or is its last.
LEMMA PlainRanClean ==
    ASSUME CleanInv, hasty' = hasty, NEW d \in Devices, NEW b, NEW ws, NEW rs, Ran(d, b, ws, rs),
           b.then.kind \in {"uploaded", "shared", "fetchedPosts", "noteDeleted"},
           Range(ws) \subseteq Stores, Range(rs) \subseteq {FeedRead}
    PROVE  CleanInv'
  <1>1. PICK W : W = Range(ws)
    OBVIOUS
  <1>2. PICK RI : RI = Range(rs)
    OBVIOUS
  <1>3. Moved(d, W, {}, RI, {b}, {})
    BY <1>1, <1>2, RanMoved
  <1>4. \A w \in W : \E q \in NewIds : w \in StoreWrites(q)
    BY <1>1 DEF Stores
  <1>5. \A w \in W : w \notin Drops /\ \A p \in PostIds : w \notin LikingWrites(p)
    BY <1>4, NotDrops, NotLiking
  <1>6. \A w \in W : \A p \in PostIds, u \in Users : w \notin MarkWrites(p, u) /\ w \notin LikeWrites(p, u)
    BY <1>5, NotMarking
  <1>7. MarksPaired'
    BY <1>3, <1>6, PairedMoved DEF CleanInv
  <1>8. W \cap Drops = {} /\ \A r \in RI : r = FeedRead
    BY <1>2, <1>5
  <1>9. LikesApart'
    BY <1>3, <1>5, <1>8, ApartMoved DEF CleanInv
  <1>10. ASSUME NEW p \in PostIds
         PROVE  b \notin LikesBlocks(p) /\ b \notin DropBlocks(p) /\ b \notin FeedsBlocks(p) /\ b \notin NotesBlocks(p)
    BY BlockKinds
  <1>11. \A p \in OldPosts : p \in PostIds
    BY FeedPostFacts
  <1>12. Cleaning'
    BY <1>3, <1>8, <1>10, <1>11, CleaningMoved DEF CleanInv
  <1> QED BY <1>7, <1>9, <1>12 DEF CleanInv

LEMMA PlainBlocksClean ==
    ASSUME TypesInv, CleanInv, hasty' = hasty, NEW d \in Devices,
           uploaded(d) \/ shared(d) \/ fetchedPosts(d) \/ noteDeleted(d)
    PROVE  CleanInv'
  <1>1. CASE uploaded(d)
    <2>1. PICK b \in UploadBlocks : Ran(d, b, <<setData(PostDoc(b.then.p), UidOf[d], Shared(b.then.k))>>, <<>>)
      BY <1>1, uploadedRuns
    <2>2. PICK w : w = setData(PostDoc(b.then.p), UidOf[d], Shared(b.then.k))
      OBVIOUS
    <2>3. b.then.kind = "uploaded" /\ b.then.p \in NewIds /\ b.then.k \in Screens
      BY BlockKinds, ThenFacts
    <2>4. w \in Stores
      BY <2>2, <2>3, SentFacts, FeedPostFacts, WriteClasses
    <2>5. Range(<<w>>) \subseteq Stores /\ Range(<<>>) \subseteq {FeedRead}
      BY <2>4, RangeOfOne, RangeOfEmpty
    <2> QED BY <2>1, <2>2, <2>3, <2>5, PlainRanClean
  <1>2. CASE shared(d)
    <2>1. PICK b \in SharedBlocks : Ran(d, b, <<>>, IF b.res THEN <<FeedRead>> ELSE <<>>)
      BY <1>2, sharedRuns
    <2>2. PICK rs : rs = IF b.res THEN <<FeedRead>> ELSE <<>>
      OBVIOUS
    <2>3. Range(<<>>) \subseteq Stores /\ Range(rs) \subseteq {FeedRead}
      BY <2>2, RangeOfOne, RangeOfEmpty
    <2>4. b.then.kind = "shared"
      BY BlockKinds
    <2> QED BY <2>1, <2>2, <2>3, <2>4, PlainRanClean
  <1>3. CASE fetchedPosts(d)
    <2>1. PICK b \in FeedBlocks : Ran(d, b, <<>>, <<>>)
      BY <1>3, fetchedPostsRuns
    <2>2. Range(<<>>) \subseteq Stores /\ Range(<<>>) \subseteq {FeedRead}
      BY RangeOfEmpty
    <2>3. b.then.kind = "fetchedPosts"
      BY BlockKinds
    <2> QED BY <2>1, <2>2, <2>3, PlainRanClean
  <1>4. CASE noteDeleted(d)
    <2>1. PICK b \in NoteBlocks : Ran(d, b, <<>>, <<FeedRead>>)
      BY <1>4, noteDeletedRuns
    <2>2. Range(<<>>) \subseteq Stores /\ Range(<<FeedRead>>) \subseteq {FeedRead}
      BY RangeOfOne, RangeOfEmpty
    <2>3. b.then.kind = "noteDeleted"
      BY BlockKinds
    <2> QED BY <2>1, <2>2, <2>3, PlainRanClean
  <1> QED BY <1>1, <1>2, <1>3, <1>4

\* The second and the third step of a like.
LEMMA LikeBlocksClean ==
    ASSUME TypesInv, CleanInv, hasty' = hasty, NEW d \in Devices, markedPost(d) \/ liked(d)
    PROVE  CleanInv'
  <1>1. ASSUME NEW p \in PostIds, NEW b \in MarkBlocks(p) \cup LikedBlocks(p), NEW ws, Ran(d, b, ws, <<>>),
               \A w \in Range(ws) : /\ w \in LikeWrites(p, UidOf[d]) \cup NoteWrites(p, UidOf[d])
                                    /\ w \in LikeWrites(p, UidOf[d]) => b \in MarkBlocks(p)
        PROVE  CleanInv'
    <2>1. PICK W : W = Range(ws)
      OBVIOUS
    <2>2. Range(<<>>) = {} /\ UidOf[d] \in Users
      BY RangeOfEmpty, FeedPostFacts
    <2>3. Moved(d, W, {}, {}, {b}, {})
      BY <1>1, <2>1, <2>2, RanMoved
    <2>4. b \in Range(mainq[d])
      BY <2>3 DEF Moved
    <2>5. Liking(d, p)
      BY <2>4 DEF Liking
    <2>6. \A w \in W : w \in LikingWrites(p)
      BY <1>1, <2>1, <2>2, NotMarking
    <2>7. \A w \in W : \A q \in PostIds : w \in LikingWrites(q) => q = p
      <3> SUFFICES ASSUME NEW w \in W, NEW q \in PostIds, w \in LikingWrites(q) PROVE q = p
        OBVIOUS
      <3>1. PICK u \in Users : w.paths = {PostLike(p, u)} \/ w.paths = {UserLike(u, p)} \/ w.paths = {NoteDoc(p, u)}
        BY <2>6, LikingFacts
      <3>2. PICK v \in Users : w.paths = {PostLike(q, v)} \/ w.paths = {UserLike(v, q)} \/ w.paths = {NoteDoc(q, v)}
        BY LikingFacts
      <3>3. \A x, y : {x} = {y} => x = y
        OBVIOUS
      <3>4. /\ PostLike(p, u) = PostLike(q, v) => q = p
            /\ UserLike(u, p) = UserLike(v, q) => q = p
            /\ NoteDoc(p, u) = NoteDoc(q, v) => q = p
            /\ PostLike(p, u) # UserLike(v, q) /\ PostLike(p, u) # NoteDoc(q, v) /\ UserLike(u, p) # NoteDoc(q, v)
            /\ PostLike(q, v) # UserLike(u, p) /\ PostLike(q, v) # NoteDoc(p, u) /\ UserLike(v, q) # NoteDoc(p, u)
        BY PathsApart
      <3>5. \E x \in {PostLike(p, u), UserLike(u, p), NoteDoc(p, u)} :
            \E y \in {PostLike(q, v), UserLike(v, q), NoteDoc(q, v)} : x = y
        BY <3>1, <3>2, <3>3
      <3> QED BY <3>4, <3>5
    <2>8. ASSUME NEW w \in W, NEW q \in PostIds, NEW u \in Users
          PROVE  /\ w \in MarkWrites(q, u) => u = UidOf[d]
                 /\ w \in LikeWrites(q, u) => Marked(q, u)
      <3>1. w \notin MarkWrites(q, u)
        BY <1>1, <2>1, <2>2, NotMarking
      <3>2. ASSUME w \in LikeWrites(q, u) PROVE Marked(q, u)
        <4>1. w \in LikeWrites(p, UidOf[d])
          BY <1>1, <2>1, <2>2, <3>2, NotMarking
        <4>2. b \in MarkBlocks(p)
          BY <1>1, <2>1, <4>1
        <4>3. Marked(p, UidOf[d])
          BY <2>4, <4>2 DEF CleanInv, MarksPaired
        <4> QED BY <2>2, <3>2, <4>1, <4>3, NotMarking
      <3> QED BY <3>1, <3>2
    <2>9. MarksPaired'
      BY <2>3, <2>8, PairedMoved DEF CleanInv
    <2>10. W \cap Drops = {}
      BY <2>6, NotDrops
    <2>11. LikesApart'
      BY <2>3, <2>5, <2>7, <2>10, ApartMoved DEF CleanInv
    <2>12. b.then.kind \in {"markedPost", "liked"}
      BY BlockKinds
    <2>13. ASSUME NEW q \in PostIds
           PROVE  b \notin LikesBlocks(q) /\ b \notin DropBlocks(q) /\ b \notin FeedsBlocks(q) /\ b \notin NotesBlocks(q)
      BY <2>12, BlockKinds
    <2>14. \A q \in OldPosts : q \in PostIds
      BY FeedPostFacts
    <2>15. Cleaning'
      BY <2>3, <2>10, <2>13, <2>14, CleaningMoved DEF CleanInv
    <2> QED BY <2>9, <2>11, <2>15 DEF CleanInv
  <1>2. CASE markedPost(d)
    <2>1. PICK p \in PostIds : \E b \in MarkBlocks(p) : \E w \in LikeWrites(p, UidOf[d]) : Ran(d, b, <<w>>, <<>>)
      BY <1>2, markedPostRuns
    <2>2. PICK b \in MarkBlocks(p) : \E w \in LikeWrites(p, UidOf[d]) : Ran(d, b, <<w>>, <<>>)
      BY <2>1
    <2>3. PICK w \in LikeWrites(p, UidOf[d]) : Ran(d, b, <<w>>, <<>>)
      BY <2>2
    <2>4. Range(<<w>>) = {w}
      BY RangeOfOne
    <2> QED BY <1>1, <2>3, <2>4
  <1>3. CASE liked(d)
    <2>1. PICK p \in PostIds : \E b \in LikedBlocks(p) :
                \/ Ran(d, b, <<>>, <<>>)
                \/ \E w \in NoteWrites(p, UidOf[d]) : Ran(d, b, <<w>>, <<>>)
      BY <1>3, likedRuns
    <2>2. PICK b \in LikedBlocks(p) : \/ Ran(d, b, <<>>, <<>>)
                                      \/ \E w \in NoteWrites(p, UidOf[d]) : Ran(d, b, <<w>>, <<>>)
      BY <2>1
    <2>3. CASE Ran(d, b, <<>>, <<>>)
      BY <1>1, <2>3, RangeOfEmpty
    <2>4. ASSUME NEW w \in NoteWrites(p, UidOf[d]), Ran(d, b, <<w>>, <<>>) PROVE CleanInv'
      <3>1. Range(<<w>>) = {w}
        BY RangeOfOne
      <3>2. w \notin LikeWrites(p, UidOf[d])
        BY NotMarking, FeedPostFacts
      <3> QED BY <1>1, <2>4, <3>1, <3>2
    <2> QED BY <2>2, <2>3, <2>4
  <1> QED BY <1>2, <1>3

\* The steps of a deletion pass on what is to be deleted.
LEMMA DropRanClean ==
    ASSUME CleanInv, hasty' = hasty, NEW d \in Devices, NEW p \in PostIds,
           NEW b \in LikesBlocks(p) \cup DropBlocks(p) \cup FeedsBlocks(p) \cup NotesBlocks(p),
           NEW ws, NEW rs, Ran(d, b, ws, rs),
           \A w \in Range(ws) : w \in UnlikeWrites(p) \cup UnnoteWrites(p),
           \A u \in Users : docs[UserLike(u, p)] # NoDoc /\ b \in LikesBlocks(p) /\ b.res[PostLike(p, u)] # NoDoc
                               => UnlikeComing(p, u)',
           \A u \in Users : docs[NoteDoc(p, u)] # NoDoc /\
                            (\/ b \in DropBlocks(p) \cup FeedsBlocks(p)
                             \/ b \in NotesBlocks(p) /\ b.res[NoteDoc(p, u)] # NoDoc)
                               => UnnoteComing(p, u)'
    PROVE  CleanInv'
  <1>1. PICK W : W = Range(ws)
    OBVIOUS
  <1>2. PICK RI : RI = Range(rs)
    OBVIOUS
  <1>3. Moved(d, W, {}, RI, {b}, {})
    BY <1>1, <1>2, RanMoved
  <1>5. \A w \in W : w \notin Drops /\ \A q \in PostIds : w \notin LikingWrites(q)
    BY <1>1, NotDrops, NotLiking
  <1>6. \A w \in W : \A q \in PostIds, u \in Users : w \notin MarkWrites(q, u) /\ w \notin LikeWrites(q, u)
    BY <1>5, NotMarking
  <1>7. MarksPaired'
    BY <1>3, <1>6, PairedMoved DEF CleanInv
  <1>8. b.then.kind \in DropBlockKinds /\ b.then.p = p
    BY BlockKinds DEF DropBlockKinds
  <1>9. Dropping(d)
    BY <1>3, <1>8 DEF Dropping, Moved, DropBlockKinds
  <1>10. W \cap Drops = {}
    BY <1>5
  <1>11. LikesApart'
    BY <1>3, <1>5, <1>9, <1>10, ApartMoved DEF CleanInv
  <1>12. ASSUME NEW q \in PostIds, q # p
         PROVE  b \notin LikesBlocks(q) /\ b \notin DropBlocks(q) /\ b \notin FeedsBlocks(q) /\ b \notin NotesBlocks(q)
    BY <1>8, <1>12, BlockKinds
  <1>13. \A q \in OldPosts : q \in PostIds
    BY FeedPostFacts
  <1>14. ASSUME NEW q \in OldPosts, NEW u \in Users, docs[UserLike(u, q)] # NoDoc,
                b \in LikesBlocks(q), b.res[PostLike(q, u)] # NoDoc
         PROVE  UnlikeComing(q, u)'
    <2>1. q = p
      BY <1>12, <1>13, <1>14
    <2> QED BY <1>14, <2>1
  <1>15. ASSUME NEW q \in OldPosts, NEW u \in Users, docs[NoteDoc(q, u)] # NoDoc,
                \/ b \in DropBlocks(q) \cup FeedsBlocks(q)
                \/ b \in NotesBlocks(q) /\ b.res[NoteDoc(q, u)] # NoDoc
         PROVE  UnnoteComing(q, u)'
    <2>1. q = p
      BY <1>12, <1>13, <1>15
    <2> QED BY <1>15, <2>1
  <1>16. Cleaning'
    BY <1>3, <1>10, <1>14, <1>15, CleaningMoved DEF CleanInv
  <1> QED BY <1>7, <1>11, <1>16 DEF CleanInv

LEMMA DropKindsApart ==
    /\ \A p \in PostIds : \A b \in LikesBlocks(p) :
          b \notin DropBlocks(p) /\ b \notin FeedsBlocks(p) /\ b \notin NotesBlocks(p)
    /\ \A p \in PostIds : \A b \in DropBlocks(p) : b \notin LikesBlocks(p) /\ b \notin NotesBlocks(p)
    /\ \A p \in PostIds : \A b \in FeedsBlocks(p) : b \notin LikesBlocks(p) /\ b \notin NotesBlocks(p)
    /\ \A p \in PostIds : \A b \in NotesBlocks(p) :
          b \notin LikesBlocks(p) /\ b \notin DropBlocks(p) /\ b \notin FeedsBlocks(p)
  BY BlockKinds

LEMMA foundLikesClean ==
    ASSUME TypesInv, CleanInv, hasty' = hasty, NEW d \in Devices, foundLikes(d)
    PROVE  CleanInv'
  <1>1. PICK p \in PostIds : \E b \in LikesBlocks(p) : \E U \in SUBSET Users :
                /\ U = {u \in Users : b.res[PostLike(p, u)] # NoDoc}
                /\ Ran(d, b, IF U = {} THEN <<>> ELSE <<deleteAll({UserLike(u, p) : u \in U}, NoThen)>>, <<>>)
    BY foundLikesRuns
  <1>2. PICK b \in LikesBlocks(p) : \E U \in SUBSET Users :
                /\ U = {u \in Users : b.res[PostLike(p, u)] # NoDoc}
                /\ Ran(d, b, IF U = {} THEN <<>> ELSE <<deleteAll({UserLike(u, p) : u \in U}, NoThen)>>, <<>>)
    BY <1>1
  <1>3. PICK U \in SUBSET Users :
                /\ U = {u \in Users : b.res[PostLike(p, u)] # NoDoc}
                /\ Ran(d, b, IF U = {} THEN <<>> ELSE <<deleteAll({UserLike(u, p) : u \in U}, NoThen)>>, <<>>)
    BY <1>2
  <1>4. PICK w : w = deleteAll({UserLike(u, p) : u \in U}, NoThen)
    OBVIOUS
  <1>5. PICK ws : ws = IF U = {} THEN <<>> ELSE <<w>>
    OBVIOUS
  <1>6. Ran(d, b, ws, <<>>) /\ Range(ws) = IF U = {} THEN {} ELSE {w}
    BY <1>3, <1>4, <1>5, RangeOfOne, RangeOfEmpty
  <1>7. w \in UnlikeWrites(p) /\ w.paths = {UserLike(u, p) : u \in U}
    <2>1. {UserLike(u, p) : u \in U} \in SUBSET UserLikes(p)
      BY DEF UserLikes
    <2>2. w.paths = {UserLike(u, p) : u \in U}
      BY <1>4 DEF deleteAll, Write
    <2> QED BY <1>4, <2>1, <2>2, SentFacts
  <1>8. ASSUME NEW u \in Users, b.res[PostLike(p, u)] # NoDoc PROVE UnlikeComing(p, u)'
    <2>1. w \in Range(queue'[d]) /\ UserLike(u, p) \in w.paths
      BY <1>3, <1>6, <1>7, <1>8 DEF Ran, Taken
    <2> QED BY <1>7, <2>1 DEF UnlikeComing
  <1>9. \A x \in Range(ws) : x \in UnlikeWrites(p) \cup UnnoteWrites(p)
    BY <1>6, <1>7
  <1> QED BY <1>6, <1>8, <1>9, DropKindsApart, DropRanClean

LEMMA postDeletedClean ==
    ASSUME TypesInv, CleanInv, hasty' = hasty, NEW d \in Devices, postDeleted(d) \/ foundFeeds(d)
    PROVE  CleanInv'
  <1>1. ASSUME NEW p \in PostIds, NEW b \in DropBlocks(p) \cup FeedsBlocks(p), NEW r \in {FeedsRead(p), NotesRead(p)},
               Ran(d, b, <<>>, <<r>>)
        PROVE  CleanInv'
    <2>1. r \in Range(gets'[d])
      BY <1>1, RangeOfOne DEF Ran, Taken
    <2>2. \A u \in Users : UnnoteComing(p, u)'
      BY <2>1 DEF UnnoteComing
    <2>3. \A w \in Range(<<>>) : w \in UnlikeWrites(p) \cup UnnoteWrites(p)
      BY RangeOfEmpty
    <2> QED BY <1>1, <2>2, <2>3, DropKindsApart, DropRanClean
  <1>2. CASE postDeleted(d)
    <2>1. \E p \in PostIds : \E b \in DropBlocks(p) : Ran(d, b, <<>>, <<FeedsRead(p)>>)
      BY <1>2, postDeletedRuns
    <2> QED BY <1>1, <2>1
  <1>3. CASE foundFeeds(d)
    <2>1. \E p \in PostIds : \E b \in FeedsBlocks(p) : Ran(d, b, <<>>, <<NotesRead(p)>>)
      BY <1>3, foundFeedsRuns
    <2> QED BY <1>1, <2>1
  <1> QED BY <1>2, <1>3

LEMMA foundNotesClean ==
    ASSUME TypesInv, CleanInv, hasty' = hasty, NEW d \in Devices, foundNotes(d)
    PROVE  CleanInv'
  <1>1. PICK p \in PostIds : \E b \in NotesBlocks(p) : \E N \in SUBSET Notes(p) :
                /\ N = {x \in Notes(p) : b.res[x] # NoDoc}
                /\ Ran(d, b, IF N = {} THEN <<>> ELSE <<deleteAll(N, NoteDeleted)>>, <<>>)
    BY foundNotesRuns
  <1>2. PICK b \in NotesBlocks(p) : \E N \in SUBSET Notes(p) :
                /\ N = {x \in Notes(p) : b.res[x] # NoDoc}
                /\ Ran(d, b, IF N = {} THEN <<>> ELSE <<deleteAll(N, NoteDeleted)>>, <<>>)
    BY <1>1
  <1>3. PICK N \in SUBSET Notes(p) :
                /\ N = {x \in Notes(p) : b.res[x] # NoDoc}
                /\ Ran(d, b, IF N = {} THEN <<>> ELSE <<deleteAll(N, NoteDeleted)>>, <<>>)
    BY <1>2
  <1>4. PICK w : w = deleteAll(N, NoteDeleted)
    OBVIOUS
  <1>5. PICK ws : ws = IF N = {} THEN <<>> ELSE <<w>>
    OBVIOUS
  <1>6. Ran(d, b, ws, <<>>) /\ Range(ws) = IF N = {} THEN {} ELSE {w}
    BY <1>3, <1>4, <1>5, RangeOfOne, RangeOfEmpty
  <1>7. w \in UnnoteWrites(p) /\ w.paths = N
    <2>1. w.paths = N
      BY <1>4 DEF deleteAll, Write
    <2> QED BY <1>4, <2>1, SentFacts
  <1>8. ASSUME NEW u \in Users, b.res[NoteDoc(p, u)] # NoDoc PROVE UnnoteComing(p, u)'
    <2>1. NoteDoc(p, u) \in N
      BY <1>3, <1>8, PathFacts
    <2>2. w \in Range(queue'[d]) /\ NoteDoc(p, u) \in w.paths
      BY <1>6, <1>7, <2>1 DEF Ran, Taken
    <2> QED BY <1>7, <2>2 DEF UnnoteComing
  <1>9. \A x \in Range(ws) : x \in UnlikeWrites(p) \cup UnnoteWrites(p)
    BY <1>6, <1>7
  <1> QED BY <1>6, <1>8, <1>9, DropKindsApart, DropRanClean

\* A read is answered: whatever is to be deleted is in the answer.
LEMMA ResolveClean ==
    ASSUME TypesInv, CleanInv, hasty' = hasty, NEW d \in Devices, NEW r \in PostReads, Resolved(d, r)
    PROVE  CleanInv'
  <1>1. PICK b : b = [then |-> r.then, res |-> [path \in r.paths |-> View(d, path)]]
    OBVIOUS
  <1>2. Moved(d, {}, {r}, {}, {}, {b}) /\ queue' = queue
    BY <1>1, ResolvedMoved DEF Resolved
  <1>3. b \in PostBlocks /\ b.then = r.then
    BY <1>1, ReadTells
  <1>4. /\ r = FeedRead => b.then.kind = "fetchedPosts"
        /\ b.then.kind \in {"fetchedPosts", "foundLikes", "foundFeeds", "foundNotes"}
    BY <1>3, ReadFacts, ReadCases
  <1>5. \A p \in PostIds : b \notin MarkBlocks(p) /\ b \notin LikedBlocks(p)
    BY <1>4, BlockKinds
  <1>6. MarksPaired'
    BY <1>2, <1>5, PairedMoved DEF CleanInv
  <1>7. b.then.kind \in DropBlockKinds => Dropping(d)
    <2>1. r \in Range(gets[d])
      BY <1>2 DEF Moved
    <2> QED BY <2>1, <1>4 DEF Dropping, DropBlockKinds
  <1>8. LikesApart'
    BY <1>2, <1>5, <1>7, ApartMoved DEF CleanInv
  <1>9. Range(queue[d]) \subseteq PostWrites /\ queue \in QueuesOf(PostWrites)
    BY InQueue DEF TypesInv, FlightOK
  <1>10. b \in Range(mainq'[d])
    BY <1>2 DEF Moved
  <1>11. ASSUME NEW p \in OldPosts, NEW u \in Users, docs[UserLike(u, p)] # NoDoc, LikesRead(p) = r
         PROVE  UnlikeComing(p, u)'
    <2>1. p \in PostIds
      BY FeedPostFacts
    <2>2. b \in LikesBlocks(p)
      BY <1>3, <1>11, ReadFacts, KindOfBlock
    <2>3. b.res[PostLike(p, u)] = View(d, PostLike(p, u))
      <3>1. PostLike(p, u) \in r.paths
        BY <1>11, <2>1, ReadFacts, PathFacts
      <3> QED BY <1>1, <3>1
    <2>4. Marked(p, u)
      BY <1>11, <2>1 DEF CleanInv, MarksPaired
    <2>5. View(d, PostLike(p, u)) # NoDoc
      <3>1. \/ View(d, PostLike(p, u)) = docs[PostLike(p, u)]
            \/ \E w \in Range(queue[d]) : PostLike(p, u) \in w.paths /\ View(d, PostLike(p, u)) = w.data
        BY <1>9, ViewFrom
      <3>2. \A w \in Range(queue[d]) : PostLike(p, u) \in w.paths => w.data # NoDoc
        BY <1>9, <2>1, PathClasses, MarkFacts
      <3> QED BY <2>4, <3>1, <3>2 DEF Marked
    <2> QED BY <1>10, <2>2, <2>3, <2>5 DEF UnlikeComing
  <1>12. ASSUME NEW p \in OldPosts, NEW u \in Users, docs[NoteDoc(p, u)] # NoDoc,
                FeedsRead(p) = r \/ NotesRead(p) = r
         PROVE  UnnoteComing(p, u)'
    <2>1. p \in PostIds
      BY FeedPostFacts
    <2>2. CASE FeedsRead(p) = r
      <3>1. b \in FeedsBlocks(p)
        BY <1>3, <2>2, ReadFacts, KindOfBlock
      <3> QED BY <1>10, <3>1 DEF UnnoteComing
    <2>3. CASE NotesRead(p) = r
      <3>1. b \in NotesBlocks(p)
        BY <1>3, <2>3, ReadFacts, KindOfBlock
      <3>2. b.res[NoteDoc(p, u)] = View(d, NoteDoc(p, u))
        <4>1. NoteDoc(p, u) \in r.paths
          BY <2>1, <2>3, ReadFacts, PathFacts
        <4> QED BY <1>1, <4>1
      <3>3. \/ View(d, NoteDoc(p, u)) = docs[NoteDoc(p, u)]
            \/ \E w \in Range(queue[d]) : NoteDoc(p, u) \in w.paths /\ View(d, NoteDoc(p, u)) = w.data
        BY <1>9, ViewFrom
      <3>4. \A w \in Range(queue[d]) : NoteDoc(p, u) \in w.paths => w.data # NoDoc \/ w \in UnnoteWrites(p)
        BY <1>9, <2>1, PathClasses, NoteFacts
      <3>5. CASE View(d, NoteDoc(p, u)) # NoDoc
        BY <1>10, <3>1, <3>2, <3>5 DEF UnnoteComing
      <3>6. CASE \E w \in Range(queue[d]) : NoteDoc(p, u) \in w.paths /\ w \in UnnoteWrites(p)
        BY <1>2, <3>6 DEF UnnoteComing
      <3> QED BY <1>12, <3>3, <3>4, <3>5, <3>6
    <2> QED BY <1>12, <2>2, <2>3
  <1>13. Cleaning'
    <2>1. {} \cap Drops = {}
      OBVIOUS
    <2> QED BY <1>2, <1>11, <1>12, <2>1, CleaningMoved DEF CleanInv
  <1> QED BY <1>6, <1>8, <1>13 DEF CleanInv

\* An answer, as a step: what is stored, what leaves the queue of d, what it tells.
LEMMA AnswerStores ==
    ASSUME TypesInv, NEW d \in Devices, NEW w \in PostWrites, NEW path \in w.paths,
           AnsweredPart(d, TRUE, w, path)
    PROVE  /\ path \in Paths
           /\ ~w.upd => docs'[path] = w.data
           /\ w.upd => docs'[path] = IF docs[path] = NoDoc THEN NoDoc ELSE w.data
           /\ \A x \in Paths : x # path => docs'[x] = docs[x]
  <1>1. docs' = IF Accepts(w, path) THEN [docs EXCEPT ![path] = w.data] ELSE docs
    BY DEF AnsweredPart
  <1>2. docs \in [Paths -> Contents]
    BY DEF TypesInv, StateOK
  <1>3. path \in Paths
    BY WriteTells
  <1>4. \A x \in Paths : x # path => docs'[x] = docs[x]
    BY <1>1, <1>2, <1>3
  <1>5. (~w.upd => docs'[path] = w.data) /\ (w.upd => docs'[path] = IF docs[path] = NoDoc THEN NoDoc ELSE w.data)
    BY <1>1, <1>2, <1>3 DEF Accepts
  <1> QED BY <1>3, <1>4, <1>5

LEMMA AnswerLeaves ==
    ASSUME NEW d \in Devices, NEW w \in PostWrites, NEW path \in w.paths,
           AnsweredPart(d, TRUE, w, path)
    PROVE  /\ w \in Range(queue[d]) /\ gets' = gets
           /\ \A e \in Devices : \A x \in Range(queue'[e]) :
                 \/ x \in Range(queue[e])
                 \/ \E q \in PostIds : x \in UnlikeWrites(q) \/ x \in UnnoteWrites(q)
           /\ \A e \in Devices : \A x \in Range(queue[e]) : x \in Range(queue'[e]) \/ (e = d /\ x = w)
           /\ w.paths # {path} => Trimmed(w, path) \in Range(queue'[d])
  <1>1. /\ gets' = gets
        /\ \A e \in Devices \ {d} : queue'[e] = queue[e]
        /\ Range(queue[d]) = {w} \cup Range(Tail(queue[d]))
        /\ Range(queue'[d]) = Range(Tail(queue[d])) \cup (IF w.paths = {path} THEN {} ELSE {Trimmed(w, path)})
    BY DEF AnsweredPart
  <1>2. w.paths # {path} => \E q \in PostIds : \/ Trimmed(w, path) \in UnlikeWrites(q)
                                               \/ Trimmed(w, path) \in UnnoteWrites(q)
    BY TrimFacts
  <1>3. ASSUME NEW e \in Devices, NEW x \in Range(queue'[e])
        PROVE  \/ x \in Range(queue[e])
               \/ \E q \in PostIds : x \in UnlikeWrites(q) \/ x \in UnnoteWrites(q)
    BY <1>1, <1>2
  <1>4. \A e \in Devices : \A x \in Range(queue[e]) : x \in Range(queue'[e]) \/ (e = d /\ x = w)
    BY <1>1
  <1> QED BY <1>1, <1>3, <1>4

LEMMA AnswerTells ==
    ASSUME NEW d \in Devices, NEW w \in PostWrites, NEW path \in w.paths,
           AnsweredPart(d, TRUE, w, path)
    PROVE  /\ \A e \in Devices : \A b \in Range(mainq'[e]) :
                 b \in Range(mainq[e]) \/ (e = d /\ w.then # NoThen /\ b.then = w.then)
           /\ \A e \in Devices : Range(mainq[e]) \subseteq Range(mainq'[e])
           /\ w.then # NoThen => \E b \in Range(mainq'[d]) : b.then = w.then /\ b.res \in BOOLEAN
  <1>1. PICK c : c = [then |-> w.then, res |-> TRUE /\ Accepts(w, path)]
    OBVIOUS
  <1>2. /\ \A e \in Devices \ {d} : mainq'[e] = mainq[e]
        /\ Range(mainq'[d]) = Range(mainq[d]) \cup (IF w.then = NoThen THEN {} ELSE {c})
    BY <1>1 DEF AnsweredPart
  <1>3. c.then = w.then /\ c.res \in BOOLEAN
    BY <1>1 DEF Accepts
  <1> QED BY <1>2, <1>3

LEMMA AnswerPaired ==
    ASSUME TypesInv, CleanInv, NEW d \in Devices, NEW w \in PostWrites, NEW path \in w.paths,
           AnsweredPart(d, TRUE, w, path)
    PROVE  MarksPaired'
  <1>1. MarksPaired
    BY DEF CleanInv
  <1>2. /\ path \in Paths /\ w \in Range(queue[d])
        /\ ~w.upd => docs'[path] = w.data
        /\ \A x \in Paths : x # path => docs'[x] = docs[x]
    BY AnswerStores, AnswerLeaves
  <1>3. ASSUME NEW p \in PostIds, NEW u \in Users, Marked(p, u) PROVE Marked(p, u)'
    <2>1. PostLike(p, u) \in Paths
      BY PathFacts
    <2>2. CASE PostLike(p, u) = path
      <3>1. w.data # NoDoc /\ ~w.upd
        BY <2>2, PathClasses, MarkFacts
      <3> QED BY <1>2, <2>2, <3>1 DEF Marked
    <2>3. CASE PostLike(p, u) # path
      BY <1>2, <1>3, <2>1, <2>3 DEF Marked
    <2> QED BY <2>2, <2>3
  <1>4. ASSUME NEW p \in PostIds, NEW u \in Users, docs'[UserLike(u, p)] # NoDoc PROVE Marked(p, u)'
    <2>1. UserLike(u, p) \in Paths
      BY PathFacts
    <2>2. CASE UserLike(u, p) = path
      <3>1. w \in LikeWrites(p, u) \/ w \in UnlikeWrites(p)
        BY <2>2, PathClasses
      <3>2. w \notin UnlikeWrites(p)
        BY <1>2, <1>4, <2>2, UnlikeFacts
      <3>3. Marked(p, u)
        BY <1>1, <1>2, <3>1, <3>2 DEF MarksPaired
      <3> QED BY <1>3, <3>3
    <2>3. CASE UserLike(u, p) # path
      BY <1>1, <1>2, <1>3, <1>4, <2>1, <2>3 DEF MarksPaired
    <2> QED BY <2>2, <2>3
  <1>5. ASSUME NEW e \in Devices, NEW x \in Range(queue'[e]), NEW p \in PostIds, NEW u \in Users
        PROVE  /\ x \in MarkWrites(p, u) => u = UidOf[e]
               /\ x \in LikeWrites(p, u) => Marked(p, u)'
    <2>1. \/ x \in Range(queue[e])
          \/ \E q \in PostIds : x \in UnlikeWrites(q) \/ x \in UnnoteWrites(q)
      BY AnswerLeaves
    <2>2. CASE x \in Range(queue[e])
      BY <1>1, <1>3, <2>2 DEF MarksPaired
    <2>3. CASE \E q \in PostIds : x \in UnlikeWrites(q) \/ x \in UnnoteWrites(q)
      <3>1. x \notin LikingWrites(p)
        BY <2>3, NotLiking
      <3> QED BY <3>1, NotMarking
    <2> QED BY <2>1, <2>2, <2>3
  <1>6. ASSUME NEW e \in Devices, NEW b \in Range(mainq'[e]), NEW p \in PostIds, b \in MarkBlocks(p)
        PROVE  Marked(p, UidOf[e])'
    <2>1. UidOf[e] \in Users
      BY FeedPostFacts
    <2>2. b \in Range(mainq[e]) \/ (e = d /\ w.then # NoThen /\ b.then = w.then)
      BY AnswerTells
    <2>3. CASE b \in Range(mainq[e])
      BY <1>1, <1>3, <1>6, <2>1, <2>3 DEF MarksPaired
    <2>4. CASE e = d /\ w.then # NoThen /\ b.then = w.then
      <3>1. w.then.kind = "markedPost" /\ w.then.post.postId = p
        BY <1>6, <2>4, BlockKinds
      <3>2. PICK u \in Users : w \in MarkWrites(p, u)
        BY <2>4, <3>1, ThenClasses
      <3>3. u = UidOf[d]
        BY <1>1, <1>2, <3>2 DEF MarksPaired
      <3>4. path = PostLike(p, u) /\ w.data # NoDoc /\ ~w.upd
        BY <3>2, MarkFacts
      <3> QED BY <1>2, <2>4, <3>3, <3>4 DEF Marked
    <2> QED BY <2>2, <2>3, <2>4
  <1> QED BY <1>4, <1>5, <1>6 DEF MarksPaired

LEMMA AnswerApart ==
    ASSUME TypesInv, CleanInv, hasty' = hasty, NEW d \in Devices, NEW w \in PostWrites, NEW path \in w.paths,
           AnsweredPart(d, TRUE, w, path)
    PROVE  LikesApart'
  <1>1. w \in Range(queue[d]) /\ gets' = gets
    BY AnswerLeaves
  <1>2. ASSUME NEW e \in Devices, NEW p \in PostIds, Liking(e, p)' PROVE Liking(e, p)
    <2>1. CASE \E x \in Range(queue'[e]) : x \in LikingWrites(p)
      <3>1. PICK x \in Range(queue'[e]) : x \in LikingWrites(p)
        BY <2>1
      <3>2. x \in Range(queue[e]) \/ \E q \in PostIds : x \in UnlikeWrites(q) \/ x \in UnnoteWrites(q)
        BY AnswerLeaves
      <3>3. x \in Range(queue[e])
        BY <3>1, <3>2, NotLiking
      <3> QED BY <3>1, <3>3 DEF Liking
    <2>2. CASE \E b \in Range(mainq'[e]) : b \in MarkBlocks(p) \cup LikedBlocks(p)
      <3>1. PICK b \in Range(mainq'[e]) : b \in MarkBlocks(p) \cup LikedBlocks(p)
        BY <2>2
      <3>2. b \in Range(mainq[e]) \/ (e = d /\ w.then # NoThen /\ b.then = w.then)
        BY AnswerTells
      <3>3. CASE e = d /\ w.then # NoThen /\ b.then = w.then
        <4>1. w.then.kind \in {"markedPost", "liked"} /\ w.then.post.postId = p
          BY <3>1, <3>3, BlockKinds
        <4>2. w \in LikingWrites(p)
          BY <3>3, <4>1, ThenClasses, NotMarking
        <4> QED BY <1>1, <3>3, <4>2 DEF Liking
      <3> QED BY <3>1, <3>2, <3>3 DEF Liking
    <2> QED BY <1>2, <2>1, <2>2 DEF Liking
  <1>3. ASSUME NEW e \in Devices, Dropping(e)' PROVE Dropping(e)
    <2>1. CASE \E x \in Range(queue'[e]) : x \in Drops
      <3>1. PICK x \in Range(queue'[e]) : x \in Drops
        BY <2>1
      <3>2. x \in Range(queue[e]) \/ \E q \in PostIds : x \in UnlikeWrites(q) \/ x \in UnnoteWrites(q)
        BY AnswerLeaves
      <3>3. x \in Range(queue[e])
        BY <3>1, <3>2, NotDrops
      <3> QED BY <3>1, <3>3 DEF Dropping
    <2>2. CASE \E r \in Range(gets'[e]) : r # FeedRead
      BY <1>1, <2>2 DEF Dropping
    <2>3. CASE \E b \in Range(mainq'[e]) : b.then.kind \in DropBlockKinds
      <3>1. PICK b \in Range(mainq'[e]) : b.then.kind \in DropBlockKinds
        BY <2>3
      <3>2. b \in Range(mainq[e]) \/ (e = d /\ w.then # NoThen /\ b.then = w.then)
        BY AnswerTells
      <3>3. CASE e = d /\ w.then # NoThen /\ b.then = w.then
        <4>1. w.then.kind = "postDeleted"
          BY <3>1, <3>3, ThenClasses DEF DropBlockKinds
        <4>2. w \in Drops
          BY <3>3, <4>1, ThenClasses, NotDrops
        <4> QED BY <1>1, <3>3, <4>2 DEF Dropping
      <3> QED BY <3>1, <3>2, <3>3 DEF Dropping, DropBlockKinds
    <2> QED BY <1>3, <2>1, <2>2, <2>3 DEF Dropping, DropBlockKinds
  <1>4. ASSUME NEW p \in PostIds, Exists(p), \A e \in Devices : ~Dropping(e) PROVE Exists(p)'
    <2>1. PostDoc(p) \in Paths
      BY PathFacts
    <2>2. CASE PostDoc(p) = path
      <3>1. w \notin Drops
        BY <1>1, <1>4 DEF Dropping
      <3>2. w \notin DropWrites(p)
        BY <3>1, NotDrops
      <3>3. (p \in NewIds /\ w \in StoreWrites(p)) \/ w \in CountWrites(p)
        <4>1. PICK u : u = UidOf[d]
          OBVIOUS
        <4>2. u \in Users
          BY <4>1, FeedPostFacts
        <4> QED BY <2>2, <3>2, <4>2, PathClasses
      <3>4. w.data # NoDoc
        BY <3>3, StoreFacts, CountFacts
      <3>5. docs[path] # NoDoc
        BY <1>4, <2>2 DEF Exists
      <3>6. docs'[path] = w.data
        BY <3>5, AnswerStores
      <3> QED BY <2>2, <3>4, <3>6 DEF Exists
    <2>3. CASE PostDoc(p) # path
      BY <1>4, <2>1, <2>3, AnswerStores DEF Exists
    <2> QED BY <2>2, <2>3
  <1>5. LikesApart
    BY DEF CleanInv
  <1> QED BY <1>2, <1>3, <1>4, <1>5, ApartKept

\* What is to be deleted stays so until it is deleted.
LEMMA AnswerKeepsComing ==
    ASSUME TypesInv, NEW d \in Devices, NEW w \in PostWrites, NEW path \in w.paths,
           AnsweredPart(d, TRUE, w, path), NEW p \in PostIds, NEW u \in Users
    PROVE  /\ UnlikeComing(p, u) /\ docs'[UserLike(u, p)] # NoDoc => UnlikeComing(p, u)'
           /\ UnnoteComing(p, u) /\ docs'[NoteDoc(p, u)] # NoDoc => UnnoteComing(p, u)'
  <1>1. /\ gets' = gets
        /\ \A e \in Devices : Range(mainq[e]) \subseteq Range(mainq'[e])
    BY AnswerLeaves, AnswerTells
  <1>2. \A e \in Devices : \A x \in Range(queue[e]) : x \in Range(queue'[e]) \/ (e = d /\ x = w)
    BY AnswerLeaves
  <1>3. ~w.upd => docs'[path] = w.data
    BY AnswerStores
  <1>4. w.paths # {path} => Trimmed(w, path) \in Range(queue'[d])
    BY AnswerLeaves
  <1>5. ASSUME UnlikeComing(p, u), docs'[UserLike(u, p)] # NoDoc PROVE UnlikeComing(p, u)'
    <2>1. PICK e \in Devices :
        \/ LikesRead(p) \in Range(gets[e])
        \/ \E b \in Range(mainq[e]) : b \in LikesBlocks(p) /\ b.res[PostLike(p, u)] # NoDoc
        \/ \E x \in Range(queue[e]) : x \in UnlikeWrites(p) /\ UserLike(u, p) \in x.paths
      BY <1>5 DEF UnlikeComing
    <2>2. CASE \/ LikesRead(p) \in Range(gets[e])
               \/ \E b \in Range(mainq[e]) : b \in LikesBlocks(p) /\ b.res[PostLike(p, u)] # NoDoc
      BY <1>1, <2>2 DEF UnlikeComing
    <2>3. ASSUME NEW x \in Range(queue[e]), x \in UnlikeWrites(p), UserLike(u, p) \in x.paths
          PROVE  UnlikeComing(p, u)'
      <3>1. CASE x \in Range(queue'[e])
        BY <2>3, <3>1 DEF UnlikeComing
      <3>2. CASE e = d /\ x = w
        <4>1. path # UserLike(u, p)
          BY <1>3, <1>5, <2>3, <3>2, UnlikeFacts
        <4>2. w.paths # {path}
          BY <2>3, <3>2, <4>1
        <4>3. Trimmed(w, path) \in UnlikeWrites(p) /\ Trimmed(w, path).paths = w.paths \ {path}
          BY <2>3, <3>2, UnlikeFacts
        <4>4. UserLike(u, p) \in Trimmed(w, path).paths
          BY <2>3, <3>2, <4>1, <4>3
        <4> QED BY <1>4, <4>2, <4>3, <4>4 DEF UnlikeComing
      <3> QED BY <1>2, <3>1, <3>2
    <2> QED BY <2>1, <2>2, <2>3
  <1>6. ASSUME UnnoteComing(p, u), docs'[NoteDoc(p, u)] # NoDoc PROVE UnnoteComing(p, u)'
    <2>1. PICK e \in Devices :
        \/ FeedsRead(p) \in Range(gets[e]) \/ NotesRead(p) \in Range(gets[e])
        \/ \E b \in Range(mainq[e]) :
              \/ b \in DropBlocks(p) \cup FeedsBlocks(p)
              \/ b \in NotesBlocks(p) /\ b.res[NoteDoc(p, u)] # NoDoc
        \/ \E x \in Range(queue[e]) : x \in UnnoteWrites(p) /\ NoteDoc(p, u) \in x.paths
      BY <1>6 DEF UnnoteComing
    <2>2. CASE \/ FeedsRead(p) \in Range(gets[e]) \/ NotesRead(p) \in Range(gets[e])
               \/ \E b \in Range(mainq[e]) :
                     \/ b \in DropBlocks(p) \cup FeedsBlocks(p)
                     \/ b \in NotesBlocks(p) /\ b.res[NoteDoc(p, u)] # NoDoc
      BY <1>1, <2>2 DEF UnnoteComing
    <2>3. ASSUME NEW x \in Range(queue[e]), x \in UnnoteWrites(p), NoteDoc(p, u) \in x.paths
          PROVE  UnnoteComing(p, u)'
      <3>1. CASE x \in Range(queue'[e])
        BY <2>3, <3>1 DEF UnnoteComing
      <3>2. CASE e = d /\ x = w
        <4>1. path # NoteDoc(p, u)
          BY <1>3, <1>6, <2>3, <3>2, UnnoteFacts
        <4>2. w.paths # {path}
          BY <2>3, <3>2, <4>1
        <4>3. Trimmed(w, path) \in UnnoteWrites(p) /\ Trimmed(w, path).paths = w.paths \ {path}
          BY <2>3, <3>2, UnnoteFacts
        <4>4. NoteDoc(p, u) \in Trimmed(w, path).paths
          BY <2>3, <3>2, <4>1, <4>3
        <4> QED BY <1>4, <4>2, <4>3, <4>4 DEF UnnoteComing
      <3> QED BY <1>2, <3>1, <3>2
    <2> QED BY <2>1, <2>2, <2>3
  <1> QED BY <1>5, <1>6

LEMMA AnswerCleaning ==
    ASSUME TypesInv, TypesInv', CleanInv, hasty' = hasty, NEW d \in Devices, NEW w \in PostWrites,
           NEW path \in w.paths, AnsweredPart(d, TRUE, w, path)
    PROVE  Cleaning'
  <1> SUFFICES ASSUME ~hasty, NEW p \in OldPosts, NEW u \in Users
               PROVE  /\ Dropped(p)' /\ docs'[UserLike(u, p)] # NoDoc => UnlikeComing(p, u)'
                      /\ ~Exists(p)' /\ docs'[NoteDoc(p, u)] # NoDoc => UnnoteComing(p, u)'
    BY DEF Cleaning
  <1>1. p \in PostIds /\ p \notin NewIds
    BY FeedPostFacts
  <1>2. PostDoc(p) \in Paths /\ UserLike(u, p) \in Paths /\ NoteDoc(p, u) \in Paths
    BY <1>1, PathFacts
  <1>3. w \in Range(queue[d])
    BY AnswerLeaves
  <1>4. /\ ~w.upd => docs'[path] = w.data
        /\ w.upd => docs'[path] = IF docs[path] = NoDoc THEN NoDoc ELSE w.data
        /\ \A x \in Paths : x # path => docs'[x] = docs[x]
    BY AnswerStores
  <1>5. ~Exists(p)' => ~Exists(p) \/ w \in DropWrites(p)
    <2>1. CASE path # PostDoc(p)
      BY <1>2, <1>4, <2>1 DEF Exists
    <2>2. CASE path = PostDoc(p)
      <3>1. w \in CountWrites(p) \/ w \in DropWrites(p)
        BY <1>1, <2>2, PathClasses
      <3>2. w \in CountWrites(p) => w.upd /\ w.data # NoDoc
        BY <1>1, CountFacts
      <3> QED BY <1>4, <2>2, <3>1, <3>2 DEF Exists
    <2> QED BY <2>1, <2>2
  <1>6. Dropped(p)' => Dropped(p)
    <2>1. CASE ~Exists(p)'
      BY <1>3, <1>5, <2>1 DEF Dropped
    <2>2. ASSUME NEW e \in Devices, NEW x \in Range(queue'[e]), x \in DropWrites(p) PROVE Dropped(p)
      <3>1. x \in Range(queue[e]) \/ \E q \in PostIds : x \in UnlikeWrites(q) \/ x \in UnnoteWrites(q)
        BY AnswerLeaves
      <3>2. x \in Range(queue[e])
        BY <1>1, <2>2, <3>1, NotDrops
      <3> QED BY <2>2, <3>2 DEF Dropped
    <2> QED BY <2>1, <2>2 DEF Dropped
  <1>7. ASSUME Liking(d, p) PROVE ~Dropped(p)
    <2>1. Exists(p) /\ \A e \in Devices : ~Dropping(e)
      BY <1>1, <1>7 DEF CleanInv, LikesApart
    <2>2. DropWrites(p) \subseteq Drops
      BY <1>1, NotDrops
    <2> QED BY <2>1, <2>2 DEF Dropped, Dropping
  <1>8. ASSUME Dropped(p)', docs'[UserLike(u, p)] # NoDoc PROVE UnlikeComing(p, u)'
    <2>1. docs[UserLike(u, p)] # NoDoc
      <3>1. CASE UserLike(u, p) = path
        <4>1. w \in LikeWrites(p, u) \/ w \in UnlikeWrites(p)
          BY <1>1, <3>1, PathClasses
        <4>2. w \notin UnlikeWrites(p)
          BY <1>1, <1>4, <1>8, <3>1, UnlikeFacts
        <4>3. w \in LikingWrites(p)
          BY <1>1, <4>1, <4>2, NotMarking
        <4>4. Liking(d, p)
          BY <1>3, <4>3 DEF Liking
        <4> QED BY <1>6, <1>7, <1>8, <4>4
      <3>2. CASE UserLike(u, p) # path
        BY <1>2, <1>4, <1>8, <3>2
      <3> QED BY <3>1, <3>2
    <2>2. UnlikeComing(p, u)
      BY <1>6, <1>8, <2>1 DEF CleanInv, Cleaning
    <2> QED BY <1>1, <1>8, <2>2, AnswerKeepsComing
  <1>9. ASSUME ~Exists(p)', docs'[NoteDoc(p, u)] # NoDoc PROVE UnnoteComing(p, u)'
    <2>1. CASE w \in DropWrites(p)
      <3>1. w.then = PostDeleted(p) /\ w.then # NoThen
        BY <1>1, <2>1, DropFacts
      <3>2. PICK b \in Range(mainq'[d]) : b.then = w.then /\ b.res \in BOOLEAN
        BY <3>1, AnswerTells
      <3>3. b.then.kind = "postDeleted" /\ b.then.p = p
        BY <1>1, <3>1, <3>2, ThenFacts
      <3>4. b \in PostBlocks
        <4>1. mainq' \in QueuesOf(PostBlocks)
          BY DEF TypesInv, FlightOK
        <4> QED BY <3>2, <4>1, InQueue
      <3>5. b \in DropBlocks(p)
        BY <3>3, <3>4, KindOfBlock
      <3> QED BY <3>2, <3>5 DEF UnnoteComing
    <2>2. CASE w \notin DropWrites(p)
      <3>1. ~Exists(p)
        BY <1>5, <1>9, <2>2
      <3>2. docs[NoteDoc(p, u)] # NoDoc
        <4>1. CASE NoteDoc(p, u) = path
          <5>1. w \in NoteWrites(p, u) \/ w \in UnnoteWrites(p)
            BY <1>1, <4>1, PathClasses
          <5>2. w \notin UnnoteWrites(p)
            BY <1>1, <1>4, <1>9, <4>1, UnnoteFacts
          <5>3. w \in LikingWrites(p)
            BY <1>1, <5>1, <5>2, NotMarking
          <5>4. Liking(d, p)
            BY <1>3, <5>3 DEF Liking
          <5> QED BY <1>7, <3>1, <5>4 DEF Dropped
        <4>2. CASE NoteDoc(p, u) # path
          BY <1>2, <1>4, <1>9, <4>2
        <4> QED BY <4>1, <4>2
      <3>3. UnnoteComing(p, u)
        BY <3>1, <3>2 DEF CleanInv, Cleaning
      <3> QED BY <1>1, <1>9, <3>3, AnswerKeepsComing
    <2> QED BY <2>1, <2>2
  <1> QED BY <1>8, <1>9

LEMMA DeliverClean ==
    ASSUME ~Failures, TypesInv, TypesInv', CleanInv, NEW d \in Devices, Deliver(d), hasty' = hasty
    PROVE  CleanInv'
  <1>1. UNCHANGED appVars
    BY DeliverCases
  <1>2. CASE Answer(d, TRUE)
    <2>1. TRUE \in BOOLEAN
      OBVIOUS
    <2>2. PICK w \in PostWrites : \E path \in w.paths : AnsweredPart(d, TRUE, w, path)
      BY <1>1, <1>2, <2>1, AnswerTypes
    <2>3. PICK path \in w.paths : AnsweredPart(d, TRUE, w, path)
      BY <2>2
    <2>4. MarksPaired'
      BY <2>3, AnswerPaired
    <2>5. LikesApart'
      BY <2>3, AnswerApart
    <2>6. Cleaning'
      BY <2>3, AnswerCleaning
    <2> QED BY <2>4, <2>5, <2>6 DEF CleanInv
  <1>3. ASSUME NEW k \in DOMAIN gets[d], Resolve(d, k) PROVE CleanInv'
    <2>1. PICK r \in PostReads : Resolved(d, r)
      BY <1>1, <1>3, ResolveTypes
    <2> QED BY <2>1, ResolveClean
  <1> QED BY <1>2, <1>3, DeliverCases

\* Storage answers, an animation ends: nothing of it is about likes or deletions.
LEMMA StillClean ==
    ASSUME CleanInv, hasty' = hasty, NEW d \in Devices, NEW BI, Moved(d, {}, {}, {}, {}, BI), BI \subseteq UploadBlocks
    PROVE  CleanInv'
  <1>1. \A b \in BI : b.then.kind = "uploaded"
    BY BlockKinds
  <1>2. \A b \in BI : \A p \in PostIds : b \notin MarkBlocks(p) /\ b \notin LikedBlocks(p)
    BY <1>1, BlockKinds
  <1>3. MarksPaired'
    BY <1>2, PairedMoved DEF CleanInv
  <1>4. \A b \in BI : b.then.kind \notin DropBlockKinds
    BY <1>1 DEF DropBlockKinds
  <1>5. {} \cap Drops = {}
    OBVIOUS
  <1>6. LikesApart'
    BY <1>2, <1>4, <1>5, ApartMoved DEF CleanInv
  <1>7. Cleaning'
    BY <1>5, CleaningMoved DEF CleanInv
  <1> QED BY <1>3, <1>6, <1>7 DEF CleanInv

LEMMA StorageClean ==
    ASSUME ~Failures, TypesInv, CleanInv, NEW d \in Devices, NEW i \in DOMAIN calls[d], StorageAnswer(d, i),
           hasty' = hasty
    PROVE  CleanInv'
  <1>1. /\ UNCHANGED <<docs, queue, gets, feed, screens, open, silent, shares>>
        /\ \A e \in Devices \ {d} : calls'[e] = calls[e] /\ mainq'[e] = mainq[e]
    BY StorageTypes
  <1>2. PICK c \in UploadThens :
                /\ Range(calls[d]) = {c} \cup Range(calls'[d])
                /\ \/ Failures /\ mainq' = mainq
                   \/ \E b \in UploadBlocks :
                        /\ b.then = c /\ mainq'[d] = Append(mainq[d], b)
                        /\ Range(mainq'[d]) = Range(mainq[d]) \cup {b}
    BY StorageTypes
  <1>3. PICK b \in UploadBlocks : Range(mainq'[d]) = Range(mainq[d]) \cup {b}
    BY <1>2
  <1>4. Moved(d, {}, {}, {}, {}, {b})
    BY <1>1, <1>3 DEF Moved
  <1>5. {b} \subseteq UploadBlocks
    OBVIOUS
  <1> QED BY <1>4, <1>5, StillClean

\* A touch of a user who waits comes when nothing is in flight: only what it
\* sends itself may be about a like or a deletion.
LEMMA WaitedClean ==
    ASSUME CleanInv, ~hasty, \A e \in Devices : Settled(e),
           NEW d \in Devices, NEW W, NEW RI, Moved(d, W, {}, RI, {}, {}),
           \A p \in PostIds : (\E w \in W : w \in LikingWrites(p)) =>
               Exists(p) /\ W \cap Drops = {} /\ \A r \in RI : r = FeedRead,
           \A p \in OldPosts : (\E w \in W : w \in DropWrites(p)) => LikesRead(p) \in RI
    PROVE  LikesApart' /\ Cleaning'
  <1>1. \A e \in Devices : Range(queue[e]) = {} /\ Range(gets[e]) = {} /\ Range(mainq[e]) = {}
    BY QuietRanges DEF Settled
  <1>2. \A e \in Devices \ {d} : Range(queue'[e]) = {} /\ Range(gets'[e]) = {} /\ Range(mainq'[e]) = {}
    BY <1>1 DEF Moved
  <1>3. Range(queue'[d]) = W /\ Range(gets'[d]) = RI /\ Range(mainq'[d]) = {} /\ docs' = docs
    BY <1>1 DEF Moved
  <1>4. \A p \in PostIds : Exists(p)' <=> Exists(p)
    BY <1>3 DEF Exists
  <1>5. LikesApart'
    <2> SUFFICES ASSUME NEW e \in Devices, NEW p \in PostIds, Liking(e, p)', NEW g \in Devices, Dropping(g)' \/ ~Exists(p)'
                 PROVE  FALSE
      BY DEF LikesApart
    <2>1. \E w \in W : w \in LikingWrites(p)
      BY <1>2, <1>3 DEF Liking
    <2>2. Exists(p)' /\ W \cap Drops = {} /\ \A r \in RI : r = FeedRead
      BY <1>4, <2>1
    <2>3. ~Dropping(g)'
      BY <1>2, <1>3, <2>2 DEF Dropping
    <2> QED BY <2>2, <2>3
  <1>6. Cleaning'
    <2> SUFFICES ASSUME NEW p \in OldPosts, NEW u \in Users
                 PROVE  /\ Dropped(p)' /\ docs'[UserLike(u, p)] # NoDoc => UnlikeComing(p, u)'
                        /\ ~Exists(p)' /\ docs'[NoteDoc(p, u)] # NoDoc => UnnoteComing(p, u)'
      BY DEF Cleaning
    <2>1. p \in PostIds
      BY FeedPostFacts
    <2>2. ~UnlikeComing(p, u) /\ ~UnnoteComing(p, u)
      BY <1>1 DEF UnlikeComing, UnnoteComing
    <2>3. ~Exists(p) => docs[UserLike(u, p)] = NoDoc /\ docs[NoteDoc(p, u)] = NoDoc
      BY <2>2 DEF CleanInv, Cleaning, Dropped
    <2>4. CASE \E w \in W : w \in DropWrites(p)
      <3>1. LikesRead(p) \in Range(gets'[d])
        BY <1>3, <2>4
      <3>2. UnlikeComing(p, u)'
        BY <3>1 DEF UnlikeComing
      <3> QED BY <1>3, <1>4, <2>1, <2>3, <3>2
    <2>5. CASE ~\E w \in W : w \in DropWrites(p)
      <3>1. Dropped(p)' => ~Exists(p)'
        BY <1>2, <1>3, <2>5 DEF Dropped
      <3> QED BY <1>3, <1>4, <2>1, <2>3, <3>1
    <2> QED BY <2>4, <2>5
  <1> QED BY <1>5, <1>6

\* One that is hasty leaves no more to show.
LEMMA HastyClean ==
    ASSUME hasty'
    PROVE  LikesApart' /\ Cleaning'
  BY DEF LikesApart, Cleaning

LEMMA PlainTouchClean ==
    ASSUME TypesInv, CleanInv, NEW d \in Devices,
           didFinishPickingMedia(d) \/ didTapCancel(d) \/ didTapDone(d) \/ handleRefresh(d), Remember(TRUE)
    PROVE  CleanInv'
  <1>1. hasty' \in BOOLEAN /\ (~hasty' => ~hasty /\ \A e \in Devices : Settled(e))
    BY RememberFacts
  <1>2. PICK RI : RI \subseteq {FeedRead} /\ Moved(d, {}, {}, RI, {}, {})
    <2>1. CASE handleRefresh(d)
      <3>1. Issued(d, <<>>, <<FeedRead>>)
        BY <1>1, <2>1, handleRefreshTypes
      <3>2. Range(<<>>) = {} /\ Range(<<FeedRead>>) = {FeedRead}
        BY RangeOfEmpty, RangeOfOne
      <3>3. Moved(d, {}, {}, {FeedRead}, {}, {})
        BY <3>1, <3>2, IssuedMoved
      <3> QED BY <3>3
    <2>2. CASE didFinishPickingMedia(d) \/ didTapCancel(d) \/ didTapDone(d)
      <3>1. UNCHANGED <<docs, queue, gets, mainq>>
        BY <2>2 DEF didFinishPickingMedia, didTapCancel, didTapDone
      <3>2. Moved(d, {}, {}, {}, {}, {})
        BY <3>1 DEF Moved
      <3> QED BY <3>2
    <2> QED BY <2>1, <2>2
  <1>3. MarksPaired'
    BY <1>2, PairedMoved DEF CleanInv
  <1>4. LikesApart' /\ Cleaning'
    <2>1. CASE hasty'
      BY <2>1, HastyClean
    <2>2. CASE ~hasty'
      BY <1>1, <1>2, <2>2, WaitedClean
    <2> QED BY <2>1, <2>2
  <1> QED BY <1>3, <1>4 DEF CleanInv

LEMMA deletePostClean ==
    ASSUME TypesInv, CleanInv, NEW d \in Devices, NEW post \in feed[d], deletePost(d, post), Remember(TRUE)
    PROVE  CleanInv'
  <1>1. hasty' \in BOOLEAN /\ (~hasty' => ~hasty /\ \A e \in Devices : Settled(e))
    BY RememberFacts
  <1>2. PICK p \in PostIds : \E w \in DropWrites(p) : Issued(d, <<w>>, <<LikesRead(p)>>)
    BY <1>1, deletePostTypes
  <1>3. PICK w \in DropWrites(p) : Issued(d, <<w>>, <<LikesRead(p)>>)
    BY <1>2
  <1>4. Range(<<w>>) = {w} /\ Range(<<LikesRead(p)>>) = {LikesRead(p)}
    BY RangeOfOne
  <1>5. Moved(d, {w}, {}, {LikesRead(p)}, {}, {})
    BY <1>3, <1>4, IssuedMoved
  <1>6. \A q \in PostIds : w \notin LikingWrites(q) /\ (w \in DropWrites(q) => q = p)
    BY NotLiking, NotDrops
  <1>7. \A q \in PostIds, u \in Users : w \notin MarkWrites(q, u) /\ w \notin LikeWrites(q, u)
    BY <1>6, NotMarking
  <1>8. MarksPaired'
    BY <1>5, <1>7, PairedMoved DEF CleanInv
  <1>9. LikesApart' /\ Cleaning'
    <2>1. CASE hasty'
      BY <2>1, HastyClean
    <2>2. CASE ~hasty'
      <3>1. OldPosts \subseteq PostIds
        BY DEF PostIds
      <3> QED BY <1>1, <1>5, <1>6, <2>2, <3>1, WaitedClean
    <2> QED BY <2>1, <2>2
  <1> QED BY <1>8, <1>9 DEF CleanInv

LEMMA didLikeClean ==
    ASSUME TypesInv, CleanInv, NEW d \in Devices, NEW post \in feed[d], didLike(d, post),
           Remember(Exists(post.postId))
    PROVE  CleanInv'
  <1>1. Exists(post.postId) \in BOOLEAN
    BY DEF Exists
  <1>2. /\ hasty' \in BOOLEAN
        /\ ~hasty' => ~hasty /\ Exists(post.postId) /\ \A e \in Devices : Settled(e)
    BY <1>1, RememberFacts
  <1>3. PICK p \in PostIds : \E c \in CountWrites(p) : \E w \in MarkWrites(p, UidOf[d]) :
           post.postId = p /\ c.data = post.ownerUid /\ Issued(d, <<c, w>>, <<>>)
    BY <1>2, didLikeTypes
  <1>4. PICK c \in CountWrites(p) : \E w \in MarkWrites(p, UidOf[d]) : post.postId = p /\ Issued(d, <<c, w>>, <<>>)
    BY <1>3
  <1>5. PICK w \in MarkWrites(p, UidOf[d]) : post.postId = p /\ Issued(d, <<c, w>>, <<>>)
    BY <1>4
  <1>6. Range(<<c, w>>) = {c, w} /\ Range(<<>>) = {}
    BY RangeOfEmpty DEF Range
  <1>7. Moved(d, {c, w}, {}, {}, {}, {})
    BY <1>5, <1>6, IssuedMoved
  <1>8. UidOf[d] \in Users
    BY PostsAssumption
  <1>9. /\ \A q \in PostIds : c \notin LikingWrites(q)
        /\ \A q \in PostIds, u \in Users : c \notin MarkWrites(q, u) /\ c \notin LikeWrites(q, u)
    BY NotLiking, NotMarking
  <1>10. \A q \in PostIds, u \in Users : (w \in MarkWrites(q, u) => q = p /\ u = UidOf[d]) /\ w \notin LikeWrites(q, u)
    BY <1>8, NotMarking
  <1>11. MarksPaired'
    BY <1>7, <1>9, <1>10, PairedMoved DEF CleanInv
  <1>12. \A q \in PostIds : w \in LikingWrites(q) => q = p
    <2> SUFFICES ASSUME NEW q \in PostIds, w \in LikingWrites(q) PROVE q = p
      OBVIOUS
    <2>1. PICK u \in Users : w \in MarkWrites(q, u) \/ w \in LikeWrites(q, u) \/ w \in NoteWrites(q, u)
      BY LikingFacts
    <2> QED BY <1>8, <2>1, NotMarking
  <1>13. w \in LikingWrites(p)
    BY <1>8, NotMarking
  <1>14. {c, w} \cap Drops = {}
    BY <1>13, NotDrops
  <1>15. LikesApart' /\ Cleaning'
    <2>1. CASE hasty'
      BY <2>1, HastyClean
    <2>2. CASE ~hasty'
      <3>1. \A q \in OldPosts : \A v \in {c, w} : v \notin DropWrites(q)
        BY <1>14, NotDrops, FeedPostFacts
      <3> QED BY <1>2, <1>5, <1>7, <1>9, <1>12, <1>14, <2>2, <3>1, WaitedClean
    <2> QED BY <2>1, <2>2
  <1> QED BY <1>11, <1>15 DEF CleanInv

LEMMA NextClean ==
    ASSUME ~Failures, TypesInv, CleanInv, [Next]_vars
    PROVE  CleanInv'
  <1>1. TypesInv'
    BY NextTypes
  <1>2. ASSUME NEW d \in Devices, UNCHANGED <<docs, queue, gets, mainq, hasty>> PROVE CleanInv'
    <2>1. Moved(d, {}, {}, {}, {}, {})
      BY <1>2 DEF Moved
    <2>2. {} \subseteq UploadBlocks
      OBVIOUS
    <2> QED BY <1>2, <2>1, <2>2, StillClean
  <1>3. CASE UNCHANGED vars
    <2>1. UNCHANGED <<docs, queue, gets, mainq, hasty>>
      BY <1>3 DEF vars
    <2> QED BY <2>1 DEF CleanInv, MarksPaired, LikesApart, Cleaning, Marked, Liking, Dropping, Dropped,
                        UnlikeComing, UnnoteComing, Exists
  <1>4. ASSUME NEW d \in Devices, Touch(d) PROVE CleanInv'
    BY <1>4, PlainTouchClean, deletePostClean, didLikeClean DEF Touch
  <1>5. ASSUME NEW d \in Devices, MainQueue(d), hasty' = hasty PROVE CleanInv'
    BY <1>1, <1>5, PlainBlocksClean, LikeBlocksClean, foundLikesClean, postDeletedClean, foundNotesClean DEF MainQueue
  <1>6. ASSUME NEW d \in Devices, Deliver(d), hasty' = hasty PROVE CleanInv'
    BY <1>1, <1>6, DeliverClean
  <1>7. ASSUME NEW d \in Devices, Animate(d), hasty' = hasty PROVE CleanInv'
    <2>1. UNCHANGED <<docs, queue, gets, mainq>>
      BY <1>7 DEF Animate
    <2> QED BY <1>2, <1>7, <2>1
  <1>8. ASSUME NEW d \in Devices, NEW i \in DOMAIN calls[d], StorageAnswer(d, i), hasty' = hasty PROVE CleanInv'
    BY <1>8, StorageClean
  <1> QED BY <1>3, <1>4, <1>5, <1>6, <1>7, <1>8 DEF Next, Step

LEMMA InitClean ==
    ASSUME Init
    PROVE  CleanInv
  <1>1. \A e \in Devices : Range(queue[e]) = {} /\ Range(gets[e]) = {} /\ Range(mainq[e]) = {}
    BY RangeOfEmpty DEF Init
  <1>2. \A p \in PostIds, u \in Users : docs[UserLike(u, p)] = NoDoc /\ docs[NoteDoc(p, u)] = NoDoc
    <2> SUFFICES ASSUME NEW p \in PostIds, NEW u \in Users
                 PROVE  docs[UserLike(u, p)] = NoDoc /\ docs[NoteDoc(p, u)] = NoDoc
      OBVIOUS
    <2>1. UserLike(u, p) \in Paths /\ NoteDoc(p, u) \in Paths
      BY PathFacts
    <2>2. OldPosts \subseteq PostIds
      BY DEF PostIds
    <2>3. \A q \in OldPosts : UserLike(u, p) # PostDoc(q) /\ NoteDoc(p, u) # PostDoc(q)
      BY <2>2, PathsApart
    <2> QED BY <2>1, <2>3 DEF Init
  <1>3. OldPosts \subseteq PostIds
    BY DEF PostIds
  <1>4. MarksPaired
    BY <1>1, <1>2 DEF MarksPaired
  <1>5. LikesApart
    BY <1>1 DEF LikesApart, Liking
  <1>6. Cleaning
    BY <1>2, <1>3 DEF Cleaning
  <1> QED BY <1>4, <1>5, <1>6 DEF CleanInv

\* When the server accepts every write and users wait for every device to settle,
\* PostService.deletePost leaves nothing behind: once all is answered, neither a mark
\* under a user nor a notification about a deleted post is stored.
THEOREM DeletionsCleanUp == ASSUME ~Failures PROVE Spec => []DeletionCleansUp
  <1>1. Init => TypesInv /\ CleanInv
    BY InitTypes, InitClean
  <1>2. TypesInv /\ CleanInv /\ [Next]_vars => TypesInv' /\ CleanInv'
    BY NextTypes, NextClean
  <1>3. CleanInv => DeletionCleansUp
    <2> SUFFICES ASSUME CleanInv, ~hasty, \A d \in Devices : Settled(d), NEW p \in OldPosts, ~Exists(p), NEW u \in Users
                 PROVE  docs[UserLike(u, p)] = NoDoc /\ docs[NoteDoc(p, u)] = NoDoc
      BY DEF DeletionCleansUp
    <2>1. \A e \in Devices : Range(queue[e]) = {} /\ Range(gets[e]) = {} /\ Range(mainq[e]) = {}
      BY QuietRanges DEF Settled
    <2>2. ~UnlikeComing(p, u) /\ ~UnnoteComing(p, u)
      BY <2>1 DEF UnlikeComing, UnnoteComing
    <2> QED BY <2>2 DEF CleanInv, Cleaning, Dropped
  <1> QED BY <1>1, <1>2, <1>3, PTL DEF Spec

-----------------------------------------------------------------------------
(* The lists of posts that wait in a main queue.                           *)

LEMMA ListsAppend ==
    ASSUME NEW S, NEW s \in Seq(S), NEW b \in S, NEW path
    PROVE  /\ ~IsFeed(b) => /\ NoFeed(s) => NoFeed(Append(s, b))
                            /\ \A u : Lists(s, path, u) => Lists(Append(s, b), path, u)
           /\ IsFeed(b) => Lists(Append(s, b), path, b.res[path])
           /\ Undone(s, path) /\ (IsFeed(b) => b.res[path] = NoDoc) => Undone(Append(s, b), path)
           /\ b \in NoteBlocks => Undone(Append(s, b), path)
  <1>1. PICK t : t = Append(s, b)
    OBVIOUS
  <1>2. PICK n \in Nat : n = Len(s)
    BY LenProperties
  <1>3. DOMAIN s = 1..n /\ DOMAIN t = 1..(n + 1) /\ t[n + 1] = b
    BY <1>1, <1>2, AppendProperties, LenProperties
  <1>4. \A i \in 1..n : t[i] = s[i]
    BY <1>1, <1>2, AppendProperties
  <1>5. \A i \in 1..(n + 1) : i \in 1..n \/ i = n + 1
    OBVIOUS
  <1>6. \A i \in 1..n : i \in 1..(n + 1) /\ n + 1 > i
    OBVIOUS
  <1>7. n + 1 \in 1..(n + 1) /\ \A i \in 1..(n + 1) : ~(i > n + 1)
    OBVIOUS
  <1>8. ASSUME ~IsFeed(b), NoFeed(s) PROVE NoFeed(t)
    BY <1>3, <1>4, <1>5, <1>8 DEF NoFeed
  <1>9. ASSUME ~IsFeed(b), NEW u, Lists(s, path, u) PROVE Lists(t, path, u)
    <2>1. PICK i \in 1..n : IsFeed(s[i]) /\ s[i].res[path] = u /\ \A j \in 1..n : j > i => ~IsFeed(s[j])
      BY <1>3, <1>9 DEF Lists
    <2>2. IsFeed(t[i]) /\ t[i].res[path] = u /\ i \in 1..(n + 1)
      BY <1>4, <1>6, <2>1
    <2>3. \A j \in 1..(n + 1) : j > i => ~IsFeed(t[j])
      BY <1>3, <1>4, <1>5, <1>9, <2>1
    <2> QED BY <1>3, <2>2, <2>3 DEF Lists
  <1>10. ASSUME IsFeed(b) PROVE Lists(t, path, b.res[path])
    BY <1>3, <1>7, <1>10 DEF Lists
  <1>11. ASSUME Undone(s, path), IsFeed(b) => b.res[path] = NoDoc PROVE Undone(t, path)
    <2> SUFFICES ASSUME NEW i \in 1..(n + 1), IsFeed(t[i]), t[i].res[path] # NoDoc
                 PROVE  \E j \in 1..(n + 1) : j > i /\ t[j] \in NoteBlocks
      BY <1>3 DEF Undone
    <2>1. i \in 1..n
      BY <1>3, <1>5, <1>11
    <2>2. PICK j \in 1..n : j > i /\ s[j] \in NoteBlocks
      BY <1>3, <1>4, <1>11, <2>1 DEF Undone
    <2> QED BY <1>4, <1>6, <2>2
  <1>12. ASSUME b \in NoteBlocks PROVE Undone(t, path)
    <2> SUFFICES ASSUME NEW i \in 1..(n + 1), IsFeed(t[i]), t[i].res[path] # NoDoc
                 PROVE  \E j \in 1..(n + 1) : j > i /\ t[j] \in NoteBlocks
      BY <1>3 DEF Undone
    <2>1. ~IsFeed(b)
      BY <1>12, BlockKinds DEF IsFeed
    <2>2. i \in 1..n
      BY <1>3, <1>5, <2>1
    <2> QED BY <1>3, <1>6, <1>7, <1>12, <2>2
  <1> QED BY <1>1, <1>8, <1>9, <1>10, <1>11, <1>12

LEMMA ListsTail ==
    ASSUME NEW S, NEW s \in Seq(S), s # <<>>, NEW path
    PROVE  /\ NoFeed(s) => NoFeed(Tail(s)) /\ ~IsFeed(Head(s))
           /\ \A u : Lists(s, path, u) =>
                 Lists(Tail(s), path, u) \/ (IsFeed(Head(s)) /\ Head(s).res[path] = u /\ NoFeed(Tail(s)))
           /\ Undone(s, path) => Undone(Tail(s), path)
           /\ Undone(s, path) /\ IsFeed(Head(s)) /\ Head(s).res[path] # NoDoc =>
                 \E b \in Range(Tail(s)) : b \in NoteBlocks
  <1>1. PICK t : t = Tail(s)
    OBVIOUS
  <1>2. PICK n \in Nat : n = Len(t)
    BY <1>1, HeadTailProperties, LenProperties
  <1>3. DOMAIN t = 1..n /\ DOMAIN s = 1..(n + 1) /\ s[1] = Head(s)
    BY <1>1, <1>2, HeadTailProperties, LenProperties
  <1>4. \A i \in 1..n : t[i] = s[i + 1]
    BY <1>1, <1>2, HeadTailProperties
  <1>5. \A i \in 1..n : i + 1 \in 1..(n + 1) /\ i + 1 # 1
    OBVIOUS
  <1>6. \A i \in 1..(n + 1) : i = 1 \/ (i - 1 \in 1..n /\ (i - 1) + 1 = i)
    OBVIOUS
  <1>7. 1 \in 1..(n + 1)
    OBVIOUS
  <1>8. \A i \in 1..(n + 1) : i # 1 => i - 1 \in 1..n /\ t[i - 1] = s[i]
    BY <1>4, <1>6
  <1>9. ASSUME NoFeed(s) PROVE NoFeed(t) /\ ~IsFeed(Head(s))
    BY <1>3, <1>4, <1>5, <1>7, <1>9 DEF NoFeed
  <1>10. ASSUME NEW u, Lists(s, path, u)
         PROVE  Lists(t, path, u) \/ (IsFeed(Head(s)) /\ Head(s).res[path] = u /\ NoFeed(t))
    <2>1. PICK i \in 1..(n + 1) :
             IsFeed(s[i]) /\ s[i].res[path] = u /\ \A j \in 1..(n + 1) : j > i => ~IsFeed(s[j])
      BY <1>3, <1>10 DEF Lists
    <2>2. CASE i = 1
      <3>1. \A j \in 1..n : j + 1 > 1
        OBVIOUS
      <3>2. NoFeed(t)
        BY <1>3, <1>4, <1>5, <2>1, <2>2, <3>1 DEF NoFeed
      <3> QED BY <1>3, <2>1, <2>2, <3>2
    <2>3. CASE i # 1
      <3>1. i - 1 \in 1..n /\ t[i - 1] = s[i]
        BY <1>8, <2>3
      <3>2. \A j \in 1..n : j > i - 1 => j + 1 > i
        OBVIOUS
      <3>3. \A j \in 1..n : j > i - 1 => ~IsFeed(t[j])
        BY <1>4, <1>5, <2>1, <3>2
      <3> QED BY <1>3, <2>1, <3>1, <3>3 DEF Lists
    <2> QED BY <2>2, <2>3
  <1>11. ASSUME Undone(s, path) PROVE Undone(t, path)
    <2> SUFFICES ASSUME NEW i \in 1..n, IsFeed(t[i]), t[i].res[path] # NoDoc
                 PROVE  \E j \in 1..n : j > i /\ t[j] \in NoteBlocks
      BY <1>3 DEF Undone
    <2>1. PICK j \in 1..(n + 1) : j > i + 1 /\ s[j] \in NoteBlocks
      BY <1>3, <1>4, <1>5, <1>11 DEF Undone
    <2>2. j # 1 /\ j - 1 > i
      BY <2>1
    <2> QED BY <1>8, <2>1, <2>2
  <1>12. ASSUME Undone(s, path), IsFeed(Head(s)), Head(s).res[path] # NoDoc
         PROVE  \E b \in Range(t) : b \in NoteBlocks
    <2>1. PICK j \in 1..(n + 1) : j > 1 /\ s[j] \in NoteBlocks
      BY <1>3, <1>7, <1>12 DEF Undone
    <2>2. j # 1
      BY <2>1
    <2>3. j - 1 \in DOMAIN t /\ t[j - 1] \in NoteBlocks
      BY <1>3, <1>8, <2>1, <2>2
    <2> QED BY <2>3 DEF Range
  <1> QED BY <1>1, <1>9, <1>10, <1>11, <1>12

-----------------------------------------------------------------------------
(* Who shared what.                                                        *)

LEMMA WritesOwned ==
    ASSUME NEW f, NEW d
    PROVE  /\ \A p \in NewIds : \A w \in StoreWrites(p) :
                 w.data = UidOf[d] /\ f[p] = UidOf[d] => WriteOwned(f, d, w)
           /\ \A p \in PostIds : \A w \in CountWrites(p) : w.data = f[p] => WriteOwned(f, d, w)
           /\ \A p \in PostIds : \A w \in DropWrites(p) : f[p] = UidOf[d] => WriteOwned(f, d, w)
           /\ \A w : (\A p \in PostIds : PostDoc(p) \notin w.paths) => WriteOwned(f, d, w)
  <1>1. \A p \in PostIds : \A w \in CountWrites(p) \cup DropWrites(p) : w.paths = {PostDoc(p)}
    BY CountFacts, DropFacts
  <1>2. \A p \in PostIds : \A w \in StoreWrites(p) : w.paths = {PostDoc(p)} /\ ~w.upd
    BY DEF StoreWrites
  <1>3. \A p \in PostIds : \A w \in CountWrites(p) : w.upd
    BY CountFacts
  <1>4. \A p \in PostIds : \A w \in DropWrites(p) : ~w.upd /\ w.data = NoDoc
    BY DropFacts
  <1>5. \A p \in PostIds : \A w \in StoreWrites(p) : w.data # NoDoc
    <2>1. NoDoc \notin Users
      BY PostsAssumption
    <2>2. \A p \in PostIds : \A w \in StoreWrites(p) : w.data \in Users
      BY DEF StoreWrites
    <2> QED BY <2>1, <2>2
  <1>6. \A p, q : {PostDoc(p)} = {PostDoc(q)} => p = q
    <2>1. \A x, y : {x} = {y} => x = y
      OBVIOUS
    <2> QED BY <2>1, PathsApart
  <1>7. ASSUME NEW p \in NewIds, NEW w \in StoreWrites(p), w.data = UidOf[d], f[p] = UidOf[d]
        PROVE  WriteOwned(f, d, w)
    <2>1. p \in PostIds
      BY FeedPostFacts
    <2>2. \A q \in PostIds : w \in StoreWrites(q) => q = p
      BY <1>2, <1>6, <2>1
    <2> QED BY <1>2, <1>3, <1>4, <1>5, <1>7, <2>1, <2>2 DEF WriteOwned
  <1>8. ASSUME NEW p \in PostIds, NEW w \in CountWrites(p), w.data = f[p] PROVE WriteOwned(f, d, w)
    <2>1. \A q \in PostIds : w \in CountWrites(q) => q = p
      BY <1>1, <1>6
    <2> QED BY <1>2, <1>3, <1>4, <1>8, <2>1 DEF WriteOwned
  <1>9. ASSUME NEW p \in PostIds, NEW w \in DropWrites(p), f[p] = UidOf[d] PROVE WriteOwned(f, d, w)
    <2>1. \A q \in PostIds : w \in DropWrites(q) => q = p
      BY <1>1, <1>6
    <2> QED BY <1>3, <1>4, <1>5, <1>9, <2>1 DEF WriteOwned
  <1>10. ASSUME NEW w, \A p \in PostIds : PostDoc(p) \notin w.paths PROVE WriteOwned(f, d, w)
    BY <1>1, <1>2, <1>10 DEF WriteOwned
  <1> QED BY <1>7, <1>8, <1>9, <1>10

\* The writes of likes and of what a deletion takes away do not touch posts.
LEMMA OtherWritesOwned ==
    ASSUME NEW f, NEW d, NEW q \in PostIds
    PROVE  /\ \A w \in UnlikeWrites(q) : WriteOwned(f, d, w)
           /\ \A w \in UnnoteWrites(q) : WriteOwned(f, d, w)
           /\ \A w \in LikingWrites(q) : WriteOwned(f, d, w)
  <1>1. ASSUME NEW w \in UnlikeWrites(q), NEW p \in PostIds PROVE PostDoc(p) \notin w.paths
    <2>1. w.paths \subseteq UserLikes(q)
      BY UnlikeFacts
    <2> QED BY <2>1, PathsApart DEF UserLikes
  <1>2. ASSUME NEW w \in UnnoteWrites(q), NEW p \in PostIds PROVE PostDoc(p) \notin w.paths
    <2>1. w.paths \subseteq Notes(q)
      BY UnnoteFacts
    <2> QED BY <2>1, PathsApart DEF Notes
  <1>3. ASSUME NEW w \in LikingWrites(q), NEW p \in PostIds PROVE PostDoc(p) \notin w.paths
    BY LikingFacts, PathsApart
  <1> QED BY <1>1, <1>2, <1>3, WritesOwned

\* Blocks other than uploads and lists of posts name no owner.
LEMMA BlocksOwned ==
    ASSUME NEW f, NEW d, NEW b, b.then.kind \notin {"uploaded", "fetchedPosts"}
    PROVE  BlockOwned(f, d, b)
  BY BlockKinds DEF BlockOwned

LEMMA OwnersMoved ==
    ASSUME NEW f, NEW d \in Devices, OwnersAgreeAt(f, d),
           NEW W, NEW RO, NEW RI, NEW BO, NEW BI, Moved(d, W, RO, RI, BO, BI),
           \A c \in Range(calls'[d]) : f[c.p] = UidOf[d],
           \A post \in feed'[d] : post.ownerUid = f[post.postId],
           \A w \in W : WriteOwned(f, d, w), \A b \in BI : BlockOwned(f, d, b)
    PROVE  OwnersAgreeAt(f, d)'
  <1>1. \A w \in Range(queue'[d]) : WriteOwned(f, d, w)
    BY DEF OwnersAgreeAt, Moved
  <1>2. \A b \in Range(mainq'[d]) : BlockOwned(f, d, b)
    BY DEF OwnersAgreeAt, Moved
  <1> QED BY <1>1, <1>2 DEF OwnersAgreeAt, WriteOwned, BlockOwned

LEMMA OwnersKept ==
    ASSUME NEW f, OwnersAgree(f), docs' = docs, shares' = shares
    PROVE  OwnersAgree(f)'
  BY DEF OwnersAgree

\* The devices that a step does not concern.
SameFeed(e) ==
    /\ calls'[e] = calls[e] /\ feed'[e] = feed[e] /\ silent'[e] = silent[e]
    /\ queue'[e] = queue[e] /\ gets'[e] = gets[e] /\ mainq'[e] = mainq[e]

LEMMA FeedElsewhere ==
    ASSUME NEW f, NEW e \in Devices, OwnersAgreeAt(f, e), FeedAt(f, e), SameFeed(e),
           \A p \in PostIds : f[p] = UidOf[e] => (Exists(p)' <=> Exists(p))
    PROVE  OwnersAgreeAt(f, e)' /\ FeedAt(f, e)'
  <1>1. OwnersAgreeAt(f, e)'
    BY DEF OwnersAgreeAt, SameFeed, WriteOwned, BlockOwned
  <1>2. ASSUME NEW p \in PostIds, f[p] = UidOf[e] PROVE OwnListed(e, p)' /\ GoneHidden(e, p)'
    <2>1. OwnListed(e, p) /\ GoneHidden(e, p) /\ (Exists(p)' <=> Exists(p))
      BY <1>2 DEF FeedAt
    <2>2. OwnListed(e, p)'
      <3>1. /\ RefreshComing(e)' <=> RefreshComing(e)
            /\ Listed(e, p)' <=> Listed(e, p)
            /\ Undropped(e, p)' <=> Undropped(e, p)
        BY DEF SameFeed, RefreshComing, Listed, Undropped, NoFeed, Lists, IsFeed
      <3> QED BY <2>1, <3>1 DEF OwnListed
    <2>3. GoneHidden(e, p)'
      <3>1. Passing(e, p)' <=> Passing(e, p)
        BY DEF SameFeed, Passing, Undone, IsFeed
      <3>2. ChainComing(e, p)' <=> ChainComing(e, p)
        BY DEF SameFeed, ChainComing
      <3> QED BY <2>1, <3>1, <3>2 DEF GoneHidden, Gone, SameFeed
    <2> QED BY <2>2, <2>3
  <1>3. FeedAt(f, e)'
    BY <1>2 DEF FeedAt
  <1> QED BY <1>1, <1>3

-----------------------------------------------------------------------------
(* Blocks that run leave the feed current.                                 *)

ChainKinds == {"postDeleted", "foundFeeds", "foundNotes"}

LEMMA RanListed ==
    ASSUME TypesInv, NEW d \in Devices, NEW b, NEW ws, NEW rs, Ran(d, b, ws, rs), NEW p \in PostIds, OwnListed(d, p),
           ~IsFeed(b), ~(b \in SharedBlocks /\ b.res), feed' = feed
    PROVE  OwnListed(d, p)'
  <1>1. mainq[d] \in Seq(PostBlocks) /\ mainq[d] # <<>>
    BY InQueue DEF TypesInv, FlightOK, Ran
  <1>2. mainq'[d] = Tail(mainq[d]) /\ b = Head(mainq[d]) /\ docs' = docs
    BY DEF Ran, Taken
  <1>3. Exists(p)' <=> Exists(p)
    BY <1>2 DEF Exists
  <1>4. Undropped(d, p)' => Undropped(d, p)
    BY DEF Undropped, Ran, Taken
  <1>5. RefreshComing(d) => RefreshComing(d)'
    BY DEF RefreshComing, Ran, Taken
  <1>6. Listed(d, p) => Listed(d, p)'
    <2>1. CASE Lists(mainq[d], PostDoc(p), UidOf[d])
      <3>1. Lists(Tail(mainq[d]), PostDoc(p), UidOf[d])
        BY <1>1, <1>2, <2>1, ListsTail
      <3> QED BY <1>2, <3>1 DEF Listed, Lists, IsFeed
    <2>2. CASE NoFeed(mainq[d]) /\ Post(p, UidOf[d]) \in feed[d]
      <3>1. NoFeed(Tail(mainq[d]))
        BY <1>1, <2>2, ListsTail
      <3> QED BY <1>2, <2>2, <3>1 DEF Listed, NoFeed, IsFeed
    <2> QED BY <2>1, <2>2 DEF Listed
  <1> QED BY <1>3, <1>4, <1>5, <1>6 DEF OwnListed

LEMMA RanHidden ==
    ASSUME TypesInv, NEW d \in Devices, NEW b, NEW ws, NEW rs, Ran(d, b, ws, rs), NEW p \in PostIds, GoneHidden(d, p),
           Post(p, UidOf[d]) \in feed'[d] => Post(p, UidOf[d]) \in feed[d] /\ b \notin NoteBlocks,
           silent[d] \subseteq silent'[d],
           b \in DropBlocks(p) \cup FeedsBlocks(p) \cup NotesBlocks(p) => ChainComing(d, p)' \/ p \in silent'[d]
    PROVE  GoneHidden(d, p)'
  <1>1. mainq[d] \in Seq(PostBlocks) /\ mainq[d] # <<>>
    BY InQueue DEF TypesInv, FlightOK, Ran
  <1>2. /\ mainq'[d] = Tail(mainq[d]) /\ b = Head(mainq[d]) /\ docs' = docs
        /\ Range(mainq[d]) = {b} \cup Range(mainq'[d])
        /\ Range(queue[d]) \subseteq Range(queue'[d])
        /\ Range(gets[d]) \subseteq Range(gets'[d])
    BY DEF Ran, Taken
  <1>3. ASSUME Gone(d, p)' PROVE Gone(d, p)
    <2>1. ~Exists(p) /\ (~\E w \in Range(queue[d]) : w \in StoreWrites(p)) /\ p \notin silent[d]
      BY <1>2, <1>3 DEF Gone, Exists
    <2>2. ChainComing(d, p) => ChainComing(d, p)' \/ p \in silent'[d]
      BY <1>2 DEF ChainComing
    <2> QED BY <1>3, <2>1, <2>2 DEF Gone
  <1>4. ASSUME Passing(d, p) PROVE Passing(d, p)'
    <2>1. Undone(mainq[d], PostDoc(p))
      BY <1>4 DEF Passing
    <2>2. Undone(Tail(mainq[d]), PostDoc(p))
      BY <1>1, <2>1, ListsTail
    <2>3. Post(p, UidOf[d]) \in feed'[d] => \E x \in Range(mainq'[d]) : x \in NoteBlocks
      BY <1>2, <1>4 DEF Passing
    <2> QED BY <1>2, <2>2, <2>3 DEF Passing, Undone, IsFeed
  <1> QED BY <1>3, <1>4 DEF GoneHidden

\* A block that neither lists posts nor refreshes the feed.
LEMMA PlainRanFeed ==
    ASSUME TypesInv, NEW f, NEW d \in Devices, OwnersAgreeAt(f, d), FeedAt(f, d),
           NEW b, NEW ws, NEW rs, Ran(d, b, ws, rs),
           b.then.kind \notin {"fetchedPosts", "noteDeleted"}, b \in SharedBlocks => ~b.res,
           calls' = calls, feed' = feed, silent[d] \subseteq silent'[d],
           \A p \in PostIds : b.then.kind \in ChainKinds /\ b.then.p = p => ChainComing(d, p)' \/ p \in silent'[d],
           \A w \in Range(ws) : WriteOwned(f, d, w)
    PROVE  OwnersAgreeAt(f, d)' /\ FeedAt(f, d)'
  <1>1. Moved(d, Range(ws), {}, Range(rs), {b}, {})
    BY RanMoved
  <1>2. /\ \A c \in Range(calls'[d]) : f[c.p] = UidOf[d]
        /\ \A post \in feed'[d] : post.ownerUid = f[post.postId]
    BY DEF OwnersAgreeAt
  <1>3. OwnersAgreeAt(f, d)'
    BY <1>1, <1>2, OwnersMoved
  <1>4. ~IsFeed(b) /\ b \notin NoteBlocks
    BY BlockKinds DEF IsFeed
  <1>5. ASSUME NEW p \in PostIds, b \in DropBlocks(p) \cup FeedsBlocks(p) \cup NotesBlocks(p)
        PROVE  ChainComing(d, p)' \/ p \in silent'[d]
    <2>1. b.then.kind \in ChainKinds /\ b.then.p = p
      BY <1>5, BlockKinds DEF ChainKinds
    <2> QED BY <2>1
  <1>6. ASSUME NEW p \in PostIds, f[p] = UidOf[d] PROVE OwnListed(d, p)' /\ GoneHidden(d, p)'
    <2>1. OwnListed(d, p) /\ GoneHidden(d, p)
      BY <1>6 DEF FeedAt
    <2>2. OwnListed(d, p)'
      BY <1>4, <2>1, RanListed
    <2>3. GoneHidden(d, p)'
      BY <1>4, <1>5, <2>1, RanHidden
    <2> QED BY <2>2, <2>3
  <1> QED BY <1>3, <1>6 DEF FeedAt

\* A block that empties the feed and asks for the posts.
LEMMA RefreshRanFeed ==
    ASSUME TypesInv, NEW f, NEW d \in Devices, OwnersAgreeAt(f, d), FeedAt(f, d),
           NEW b, Ran(d, b, <<>>, <<FeedRead>>), b.then.kind \in {"shared", "noteDeleted"},
           calls' = calls, feed'[d] = {}, silent'[d] = silent[d]
    PROVE  OwnersAgreeAt(f, d)' /\ FeedAt(f, d)'
  <1>1. Range(<<>>) = {} /\ Range(<<FeedRead>>) = {FeedRead}
    BY RangeOfEmpty, RangeOfOne
  <1>2. Moved(d, {}, {}, {FeedRead}, {b}, {})
    <2>1. Moved(d, Range(<<>>), {}, Range(<<FeedRead>>), {b}, {})
      BY RanMoved
    <2> QED BY <1>1, <2>1
  <1>3. \A c \in Range(calls'[d]) : f[c.p] = UidOf[d]
    BY DEF OwnersAgreeAt
  <1>4. OwnersAgreeAt(f, d)'
    BY <1>2, <1>3, OwnersMoved
  <1>5. RefreshComing(d)'
    BY <1>2 DEF Moved, RefreshComing
  <1>6. \A p \in PostIds : b \notin DropBlocks(p) \cup FeedsBlocks(p) \cup NotesBlocks(p)
    BY BlockKinds
  <1>7. ASSUME NEW p \in PostIds, f[p] = UidOf[d] PROVE OwnListed(d, p)' /\ GoneHidden(d, p)'
    <2>1. GoneHidden(d, p)
      BY <1>7 DEF FeedAt
    <2>2. GoneHidden(d, p)'
      BY <1>6, <2>1, RanHidden
    <2> QED BY <1>5, <2>2 DEF OwnListed
  <1> QED BY <1>4, <1>7 DEF FeedAt

\* The posts come.
LEMMA fetchedPostsFeed ==
    ASSUME TypesInv, NEW f, NEW d \in Devices, OwnersAgreeAt(f, d), FeedAt(f, d), fetchedPosts(d), hasty' = hasty
    PROVE  OwnersAgreeAt(f, d)' /\ FeedAt(f, d)'
  <1>1. PICK b \in FeedBlocks :
                /\ Ran(d, b, <<>>, <<>>)
                /\ feed' = [feed EXCEPT ![d] = {Post(p, b.res[PostDoc(p)]) :
                               p \in {q \in PostIds : b.res[PostDoc(q)] # NoDoc}}]
    BY fetchedPostsRuns
  <1>2. calls' = calls /\ silent' = silent
    BY DEF fetchedPosts
  <1>3. feed \in [Devices -> SUBSET FeedPosts]
    BY DEF TypesInv, StateOK
  <1>4. feed'[d] = {Post(p, b.res[PostDoc(p)]) : p \in {q \in PostIds : b.res[PostDoc(q)] # NoDoc}}
    BY <1>1, <1>3
  <1>5. mainq[d] \in Seq(PostBlocks) /\ mainq[d] # <<>>
    BY <1>1, InQueue DEF TypesInv, FlightOK, Ran
  <1>6. /\ mainq'[d] = Tail(mainq[d]) /\ b = Head(mainq[d]) /\ docs' = docs /\ b \in Range(mainq[d])
        /\ Range(mainq[d]) = {b} \cup Range(mainq'[d])
    BY <1>1 DEF Ran, Taken
  <1>7. Range(<<>>) = {}
    BY RangeOfEmpty
  <1>8. Moved(d, {}, {}, {}, {b}, {})
    BY <1>1, <1>7, RanMoved
  <1>9. b.then.kind = "fetchedPosts" /\ b.res \in [PostDocs -> Contents]
    BY BlockKinds
  <1>10. \A p \in PostIds : b.res[PostDoc(p)] \in {f[p], NoDoc}
    BY <1>6 DEF OwnersAgreeAt, BlockOwned
  <1>11. \A p, u : Post(p, u).postId = p /\ Post(p, u).ownerUid = u
    BY DEF Post
  <1>12. OwnersAgreeAt(f, d)'
    <2>1. \A c \in Range(calls'[d]) : f[c.p] = UidOf[d]
      BY <1>2 DEF OwnersAgreeAt
    <2>2. \A post \in feed'[d] : post.ownerUid = f[post.postId]
      BY <1>4, <1>10, <1>11
    <2> QED BY <1>8, <2>1, <2>2, OwnersMoved
  <1>13. IsFeed(b) /\ b \notin SharedBlocks /\ b \notin NoteBlocks
         /\ \A p \in PostIds : b \notin DropBlocks(p) \cup FeedsBlocks(p) \cup NotesBlocks(p)
    BY <1>9, BlockKinds DEF IsFeed
  <1>14. ASSUME NEW p \in PostIds, OwnListed(d, p) PROVE OwnListed(d, p)'
    <2>1. Exists(p)' <=> Exists(p)
      BY <1>6 DEF Exists
    <2>2. Undropped(d, p)' => Undropped(d, p)
      BY <1>8 DEF Undropped, Moved
    <2>3. RefreshComing(d) => RefreshComing(d)'
      BY <1>8, <1>13 DEF RefreshComing, Moved
    <2>4. Listed(d, p) => Listed(d, p)'
      <3>1. ~NoFeed(mainq[d])
        BY <1>5, <1>6, <1>13, ListsTail
      <3>2. SUFFICES ASSUME Lists(mainq[d], PostDoc(p), UidOf[d]) PROVE Listed(d, p)'
        BY <3>1 DEF Listed
      <3>3. CASE Lists(Tail(mainq[d]), PostDoc(p), UidOf[d])
        BY <1>6, <3>3 DEF Listed, Lists, IsFeed
      <3>4. CASE b.res[PostDoc(p)] = UidOf[d] /\ NoFeed(Tail(mainq[d]))
        <4>1. UidOf[d] # NoDoc
          BY PostsAssumption
        <4>2. Post(p, UidOf[d]) \in feed'[d]
          BY <1>4, <3>4, <4>1
        <4> QED BY <1>6, <3>4, <4>2 DEF Listed, NoFeed, IsFeed
      <3> QED BY <1>5, <1>6, <3>2, <3>3, <3>4, ListsTail
    <2> QED BY <1>14, <2>1, <2>2, <2>3, <2>4 DEF OwnListed
  <1>15. ASSUME NEW p \in PostIds, GoneHidden(d, p) PROVE GoneHidden(d, p)'
    <2>1. Gone(d, p)' => Gone(d, p)
      <3>1. ChainComing(d, p) => ChainComing(d, p)'
        BY <1>8, <1>13 DEF ChainComing, Moved
      <3>2. Exists(p)' <=> Exists(p)
        BY <1>6 DEF Exists
      <3> QED BY <1>2, <1>8, <3>1, <3>2 DEF Gone, Moved
    <2>2. ASSUME Passing(d, p) PROVE Passing(d, p)'
      <3>1. Undone(mainq[d], PostDoc(p))
        BY <2>2 DEF Passing
      <3>2. Undone(Tail(mainq[d]), PostDoc(p))
        BY <1>5, <3>1, ListsTail
      <3>3. ASSUME Post(p, UidOf[d]) \in feed'[d] PROVE \E x \in Range(mainq'[d]) : x \in NoteBlocks
        <4>1. PICK q \in PostIds : b.res[PostDoc(q)] # NoDoc /\ Post(p, UidOf[d]) = Post(q, b.res[PostDoc(q)])
          BY <1>4, <3>3
        <4>2. p = q
          BY <1>11, <4>1
        <4> QED BY <1>5, <1>6, <1>13, <3>1, <4>1, <4>2, ListsTail
      <3> QED BY <1>6, <3>2, <3>3 DEF Passing, Undone, IsFeed
    <2> QED BY <1>15, <2>1, <2>2 DEF GoneHidden
  <1> QED BY <1>12, <1>14, <1>15 DEF FeedAt

LEMMA MainQueueFeed ==
    ASSUME TypesInv, NEW f, NEW d \in Devices, OwnersAgreeAt(f, d), FeedAt(f, d), MainQueue(d), hasty' = hasty
    PROVE  OwnersAgreeAt(f, d)' /\ FeedAt(f, d)'
  <1>0. Range(<<>>) = {} /\ \A x : Range(<<x>>) = {x}
    BY RangeOfEmpty, RangeOfOne
  <1>1. CASE uploaded(d)
    <2>1. PICK b \in UploadBlocks : Ran(d, b, <<setData(PostDoc(b.then.p), UidOf[d], Shared(b.then.k))>>, <<>>)
      BY <1>1, uploadedRuns
    <2>2. PICK w : w = setData(PostDoc(b.then.p), UidOf[d], Shared(b.then.k))
      OBVIOUS
    <2>3. b.then.kind = "uploaded" /\ b.then.p \in NewIds /\ b.then.k \in Screens
      BY BlockKinds, ThenFacts
    <2>4. w \in StoreWrites(b.then.p) /\ w.data = UidOf[d]
      <3>1. w.data = UidOf[d]
        BY <2>2 DEF setData, Write
      <3> QED BY <2>2, <2>3, <3>1, SentFacts, FeedPostFacts
    <2>5. f[b.then.p] = UidOf[d]
      BY <2>1 DEF Ran, Taken, OwnersAgreeAt, BlockOwned
    <2>6. WriteOwned(f, d, w)
      BY <2>3, <2>4, <2>5, WritesOwned
    <2>7. Ran(d, b, <<w>>, <<>>) /\ \A x \in Range(<<w>>) : WriteOwned(f, d, x)
      BY <1>0, <2>1, <2>2, <2>6
    <2>8. UNCHANGED <<calls, feed, silent>>
      BY <1>1 DEF uploaded, appVars
    <2>9. b \notin SharedBlocks /\ b.then.kind \notin ChainKinds
      BY <2>3, BlockKinds DEF ChainKinds
    <2> QED BY <2>3, <2>7, <2>8, <2>9, PlainRanFeed
  <1>2. CASE shared(d)
    <2>1. PICK b \in SharedBlocks :
                /\ Ran(d, b, <<>>, IF b.res THEN <<FeedRead>> ELSE <<>>)
                /\ b.res => feed' = [feed EXCEPT ![d] = {}]
                /\ ~b.res => feed' = feed
      BY <1>2, sharedRuns
    <2>2. UNCHANGED <<calls, silent>>
      BY <1>2 DEF shared
    <2>3. b.then.kind = "shared" /\ b.res \in BOOLEAN /\ b.then.kind \notin ChainKinds
      BY BlockKinds DEF ChainKinds
    <2>4. CASE b.res
      <3>1. Ran(d, b, <<>>, <<FeedRead>>)
        BY <2>1, <2>4
      <3>2. feed'[d] = {}
        BY <2>1, <2>4 DEF TypesInv, StateOK
      <3> QED BY <2>2, <2>3, <3>1, <3>2, RefreshRanFeed
    <2>5. CASE ~b.res
      <3>1. Ran(d, b, <<>>, <<>>) /\ \A x \in Range(<<>>) : WriteOwned(f, d, x)
        BY <1>0, <2>1, <2>5
      <3> QED BY <2>1, <2>2, <2>3, <2>5, <3>1, PlainRanFeed
    <2> QED BY <2>3, <2>4, <2>5
  <1>3. CASE fetchedPosts(d)
    BY <1>3, fetchedPostsFeed
  <1>4. CASE foundLikes(d)
    <2>1. PICK p \in PostIds : \E b \in LikesBlocks(p) : \E U \in SUBSET Users :
                Ran(d, b, IF U = {} THEN <<>> ELSE <<deleteAll({UserLike(u, p) : u \in U}, NoThen)>>, <<>>)
      BY <1>4, foundLikesRuns
    <2>2. PICK b \in LikesBlocks(p) : \E U \in SUBSET Users :
                Ran(d, b, IF U = {} THEN <<>> ELSE <<deleteAll({UserLike(u, p) : u \in U}, NoThen)>>, <<>>)
      BY <2>1
    <2>3. PICK U \in SUBSET Users :
                Ran(d, b, IF U = {} THEN <<>> ELSE <<deleteAll({UserLike(u, p) : u \in U}, NoThen)>>, <<>>)
      BY <2>2
    <2>4. PICK w : w = deleteAll({UserLike(u, p) : u \in U}, NoThen)
      OBVIOUS
    <2>5. w \in UnlikeWrites(p)
      <3>1. {UserLike(u, p) : u \in U} \in SUBSET UserLikes(p)
        BY DEF UserLikes
      <3> QED BY <2>4, <3>1, SentFacts
    <2>6. PICK ws : Ran(d, b, ws, <<>>) /\ \A x \in Range(ws) : WriteOwned(f, d, x)
      <3>1. WriteOwned(f, d, w)
        BY <2>5, OtherWritesOwned
      <3>2. CASE U = {}
        BY <1>0, <2>3, <3>2
      <3>3. CASE U # {}
        BY <1>0, <2>3, <2>4, <3>1, <3>3
      <3> QED BY <3>2, <3>3
    <2>7. b.then.kind = "foundLikes"
      BY BlockKinds
    <2>8. UNCHANGED <<calls, feed, silent>>
      BY <1>4 DEF foundLikes, appVars
    <2>9. b \notin SharedBlocks /\ b.then.kind \notin ChainKinds
      BY <2>7, BlockKinds DEF ChainKinds
    <2> QED BY <2>6, <2>7, <2>8, <2>9, PlainRanFeed
  <1>5. CASE postDeleted(d) \/ foundFeeds(d)
    <2>1. PICK p \in PostIds : \E b : /\ b \in DropBlocks(p) \/ b \in FeedsBlocks(p)
                                      /\ Ran(d, b, <<>>, <<FeedsRead(p)>>) \/ Ran(d, b, <<>>, <<NotesRead(p)>>)
      BY <1>5, postDeletedRuns, foundFeedsRuns
    <2>2. PICK b : /\ b \in DropBlocks(p) \/ b \in FeedsBlocks(p)
                   /\ Ran(d, b, <<>>, <<FeedsRead(p)>>) \/ Ran(d, b, <<>>, <<NotesRead(p)>>)
      BY <2>1
    <2>3. PICK r : r \in {FeedsRead(p), NotesRead(p)} /\ Ran(d, b, <<>>, <<r>>)
      BY <2>2
    <2>4. b.then.kind \in {"postDeleted", "foundFeeds"} /\ b.then.p = p
      BY <2>2, BlockKinds
    <2>5. UNCHANGED <<calls, feed, silent>>
      BY <1>5 DEF postDeleted, foundFeeds, appVars
    <2>6. ChainComing(d, p)'
      <3>1. r \in Range(gets'[d])
        BY <1>0, <2>3 DEF Ran, Taken
      <3> QED BY <2>3, <3>1 DEF ChainComing
    <2>7. b \notin SharedBlocks
      BY <2>4, BlockKinds
    <2>8. \A x \in Range(<<>>) : WriteOwned(f, d, x)
      BY <1>0
    <2> QED BY <2>3, <2>4, <2>5, <2>6, <2>7, <2>8, PlainRanFeed
  <1>6. CASE foundNotes(d)
    <2>1. PICK p \in PostIds : \E b \in NotesBlocks(p) : \E N \in SUBSET Notes(p) :
                /\ Ran(d, b, IF N = {} THEN <<>> ELSE <<deleteAll(N, NoteDeleted)>>, <<>>)
                /\ silent' = IF N = {} THEN [silent EXCEPT ![d] = @ \cup {p}] ELSE silent
      BY <1>6, foundNotesRuns
    <2>2. PICK b \in NotesBlocks(p) : \E N \in SUBSET Notes(p) :
                /\ Ran(d, b, IF N = {} THEN <<>> ELSE <<deleteAll(N, NoteDeleted)>>, <<>>)
                /\ silent' = IF N = {} THEN [silent EXCEPT ![d] = @ \cup {p}] ELSE silent
      BY <2>1
    <2>3. PICK N \in SUBSET Notes(p) :
                /\ Ran(d, b, IF N = {} THEN <<>> ELSE <<deleteAll(N, NoteDeleted)>>, <<>>)
                /\ silent' = IF N = {} THEN [silent EXCEPT ![d] = @ \cup {p}] ELSE silent
      BY <2>2
    <2>4. PICK w : w = deleteAll(N, NoteDeleted)
      OBVIOUS
    <2>5. w \in UnnoteWrites(p) /\ w \in Unnotes
      <3>1. w \in UnnoteWrites(p)
        BY <2>4, SentFacts
      <3> QED BY <3>1, WriteClasses
    <2>6. PICK ws : /\ Ran(d, b, ws, <<>>) /\ \A x \in Range(ws) : WriteOwned(f, d, x)
                    /\ N # {} => w \in Range(ws)
      <3>1. WriteOwned(f, d, w)
        BY <2>5, OtherWritesOwned
      <3>2. CASE N = {}
        BY <1>0, <2>3, <3>2
      <3>3. CASE N # {}
        BY <1>0, <2>3, <2>4, <3>1, <3>3
      <3> QED BY <3>2, <3>3
    <2>7. b.then.kind = "foundNotes" /\ b.then.p = p
      BY BlockKinds
    <2>8. UNCHANGED <<calls, feed>>
      BY <1>6 DEF foundNotes
    <2>9. silent[d] \subseteq silent'[d] /\ (ChainComing(d, p)' \/ p \in silent'[d])
      <3>1. silent \in [Devices -> SUBSET PostIds]
        BY DEF TypesInv, StateOK
      <3>2. CASE N = {}
        BY <2>3, <3>1, <3>2
      <3>3. CASE N # {}
        <4>1. w \in Range(queue'[d])
          BY <2>6, <3>3 DEF Ran, Taken
        <4>2. ChainComing(d, p)'
          BY <2>5, <4>1 DEF ChainComing
        <4> QED BY <2>3, <3>3, <4>2
      <3> QED BY <3>2, <3>3
    <2>10. b \notin SharedBlocks
      BY <2>7, BlockKinds
    <2> QED BY <2>6, <2>7, <2>8, <2>9, <2>10, PlainRanFeed
  <1>7. CASE noteDeleted(d)
    <2>1. PICK b \in NoteBlocks : Ran(d, b, <<>>, <<FeedRead>>)
      BY <1>7, noteDeletedRuns
    <2>2. feed' = [feed EXCEPT ![d] = {}] /\ UNCHANGED <<calls, silent>>
      BY <1>7, noteDeletedRuns
    <2>3. b.then.kind = "noteDeleted"
      BY BlockKinds
    <2>4. feed'[d] = {}
      BY <2>2 DEF TypesInv, StateOK
    <2> QED BY <2>1, <2>2, <2>3, <2>4, RefreshRanFeed
  <1>8. CASE markedPost(d) \/ liked(d)
    <2>1. PICK p \in PostIds : \E b : /\ b \in MarkBlocks(p) \/ b \in LikedBlocks(p)
                                      /\ \/ Ran(d, b, <<>>, <<>>)
                                         \/ \E w : /\ w \in LikeWrites(p, UidOf[d]) \/ w \in NoteWrites(p, UidOf[d])
                                                   /\ Ran(d, b, <<w>>, <<>>)
      BY <1>8, markedPostRuns, likedRuns
    <2>2. PICK b : /\ b \in MarkBlocks(p) \/ b \in LikedBlocks(p)
                   /\ \/ Ran(d, b, <<>>, <<>>)
                      \/ \E w : /\ w \in LikeWrites(p, UidOf[d]) \/ w \in NoteWrites(p, UidOf[d])
                                /\ Ran(d, b, <<w>>, <<>>)
      BY <2>1
    <2>3. PICK ws : Ran(d, b, ws, <<>>) /\ \A x \in Range(ws) : WriteOwned(f, d, x)
      <3>1. CASE Ran(d, b, <<>>, <<>>)
        BY <1>0, <3>1
      <3>2. ASSUME NEW w, w \in LikeWrites(p, UidOf[d]) \/ w \in NoteWrites(p, UidOf[d]), Ran(d, b, <<w>>, <<>>)
            PROVE  \E ws : Ran(d, b, ws, <<>>) /\ \A x \in Range(ws) : WriteOwned(f, d, x)
        <4>1. w \in LikingWrites(p)
          BY <3>2, NotMarking, FeedPostFacts
        <4>2. WriteOwned(f, d, w)
          BY <4>1, OtherWritesOwned
        <4> QED BY <1>0, <3>2, <4>2
      <3> QED BY <2>2, <3>1, <3>2
    <2>4. b.then.kind \in {"markedPost", "liked"}
      BY <2>2, BlockKinds
    <2>5. UNCHANGED <<calls, feed, silent>>
      BY <1>8 DEF markedPost, liked, appVars
    <2>6. b \notin SharedBlocks /\ b.then.kind \notin ChainKinds
      BY <2>4, BlockKinds DEF ChainKinds
    <2> QED BY <2>3, <2>4, <2>5, <2>6, PlainRanFeed
  <1> QED BY <1>1, <1>2, <1>3, <1>4, <1>5, <1>6, <1>7, <1>8 DEF MainQueue

-----------------------------------------------------------------------------
(* Answers leave the feed current.                                         *)

\* A block joins the main queue.
LEMMA AppendedFeed ==
    ASSUME TypesInv, NEW d \in Devices, NEW b \in PostBlocks, mainq'[d] = Append(mainq[d], b), feed'[d] = feed[d],
           NEW p \in PostIds
    PROVE  /\ Range(mainq'[d]) = Range(mainq[d]) \cup {b}
           /\ ~IsFeed(b) /\ Listed(d, p) => Listed(d, p)'
           /\ IsFeed(b) /\ b.res[PostDoc(p)] = UidOf[d] => Listed(d, p)'
           /\ Passing(d, p) /\ (IsFeed(b) => b.res[PostDoc(p)] = NoDoc) => Passing(d, p)'
           /\ b \in NoteBlocks => Passing(d, p)'
  <1>1. mainq[d] \in Seq(PostBlocks)
    BY InQueue DEF TypesInv, FlightOK
  <1>2. PICK s : s = mainq'[d]
    OBVIOUS
  <1>3. s = Append(mainq[d], b) /\ Range(s) = Range(mainq[d]) \cup {b}
    BY <1>1, <1>2, RangeOfAppend
  <1>4. ASSUME Lists(s, PostDoc(p), UidOf[d]) PROVE Listed(d, p)'
    BY <1>2, <1>4 DEF Listed, Lists, IsFeed
  <1>5. ASSUME ~IsFeed(b), Listed(d, p) PROVE Listed(d, p)'
    <2>1. CASE Lists(mainq[d], PostDoc(p), UidOf[d])
      BY <1>1, <1>3, <1>4, <1>5, <2>1, ListsAppend
    <2>2. CASE NoFeed(mainq[d]) /\ Post(p, UidOf[d]) \in feed[d]
      <3>1. NoFeed(s)
        BY <1>1, <1>3, <1>5, <2>2, ListsAppend
      <3> QED BY <1>2, <2>2, <3>1 DEF Listed, NoFeed, IsFeed
    <2> QED BY <1>5, <2>1, <2>2 DEF Listed
  <1>6. ASSUME IsFeed(b), b.res[PostDoc(p)] = UidOf[d] PROVE Listed(d, p)'
    BY <1>1, <1>3, <1>4, <1>6, ListsAppend
  <1>7. ASSUME Undone(s, PostDoc(p)), Passing(d, p) \/ b \in NoteBlocks PROVE Passing(d, p)'
    <2>1. Undone(mainq'[d], PostDoc(p))
      BY <1>2, <1>7
    <2>2. Post(p, UidOf[d]) \in feed'[d] => \E x \in Range(mainq'[d]) : x \in NoteBlocks
      BY <1>2, <1>3, <1>7 DEF Passing
    <2> QED BY <2>1, <2>2 DEF Passing, Undone, IsFeed
  <1>8. ASSUME Passing(d, p), IsFeed(b) => b.res[PostDoc(p)] = NoDoc PROVE Passing(d, p)'
    <2>1. Undone(mainq[d], PostDoc(p))
      BY <1>8 DEF Passing
    <2>2. Undone(s, PostDoc(p))
      BY <1>1, <1>3, <1>8, <2>1, ListsAppend
    <2> QED BY <1>7, <1>8, <2>2
  <1>9. ASSUME b \in NoteBlocks PROVE Passing(d, p)'
    <2>1. Undone(s, PostDoc(p))
      BY <1>1, <1>3, <1>9, ListsAppend
    <2> QED BY <1>7, <1>9, <2>1
  <1> QED BY <1>2, <1>3, <1>5, <1>6, <1>8, <1>9

\* What d sees of the post p.
LEMMA PostView ==
    ASSUME TypesInv, NEW f, OwnersAgree(f), NEW d \in Devices, OwnersAgreeAt(f, d), NEW p \in PostIds
    PROVE  /\ View(d, PostDoc(p)) \in {f[p], NoDoc}
           /\ f[p] = UidOf[d] /\ Exists(p) /\ Undropped(d, p) => View(d, PostDoc(p)) = UidOf[d]
           /\ Gone(d, p) => View(d, PostDoc(p)) = NoDoc
  <1>1. queue \in QueuesOf(PostWrites) /\ Range(queue[d]) \subseteq PostWrites
    BY InQueue DEF TypesInv, FlightOK
  <1>2. \/ View(d, PostDoc(p)) = docs[PostDoc(p)]
        \/ \E w \in Range(queue[d]) : PostDoc(p) \in w.paths /\ View(d, PostDoc(p)) = w.data
    BY <1>1, ViewFrom
  <1>3. docs[PostDoc(p)] \in {f[p], NoDoc}
    BY DEF OwnersAgree
  <1>4. ASSUME NEW w \in Range(queue[d]), PostDoc(p) \in w.paths
        PROVE  /\ w.data = f[p] \/ w \in DropWrites(p)
               /\ w \in StoreWrites(p) \/ w \in CountWrites(p) \/ w \in DropWrites(p)
               /\ w \in CountWrites(p) => w.upd
               /\ w \in DropWrites(p) => w.data = NoDoc
    <2>1. w \in PostWrites /\ WriteOwned(f, d, w)
      BY <1>1 DEF OwnersAgreeAt
    <2>2. w \in StoreWrites(p) \/ w \in CountWrites(p) \/ w \in DropWrites(p)
      <3>1. PICK u \in Users : u = UidOf[d]
        BY FeedPostFacts
      <3> QED BY <1>4, <2>1, <3>1, PathClasses
    <2>3. w.data = f[p] \/ w \in DropWrites(p)
      BY <2>1, <2>2 DEF WriteOwned
    <2> QED BY <2>2, <2>3, CountFacts, DropFacts
  <1>5. View(d, PostDoc(p)) \in {f[p], NoDoc}
    BY <1>2, <1>3, <1>4
  <1>6. ASSUME f[p] = UidOf[d], Exists(p), Undropped(d, p) PROVE View(d, PostDoc(p)) = UidOf[d]
    BY <1>2, <1>3, <1>4, <1>6 DEF Exists, Undropped
  <1>7. ASSUME Gone(d, p) PROVE View(d, PostDoc(p)) = NoDoc
    <2>1. docs[PostDoc(p)] = NoDoc /\ ~\E w \in Range(queue[d]) : w \in StoreWrites(p)
      BY <1>7 DEF Gone, Exists
    <2>2. \A w \in Range(queue[d]) : PostDoc(p) \in w.paths /\ ~w.upd => w.data = NoDoc
      BY <1>4, <2>1
    <2> QED BY <1>1, <2>1, <2>2, ViewGone
  <1> QED BY <1>5, <1>6, <1>7

LEMMA ResolveFeed ==
    ASSUME TypesInv, NEW f, OwnersAgree(f), NEW d \in Devices, OwnersAgreeAt(f, d), FeedAt(f, d),
           NEW r \in PostReads, Resolved(d, r), UNCHANGED appVars,
           mainq'[d] = Append(mainq[d], [then |-> r.then, res |-> [path \in r.paths |-> View(d, path)]])
    PROVE  OwnersAgreeAt(f, d)' /\ FeedAt(f, d)'
  <1>1. PICK b : b = [then |-> r.then, res |-> [path \in r.paths |-> View(d, path)]]
    OBVIOUS
  <1>2. b \in PostBlocks /\ b.then = r.then /\ mainq'[d] = Append(mainq[d], b)
    BY <1>1, ReadTells
  <1>3. Moved(d, {}, {r}, {}, {}, {b})
    BY <1>1, ResolvedMoved
  <1>4. UNCHANGED <<calls, feed, silent>> /\ docs' = docs
    BY DEF appVars, Resolved
  <1>5. IsFeed(b) => /\ r = FeedRead
                     /\ \A p \in PostIds : b.res[PostDoc(p)] = View(d, PostDoc(p))
    <2>1. ASSUME IsFeed(b) PROVE r = FeedRead
      <3>1. b.then.kind = "fetchedPosts"
        BY <2>1, BlockKinds DEF IsFeed
      <3> QED BY <1>2, <3>1, ReadCases, ReadFacts
    <2>2. ASSUME r = FeedRead, NEW p \in PostIds PROVE b.res[PostDoc(p)] = View(d, PostDoc(p))
      <3>1. r.paths = PostDocs /\ PostDoc(p) \in PostDocs
        BY <2>2, ReadFacts, PathFacts
      <3> QED BY <1>1, <3>1
    <2> QED BY <2>1, <2>2
  <1>6. r = FeedRead => IsFeed(b)
    <2> SUFFICES ASSUME r = FeedRead PROVE IsFeed(b)
      OBVIOUS
    <2>1. b.then.kind = "fetchedPosts"
      BY <1>2, ReadFacts
    <2> QED BY <1>2, <2>1, KindOfBlock DEF IsFeed
  <1>7. b.then.kind \in {"fetchedPosts", "foundLikes", "foundFeeds", "foundNotes"}
    BY <1>2, ReadCases, ReadFacts
  <1>8. OwnersAgreeAt(f, d)'
    <2>1. BlockOwned(f, d, b)
      <3>1. b \notin UploadBlocks
        BY <1>7, BlockKinds
      <3>2. IsFeed(b) => \A p \in PostIds : b.res[PostDoc(p)] \in {f[p], NoDoc}
        BY <1>5, PostView
      <3> QED BY <3>1, <3>2 DEF BlockOwned, IsFeed
    <2>2. /\ \A c \in Range(calls'[d]) : f[c.p] = UidOf[d]
          /\ \A post \in feed'[d] : post.ownerUid = f[post.postId]
      BY <1>4 DEF OwnersAgreeAt
    <2> QED BY <1>3, <2>1, <2>2, OwnersMoved
  <1>9. ASSUME NEW p \in PostIds, f[p] = UidOf[d] PROVE OwnListed(d, p)'
    <2>1. OwnListed(d, p)
      BY <1>9 DEF FeedAt
    <2>2. (Exists(p)' <=> Exists(p)) /\ (Undropped(d, p)' <=> Undropped(d, p))
      BY <1>3, <1>4 DEF Exists, Undropped, Moved
    <2>3. SUFFICES ASSUME Exists(p), Undropped(d, p) PROVE RefreshComing(d)' \/ Listed(d, p)'
      BY <2>2 DEF OwnListed
    <2>4. CASE r = FeedRead
      <3>1. b.res[PostDoc(p)] = UidOf[d]
        BY <1>5, <1>6, <1>9, <2>3, <2>4, PostView
      <3> QED BY <1>2, <1>4, <1>6, <2>4, <3>1, AppendedFeed
    <2>5. CASE r # FeedRead
      <3>1. RefreshComing(d) => RefreshComing(d)'
        BY <1>3, <2>5 DEF RefreshComing, Moved
      <3>2. Listed(d, p) => Listed(d, p)'
        BY <1>2, <1>4, <1>5, <2>5, AppendedFeed
      <3> QED BY <2>1, <2>3, <3>1, <3>2 DEF OwnListed
    <2> QED BY <2>4, <2>5
  <1>10. ASSUME NEW p \in PostIds, f[p] = UidOf[d] PROVE GoneHidden(d, p)'
    <2>1. GoneHidden(d, p)
      BY <1>10 DEF FeedAt
    <2>2. ChainComing(d, p) => ChainComing(d, p)'
      <3>1. r = FeedsRead(p) => b \in FeedsBlocks(p)
        BY <1>2, ReadFacts, KindOfBlock
      <3>2. r = NotesRead(p) => b \in NotesBlocks(p)
        BY <1>2, ReadFacts, KindOfBlock
      <3> QED BY <1>3, <3>1, <3>2 DEF ChainComing, Moved
    <2>3. Gone(d, p)' => Gone(d, p)
      BY <1>3, <1>4, <2>2 DEF Gone, Exists, Moved
    <2>4. ASSUME Gone(d, p), Passing(d, p) PROVE Passing(d, p)'
      <3>1. IsFeed(b) => b.res[PostDoc(p)] = NoDoc
        BY <1>5, <2>4, PostView
      <3> QED BY <1>2, <1>4, <2>4, <3>1, AppendedFeed
    <2> QED BY <2>1, <2>3, <2>4 DEF GoneHidden
  <1> QED BY <1>8, <1>9, <1>10 DEF FeedAt

\* One device per account: nobody is signed in twice.
OneDevice == \A d, e \in Devices : UidOf[d] = UidOf[e] => d = e

\* The writes of a post.
LEMMA PostWriteCases ==
    ASSUME NEW f, NEW d \in Devices, NEW w \in PostWrites, WriteOwned(f, d, w),
           NEW p \in PostIds, PostDoc(p) \in w.paths
    PROVE  \/ p \in NewIds /\ w \in StoreWrites(p) /\ w.data = f[p] /\ f[p] = UidOf[d]
           \/ w \in CountWrites(p) /\ w.data = f[p]
           \/ w \in DropWrites(p) /\ f[p] = UidOf[d]
  <1>1. PICK u \in Users : u = UidOf[d]
    BY FeedPostFacts
  <1>2. \/ p \in NewIds /\ w \in StoreWrites(p)
        \/ w \in CountWrites(p) \/ w \in DropWrites(p)
    BY <1>1, PathClasses
  <1> QED BY <1>2 DEF WriteOwned

\* An answer on d changes a post of another account at most in its counter.
LEMMA AnswerOwners ==
    ASSUME TypesInv, NEW f, OwnersAgree(f), NEW d \in Devices, OwnersAgreeAt(f, d), shares' = shares,
           NEW w \in PostWrites, NEW path \in w.paths, AnsweredPart(d, TRUE, w, path)
    PROVE  /\ OwnersAgree(f)'
           /\ \A p \in PostIds : f[p] # UidOf[d] => (Exists(p)' <=> Exists(p))
           /\ \A p \in PostIds : PostDoc(p) # path => (Exists(p)' <=> Exists(p))
  <1>1. w \in Range(queue[d]) /\ WriteOwned(f, d, w)
    BY DEF AnsweredPart, OwnersAgreeAt
  <1>2. \A p \in PostIds : PostDoc(p) \in Paths
    BY PathFacts
  <1>3. ASSUME NEW p \in PostIds, PostDoc(p) # path PROVE docs'[PostDoc(p)] = docs[PostDoc(p)]
    BY <1>2, <1>3, AnswerStores
  <1>4. ASSUME NEW p \in PostIds, PostDoc(p) = path
        PROVE  /\ docs'[PostDoc(p)] \in {f[p], NoDoc}
               /\ f[p] # UidOf[d] => (Exists(p)' <=> Exists(p))
    <2>1. \/ p \in NewIds /\ w \in StoreWrites(p) /\ w.data = f[p] /\ f[p] = UidOf[d]
          \/ w \in CountWrites(p) /\ w.data = f[p]
          \/ w \in DropWrites(p) /\ f[p] = UidOf[d]
      BY <1>1, <1>4, PostWriteCases
    <2>2. CASE p \in NewIds /\ w \in StoreWrites(p) /\ w.data = f[p] /\ f[p] = UidOf[d]
      BY <1>4, <2>2, StoreFacts, AnswerStores
    <2>3. CASE w \in CountWrites(p) /\ w.data = f[p]
      <3>1. w.upd /\ w.data # NoDoc
        BY <2>3, CountFacts
      <3>2. docs'[PostDoc(p)] = IF docs[PostDoc(p)] = NoDoc THEN NoDoc ELSE w.data
        BY <1>4, <3>1, AnswerStores
      <3> QED BY <2>3, <3>1, <3>2 DEF Exists
    <2>4. CASE w \in DropWrites(p) /\ f[p] = UidOf[d]
      <3>1. ~w.upd /\ w.data = NoDoc
        BY <2>4, DropFacts
      <3>2. docs'[PostDoc(p)] = NoDoc
        BY <1>4, <3>1, AnswerStores
      <3> QED BY <2>4, <3>2
    <2> QED BY <2>1, <2>2, <2>3, <2>4
  <1>5. OwnersAgree(f)'
    BY <1>3, <1>4 DEF OwnersAgree
  <1>6. \A p \in PostIds : PostDoc(p) # path => (Exists(p)' <=> Exists(p))
    BY <1>3 DEF Exists
  <1>7. \A p \in PostIds : f[p] # UidOf[d] => (Exists(p)' <=> Exists(p))
    BY <1>4, <1>6
  <1> QED BY <1>5, <1>6, <1>7

\* What an answer leaves in the queues of d.
LEMMA AnswerRest ==
    ASSUME TypesInv, NEW f, NEW d \in Devices, OwnersAgreeAt(f, d), UNCHANGED appVars,
           NEW w \in PostWrites, NEW path \in w.paths, AnsweredPart(d, TRUE, w, path)
    PROVE  /\ OwnersAgreeAt(f, d)'
           /\ \A p \in PostIds : /\ RefreshComing(d) => RefreshComing(d)'
                                 /\ Listed(d, p) => Listed(d, p)'
                                 /\ Passing(d, p) => Passing(d, p)'
  <1>1. UNCHANGED <<calls, feed, silent>> /\ gets' = gets
    BY DEF appVars, AnsweredPart
  <1>2. PICK b : b = [then |-> w.then, res |-> TRUE /\ Accepts(w, path)]
    OBVIOUS
  <1>3. w.then = NoThen \/ (w.then # NoThen /\ mainq'[d] = Append(mainq[d], b) /\ Range(mainq'[d]) = Range(mainq[d]) \cup {b})
    BY <1>2 DEF AnsweredPart
  <1>4. w.then = NoThen => mainq'[d] = mainq[d]
    BY DEF AnsweredPart
  <1>5. ASSUME w.then # NoThen
        PROVE  /\ b \in PostBlocks /\ ~IsFeed(b)
               /\ b.then.kind \notin {"uploaded", "fetchedPosts"}
    <2>1. b \in PostBlocks
      <3>1. (TRUE /\ Accepts(w, path)) \in BOOLEAN
        BY DEF Accepts
      <3> QED BY <1>2, <1>5, <3>1, WriteTells DEF Tells
    <2>2. b.then.kind \in {"markedPost", "liked", "postDeleted", "shared", "noteDeleted"}
      BY <1>2, <1>5, ThenClasses
    <2> QED BY <2>1, <2>2, BlockKinds DEF IsFeed
  <1>6. \A x \in Range(queue'[d]) : WriteOwned(f, d, x)
    BY AnswerLeaves, OtherWritesOwned DEF OwnersAgreeAt
  <1>7. \A x \in Range(mainq'[d]) : BlockOwned(f, d, x)
    <2>1. w.then # NoThen => BlockOwned(f, d, b)
      BY <1>5, BlocksOwned
    <2> QED BY <1>3, <1>4, <2>1 DEF OwnersAgreeAt
  <1>8. OwnersAgreeAt(f, d)'
    BY <1>1, <1>6, <1>7 DEF OwnersAgreeAt, WriteOwned, BlockOwned
  <1>9. RefreshComing(d) => RefreshComing(d)'
    BY <1>1, <1>3, <1>4 DEF RefreshComing
  <1>10. ASSUME NEW p \in PostIds
         PROVE  (Listed(d, p) => Listed(d, p)') /\ (Passing(d, p) => Passing(d, p)')
    <2>1. CASE w.then = NoThen
      BY <1>1, <1>4, <2>1 DEF Listed, Passing, Lists, NoFeed, Undone, IsFeed
    <2>2. CASE w.then # NoThen
      BY <1>1, <1>3, <1>5, <2>2, AppendedFeed
    <2> QED BY <2>1, <2>2
  <1> QED BY <1>8, <1>9, <1>10

LEMMA AnswerOwnListed ==
    ASSUME TypesInv, NEW f, OwnersAgree(f), NEW d \in Devices, OwnersAgreeAt(f, d), UNCHANGED appVars,
           NEW w \in PostWrites, NEW path \in w.paths, AnsweredPart(d, TRUE, w, path),
           NEW p \in PostIds, f[p] = UidOf[d], OwnListed(d, p)
    PROVE  OwnListed(d, p)'
  <1>1. /\ RefreshComing(d) => RefreshComing(d)'
        /\ Listed(d, p) => Listed(d, p)'
    BY AnswerRest
  <1>2. w \in Range(queue[d]) /\ WriteOwned(f, d, w)
    BY DEF AnsweredPart, OwnersAgreeAt
  <1>3. ASSUME Undropped(d, p)', w \notin DropWrites(p) PROVE Undropped(d, p)
    <2>1. \A x \in Range(queue[d]) : x \in Range(queue'[d]) \/ x = w
      BY AnswerLeaves
    <2> QED BY <1>3, <2>1 DEF Undropped
  <1>4. SUFFICES ASSUME Exists(p)', Undropped(d, p)' PROVE RefreshComing(d)' \/ Listed(d, p)'
    BY DEF OwnListed
  <1>5. CASE path # PostDoc(p)
    <2>1. w \notin DropWrites(p)
      BY <1>5, DropFacts
    <2>2. Exists(p)
      BY <1>4, <1>5, AnswerOwners DEF appVars
    <2> QED BY <1>1, <1>3, <1>4, <2>1, <2>2 DEF OwnListed
  <1>6. CASE path = PostDoc(p) /\ p \in NewIds /\ w \in StoreWrites(p)
    <2>1. ~w.upd /\ w.then \in SharedThens /\ w.then # NoThen
      BY <1>6, StoreFacts
    <2>2. Accepts(w, path)
      BY <2>1 DEF Accepts
    <2>3. PICK b : b = [then |-> w.then, res |-> TRUE]
      OBVIOUS
    <2>4. b \in SharedBlocks /\ b.res
      BY <2>1, <2>3 DEF SharedBlocks
    <2>5. b \in Range(mainq'[d])
      BY <2>1, <2>2, <2>3 DEF AnsweredPart
    <2> QED BY <2>4, <2>5 DEF RefreshComing
  <1>7. CASE path = PostDoc(p) /\ w \in CountWrites(p)
    <2>1. w.upd
      BY <1>7, CountFacts
    <2>2. w \notin DropWrites(p)
      BY <2>1, DropFacts
    <2>3. Exists(p)
      BY <1>4, <1>7, <2>1, AnswerStores DEF Exists
    <2> QED BY <1>1, <1>3, <1>4, <2>2, <2>3 DEF OwnListed
  <1>8. CASE path = PostDoc(p) /\ w \in DropWrites(p)
    <2>1. ~w.upd /\ w.data = NoDoc
      BY <1>8, DropFacts
    <2>2. docs'[PostDoc(p)] = NoDoc
      BY <1>8, <2>1, AnswerStores
    <2> QED BY <1>4, <2>2 DEF Exists
  <1> QED BY <1>2, <1>5, <1>6, <1>7, <1>8, PostWriteCases

LEMMA AnswerGoneHidden ==
    ASSUME TypesInv, NEW f, OwnersAgree(f), NEW d \in Devices, OwnersAgreeAt(f, d), UNCHANGED appVars,
           NEW w \in PostWrites, NEW path \in w.paths, AnsweredPart(d, TRUE, w, path),
           NEW p \in PostIds, f[p] = UidOf[d], GoneHidden(d, p)
    PROVE  GoneHidden(d, p)'
  <1>1. Passing(d, p) => Passing(d, p)'
    BY AnswerRest
  <1>2. w \in Range(queue[d]) /\ WriteOwned(f, d, w) /\ gets' = gets /\ silent' = silent
    BY DEF AnsweredPart, OwnersAgreeAt, appVars
  <1>3. /\ \A x \in Range(queue[d]) : x \in Range(queue'[d]) \/ x = w
        /\ Range(mainq[d]) \subseteq Range(mainq'[d])
        /\ w.paths # {path} => Trimmed(w, path) \in Range(queue'[d])
    <2>1. /\ \A e \in Devices : \A x \in Range(queue[e]) : x \in Range(queue'[e]) \/ (e = d /\ x = w)
          /\ w.paths # {path} => Trimmed(w, path) \in Range(queue'[d])
      BY AnswerLeaves
    <2>2. \A e \in Devices : Range(mainq[e]) \subseteq Range(mainq'[e])
      BY AnswerTells
    <2> QED BY <2>1, <2>2
  <1>4. SUFFICES ASSUME Gone(d, p)' PROVE Passing(d, p)'
    BY DEF GoneHidden
  <1>5. ASSUME ~Exists(p), w \notin StoreWrites(p), w \notin Unnotes PROVE Passing(d, p)'
    <2>1. ChainComing(d, p) => ChainComing(d, p)'
      BY <1>2, <1>3, <1>5 DEF ChainComing
    <2>2. Gone(d, p)
      BY <1>2, <1>3, <1>4, <1>5, <2>1 DEF Gone
    <2> QED BY <1>1, <2>2 DEF GoneHidden
  <1>6. CASE w \in Unnotes
    <2>1. PICK q \in PostIds : w \in UnnoteWrites(q)
      BY <1>6 DEF Unnotes
    <2>2. CASE w.paths # {path}
      <3>1. Trimmed(w, path) \in Unnotes
        BY <2>1, UnnoteFacts, WriteClasses
      <3>2. ChainComing(d, p)'
        BY <1>3, <2>2, <3>1 DEF ChainComing
      <3> QED BY <1>4, <3>2 DEF Gone
    <2>3. CASE w.paths = {path}
      <3>1. w.then = NoteDeleted /\ w.then # NoThen /\ ~w.upd
        BY <2>1, UnnoteFacts
      <3>2. PICK b : b = [then |-> w.then, res |-> TRUE /\ Accepts(w, path)]
        OBVIOUS
      <3>3. b \in NoteBlocks
        BY <3>1, <3>2 DEF NoteBlocks, Accepts
      <3>4. b \in PostBlocks
        BY <3>3, BlockClasses
      <3>5. mainq'[d] = Append(mainq[d], b) /\ feed'[d] = feed[d]
        BY <3>1, <3>2 DEF AnsweredPart, appVars
      <3> QED BY <3>3, <3>4, <3>5, AppendedFeed
    <2> QED BY <2>2, <2>3
  <1>7. CASE w \notin Unnotes /\ path # PostDoc(p)
    <2>1. ~Exists(p)
      BY <1>4, <1>7, AnswerOwners DEF appVars, Gone
    <2>2. w \notin StoreWrites(p)
      BY <1>7 DEF StoreWrites
    <2> QED BY <1>5, <1>7, <2>1, <2>2
  <1>8. CASE path = PostDoc(p) /\ p \in NewIds /\ w \in StoreWrites(p)
    <2>1. ~w.upd /\ w.data # NoDoc
      BY <1>8, StoreFacts
    <2>2. docs'[PostDoc(p)] # NoDoc
      BY <1>8, <2>1, AnswerStores
    <2> QED BY <1>4, <2>2 DEF Gone, Exists
  <1>9. CASE w \notin Unnotes /\ path = PostDoc(p) /\ w \in CountWrites(p)
    <2>1. w.upd /\ w.data # NoDoc
      BY <1>9, CountFacts
    <2>2. ~Exists(p)
      BY <1>4, <1>9, <2>1, AnswerStores DEF Exists, Gone
    <2>3. w \notin StoreWrites(p)
      BY <2>1 DEF StoreWrites
    <2> QED BY <1>5, <1>9, <2>2, <2>3
  <1>10. CASE path = PostDoc(p) /\ w \in DropWrites(p)
    <2>1. w.then = PostDeleted(p) /\ w.then # NoThen
      BY <1>10, DropFacts
    <2>2. PICK b : b = [then |-> w.then, res |-> TRUE /\ Accepts(w, path)]
      OBVIOUS
    <2>3. b \in DropBlocks(p)
      BY <2>1, <2>2 DEF DropBlocks, Accepts
    <2>4. b \in Range(mainq'[d])
      BY <2>1, <2>2 DEF AnsweredPart
    <2>5. ChainComing(d, p)'
      BY <2>3, <2>4 DEF ChainComing
    <2> QED BY <1>4, <2>5 DEF Gone
  <1> QED BY <1>2, <1>6, <1>7, <1>8, <1>9, <1>10, PostWriteCases

LEMMA DeliverFeed ==
    ASSUME ~Failures, OneDevice, TypesInv, NEW f, FeedOK(f), NEW d \in Devices, Deliver(d), hasty' = hasty
    PROVE  FeedOK(f)'
  <1>1. UNCHANGED appVars
    BY DeliverCases
  <1>2. UNCHANGED <<calls, feed, silent, shares>>
    BY <1>1 DEF appVars
  <1>3. /\ OwnersAgree(f) /\ OwnersAgreeAt(f, d) /\ FeedAt(f, d)
        /\ \A e \in Devices : OwnersAgreeAt(f, e) /\ FeedAt(f, e)
    BY DEF FeedOK
  <1>4. CASE Answer(d, TRUE)
    <2>1. TRUE \in BOOLEAN
      OBVIOUS
    <2>2. PICK w \in PostWrites : \E path \in w.paths : AnsweredPart(d, TRUE, w, path)
      BY <1>1, <1>4, <2>1, AnswerTypes
    <2>3. PICK path \in w.paths : AnsweredPart(d, TRUE, w, path)
      BY <2>2
    <2>4. OwnersAgree(f)' /\ \A p \in PostIds : f[p] # UidOf[d] => (Exists(p)' <=> Exists(p))
      BY <1>2, <1>3, <2>3, AnswerOwners
    <2>5. OwnersAgreeAt(f, d)'
      BY <1>1, <1>3, <2>3, AnswerRest
    <2>6. FeedAt(f, d)'
      <3> SUFFICES ASSUME NEW p \in PostIds, f[p] = UidOf[d] PROVE OwnListed(d, p)' /\ GoneHidden(d, p)'
        BY DEF FeedAt
      <3>1. OwnListed(d, p) /\ GoneHidden(d, p)
        BY <1>3 DEF FeedAt
      <3>2. OwnListed(d, p)'
        BY <1>1, <1>3, <2>3, <3>1, AnswerOwnListed
      <3>3. GoneHidden(d, p)'
        BY <1>1, <1>3, <2>3, <3>1, AnswerGoneHidden
      <3> QED BY <3>2, <3>3
    <2>7. ASSUME NEW e \in Devices, e # d PROVE OwnersAgreeAt(f, e)' /\ FeedAt(f, e)'
      <3>1. SameFeed(e)
        BY <1>2, <2>3, <2>7 DEF SameFeed, AnsweredPart
      <3>2. \A p \in PostIds : f[p] = UidOf[e] => (Exists(p)' <=> Exists(p))
        BY <2>4, <2>7 DEF OneDevice
      <3> QED BY <1>3, <3>1, <3>2, FeedElsewhere
    <2> QED BY <2>4, <2>5, <2>6, <2>7 DEF FeedOK
  <1>5. ASSUME NEW k \in DOMAIN gets[d], Resolve(d, k) PROVE FeedOK(f)'
    <2>1. PICK r \in PostReads :
             /\ Resolved(d, r)
             /\ mainq'[d] = Append(mainq[d], [then |-> r.then, res |-> [path \in r.paths |-> View(d, path)]])
      BY <1>1, <1>5, ResolveTypes
    <2>2. OwnersAgreeAt(f, d)' /\ FeedAt(f, d)'
      BY <1>1, <1>3, <2>1, ResolveFeed
    <2>3. docs' = docs
      BY <2>1 DEF Resolved
    <2>4. OwnersAgree(f)'
      BY <1>2, <1>3, <2>3, OwnersKept
    <2>5. ASSUME NEW e \in Devices, e # d PROVE OwnersAgreeAt(f, e)' /\ FeedAt(f, e)'
      <3>1. SameFeed(e)
        BY <1>2, <2>1, <2>5 DEF SameFeed, Resolved
      <3>2. \A p \in PostIds : f[p] = UidOf[e] => (Exists(p)' <=> Exists(p))
        BY <2>3 DEF Exists
      <3> QED BY <1>3, <3>1, <3>2, FeedElsewhere
    <2> QED BY <2>2, <2>4, <2>5 DEF FeedOK
  <1> QED BY <1>4, <1>5, DeliverCases

\* A step of d that leaves documents and the other devices alone.
LEMMA FeedByDevice ==
    ASSUME NEW f, FeedOK(f), NEW d \in Devices, docs' = docs, shares' = shares,
           \A e \in Devices \ {d} : SameFeed(e), OwnersAgreeAt(f, d)' /\ FeedAt(f, d)'
    PROVE  FeedOK(f)'
  <1>1. OwnersAgree(f)'
    BY OwnersKept DEF FeedOK
  <1>2. ASSUME NEW e \in Devices, e # d PROVE OwnersAgreeAt(f, e)' /\ FeedAt(f, e)'
    <2>1. OwnersAgreeAt(f, e) /\ FeedAt(f, e) /\ SameFeed(e)
      BY <1>2 DEF FeedOK
    <2>2. \A p \in PostIds : f[p] = UidOf[e] => (Exists(p)' <=> Exists(p))
      BY DEF Exists
    <2> QED BY <2>1, <2>2, FeedElsewhere
  <1> QED BY <1>1, <1>2 DEF FeedOK

LEMMA StorageFeed ==
    ASSUME ~Failures, TypesInv, NEW f, FeedOK(f), NEW d \in Devices, NEW i \in DOMAIN calls[d], StorageAnswer(d, i),
           hasty' = hasty
    PROVE  FeedOK(f)'
  <1>1. /\ UNCHANGED <<docs, queue, gets, feed, screens, open, silent, shares>>
        /\ \A e \in Devices \ {d} : calls'[e] = calls[e] /\ mainq'[e] = mainq[e]
    BY StorageTypes
  <1>2. PICK c \in UploadThens :
                /\ Range(calls[d]) = {c} \cup Range(calls'[d])
                /\ \/ Failures /\ mainq' = mainq
                   \/ \E b \in UploadBlocks :
                        /\ b.then = c /\ mainq'[d] = Append(mainq[d], b)
                        /\ Range(mainq'[d]) = Range(mainq[d]) \cup {b}
    BY StorageTypes
  <1>3. PICK b \in UploadBlocks :
            b.then = c /\ mainq'[d] = Append(mainq[d], b) /\ Range(mainq'[d]) = Range(mainq[d]) \cup {b}
    BY <1>2
  <1>4. Moved(d, {}, {}, {}, {}, {b})
    BY <1>1, <1>3 DEF Moved
  <1>5. OwnersAgreeAt(f, d) /\ FeedAt(f, d)
    BY DEF FeedOK
  <1>6. b.then.kind = "uploaded" /\ b \in PostBlocks
    BY BlockKinds, BlockClasses
  <1>7. ~IsFeed(b)
    BY <1>6, BlockKinds DEF IsFeed
  <1>8. OwnersAgreeAt(f, d)'
    <2>1. BlockOwned(f, d, b)
      <3>1. f[c.p] = UidOf[d]
        BY <1>2, <1>5 DEF OwnersAgreeAt
      <3> QED BY <1>3, <1>7, <3>1 DEF BlockOwned, IsFeed
    <2>2. /\ \A x \in Range(calls'[d]) : f[x.p] = UidOf[d]
          /\ \A post \in feed'[d] : post.ownerUid = f[post.postId]
      BY <1>1, <1>2, <1>5 DEF OwnersAgreeAt
    <2> QED BY <1>4, <1>5, <2>1, <2>2, OwnersMoved
  <1>9. ASSUME NEW p \in PostIds, f[p] = UidOf[d] PROVE OwnListed(d, p)' /\ GoneHidden(d, p)'
    <2>1. OwnListed(d, p) /\ GoneHidden(d, p)
      BY <1>5, <1>9 DEF FeedAt
    <2>2. (Listed(d, p) => Listed(d, p)') /\ (Passing(d, p) => Passing(d, p)')
      BY <1>1, <1>3, <1>6, <1>7, AppendedFeed
    <2>3. RefreshComing(d) => RefreshComing(d)'
      BY <1>1, <1>3 DEF RefreshComing
    <2>4. (Exists(p)' <=> Exists(p)) /\ (Undropped(d, p)' <=> Undropped(d, p))
      BY <1>1 DEF Exists, Undropped
    <2>5. OwnListed(d, p)'
      BY <2>1, <2>2, <2>3, <2>4 DEF OwnListed
    <2>6. ChainComing(d, p) => ChainComing(d, p)'
      BY <1>1, <1>3 DEF ChainComing
    <2>7. Gone(d, p)' => Gone(d, p)
      BY <1>1, <2>4, <2>6 DEF Gone
    <2>8. GoneHidden(d, p)'
      BY <2>1, <2>2, <2>7 DEF GoneHidden
    <2> QED BY <2>5, <2>8
  <1>10. FeedAt(f, d)'
    BY <1>9 DEF FeedAt
  <1>11. \A e \in Devices \ {d} : SameFeed(e)
    BY <1>1 DEF SameFeed
  <1> QED BY <1>1, <1>8, <1>10, <1>11, FeedByDevice

LEMMA BlocksFeed ==
    ASSUME TypesInv, NEW f, FeedOK(f), NEW d \in Devices, MainQueue(d), hasty' = hasty
    PROVE  FeedOK(f)'
  <1>1. OwnersAgreeAt(f, d) /\ FeedAt(f, d)
    BY DEF FeedOK
  <1>2. OwnersAgreeAt(f, d)' /\ FeedAt(f, d)'
    BY <1>1, MainQueueFeed
  <1>3. \E ws, rs : Take(d, ws, rs)
    BY DEF MainQueue, uploaded, shared, refresh, fetchedPosts, foundLikes, postDeleted, foundFeeds, foundNotes,
           noteDeleted, markedPost, liked
  <1>4. PICK ws, rs : Take(d, ws, rs)
    BY <1>3
  <1>5. /\ docs' = docs
        /\ \A e \in Devices \ {d} : queue'[e] = queue[e] /\ gets'[e] = gets[e] /\ mainq'[e] = mainq[e]
    <2>1. queue \in [Devices -> Seq(PostWrites)] /\ gets \in [Devices -> Seq(PostReads)]
          /\ mainq \in [Devices -> Seq(PostBlocks)]
      BY DEF TypesInv, FlightOK, QueuesOf
    <2> QED BY <1>4, <2>1 DEF Take
  <1>6. /\ calls' = calls /\ shares' = shares
        /\ feed' = feed \/ \E F : feed' = [feed EXCEPT ![d] = F]
        /\ silent' = silent \/ \E F : silent' = [silent EXCEPT ![d] = F]
    BY DEF MainQueue, uploaded, shared, refresh, fetchedPosts, foundLikes, postDeleted, foundFeeds, foundNotes,
           noteDeleted, markedPost, liked, appVars
  <1>7. \A e \in Devices \ {d} : feed'[e] = feed[e] /\ silent'[e] = silent[e]
    BY <1>6 DEF TypesInv, StateOK
  <1>8. \A e \in Devices \ {d} : SameFeed(e)
    BY <1>5, <1>6, <1>7 DEF SameFeed
  <1> QED BY <1>2, <1>5, <1>6, <1>8, FeedByDevice

-----------------------------------------------------------------------------
(* Touches leave the feed current.                                         *)

\* A touch that sends writes W, and empties the feed at most to ask for the posts.
LEMMA IssuedFeed ==
    ASSUME TypesInv, NEW f, FeedOK(f), NEW d \in Devices, NEW W, NEW RI, Moved(d, W, {}, RI, {}, {}), mainq' = mainq,
           calls' = calls, shares' = shares, silent' = silent,
           feed' = feed \/ (feed' = [feed EXCEPT ![d] = {}] /\ FeedRead \in RI),
           \A w \in W : WriteOwned(f, d, w)
    PROVE  FeedOK(f)'
  <1>1. OwnersAgreeAt(f, d) /\ FeedAt(f, d)
    BY DEF FeedOK
  <1>2. feed'[d] = feed[d] \/ (feed'[d] = {} /\ FeedRead \in Range(gets'[d]))
    BY DEF TypesInv, StateOK, Moved
  <1>3. \A e \in Devices \ {d} : feed'[e] = feed[e]
    BY DEF TypesInv, StateOK
  <1>4. /\ docs' = docs /\ Range(queue[d]) \subseteq Range(queue'[d])
        /\ Range(gets[d]) \subseteq Range(gets'[d])
    BY DEF Moved
  <1>5. OwnersAgreeAt(f, d)'
    <2>1. /\ \A c \in Range(calls'[d]) : f[c.p] = UidOf[d]
          /\ \A post \in feed'[d] : post.ownerUid = f[post.postId]
      BY <1>1, <1>2 DEF OwnersAgreeAt
    <2> QED BY <1>1, <2>1, OwnersMoved
  <1>6. ASSUME NEW p \in PostIds, f[p] = UidOf[d] PROVE OwnListed(d, p)' /\ GoneHidden(d, p)'
    <2>1. OwnListed(d, p) /\ GoneHidden(d, p)
      BY <1>1, <1>6 DEF FeedAt
    <2>2. (Exists(p)' <=> Exists(p)) /\ (Undropped(d, p)' => Undropped(d, p))
      BY <1>4 DEF Exists, Undropped
    <2>3. RefreshComing(d) => RefreshComing(d)'
      BY <1>4 DEF RefreshComing
    <2>4. RefreshComing(d)' \/ (Listed(d, p) => Listed(d, p)')
      <3>1. CASE feed'[d] = feed[d]
        BY <3>1 DEF Listed, Lists, NoFeed, IsFeed
      <3>2. CASE FeedRead \in Range(gets'[d])
        BY <3>2 DEF RefreshComing
      <3> QED BY <1>2, <3>1, <3>2
    <2>5. OwnListed(d, p)'
      BY <2>1, <2>2, <2>3, <2>4 DEF OwnListed
    <2>6. ChainComing(d, p) => ChainComing(d, p)'
      BY <1>4 DEF ChainComing
    <2>7. Gone(d, p)' => Gone(d, p)
      BY <1>4, <2>2, <2>6 DEF Gone
    <2>8. Passing(d, p) => Passing(d, p)'
      BY <1>2 DEF Passing, Undone, IsFeed
    <2>9. GoneHidden(d, p)'
      BY <2>1, <2>7, <2>8 DEF GoneHidden
    <2> QED BY <2>5, <2>9
  <1>7. FeedAt(f, d)'
    BY <1>6 DEF FeedAt
  <1>8. \A e \in Devices \ {d} : SameFeed(e)
    BY <1>3 DEF SameFeed, Moved
  <1> QED BY <1>4, <1>5, <1>7, <1>8, FeedByDevice

\* A new post is known by the tap that shares it: nothing was known of it.
LEMMA didTapDoneFeed ==
    ASSUME TypesInv, NEW f \in [PostIds -> Contents], FeedOK(f), NEW d \in Devices, didTapDone(d), hasty' \in BOOLEAN
    PROVE  \E g \in [PostIds -> Contents] : FeedOK(g)'
  <1>1. /\ shares \in Nat /\ shares' = shares + 1 /\ shares + 1 \in NewIds
        /\ Range(calls'[d]) = Range(calls[d]) \cup {Uploaded(shares + 1, screens[d])}
        /\ \A e \in Devices \ {d} : calls'[e] = calls[e]
        /\ UNCHANGED <<docs, queue, gets, mainq, feed, silent>>
    BY didTapDoneTypes
  <1>2. PICK s \in NewIds : s = shares + 1
    BY <1>1
  <1>3. s \in PostIds /\ s \notin OldPosts /\ UidOf[d] \in Contents
    BY FeedPostFacts DEF Contents
  <1>4. PICK g : g = [f EXCEPT ![s] = UidOf[d]]
    OBVIOUS
  <1>5. g \in [PostIds -> Contents] /\ g[s] = UidOf[d] /\ \A p \in PostIds : p # s => g[p] = f[p]
    BY <1>3, <1>4
  <1>6. \A u \in Users : u # NoDoc
    BY PostsAssumption
  <1>7. MaxShares \in Nat /\ s \in (shares + 1)..MaxShares
    BY <1>1, <1>2, PostsAssumption DEF NewIds
  <1>8. f[s] = NoDoc /\ docs[PostDoc(s)] = NoDoc
    <2>1. f[s] = NoDoc
      BY <1>7 DEF FeedOK, OwnersAgree
    <2> QED BY <1>3, <2>1 DEF FeedOK, OwnersAgree
  <1>9. OwnersAgree(g)'
    <2>1. \A p \in OldPosts : g[p] = OldOwner
      BY <1>3, <1>5, FeedPostFacts DEF FeedOK, OwnersAgree
    <2>2. ASSUME NEW p \in (shares' + 1)..MaxShares PROVE g[p] = NoDoc
      <3>1. p \in (shares + 1)..MaxShares /\ p # s /\ p \in NewIds
        BY <1>1, <1>2, <1>7, <2>2 DEF NewIds
      <3> QED BY <1>5, <3>1, FeedPostFacts DEF FeedOK, OwnersAgree
    <2>3. ASSUME NEW p \in PostIds PROVE docs'[PostDoc(p)] \in {g[p], NoDoc}
      BY <1>1, <1>5, <1>8 DEF FeedOK, OwnersAgree
    <2> QED BY <2>1, <2>2, <2>3 DEF OwnersAgree
  <1>10. ASSUME NEW e \in Devices PROVE OwnersAgreeAt(g, e)'
    <2>1. OwnersAgreeAt(f, e) /\ UidOf[e] # NoDoc
      BY <1>6, FeedPostFacts DEF FeedOK
    <2>2. ASSUME NEW c \in Range(calls'[e]) PROVE g[c.p] = UidOf[e]
      <3>1. calls \in QueuesOf(UploadThens)
        BY DEF TypesInv, FlightOK
      <3>2. ASSUME c \in Range(calls[e]) PROVE g[c.p] = UidOf[e]
        <4>1. c.p \in NewIds
          BY <3>1, <3>2, InQueue, ThenFacts
        <4>2. f[c.p] = UidOf[e]
          BY <2>1, <3>2 DEF OwnersAgreeAt
        <4> QED BY <1>5, <1>8, <2>1, <4>1, <4>2, FeedPostFacts
      <3>3. ASSUME e = d, c = Uploaded(shares + 1, screens[d]) PROVE g[c.p] = UidOf[e]
        <4>1. c.p = s
          BY <1>2, <3>3 DEF Uploaded
        <4> QED BY <1>5, <3>3, <4>1
      <3> QED BY <1>1, <3>2, <3>3
    <2>3. ASSUME NEW post \in feed[e] PROVE post.ownerUid = g[post.postId]
      <3>1. post.postId \in PostIds /\ post.ownerUid \in Users
        BY FeedPostFacts DEF TypesInv, StateOK
      <3>2. post.ownerUid = f[post.postId]
        BY <2>1 DEF OwnersAgreeAt
      <3> QED BY <1>5, <1>6, <1>8, <3>1, <3>2
    <2>4. ASSUME NEW w \in Range(queue[e]) PROVE WriteOwned(g, e, w)
      <3>1. WriteOwned(f, e, w)
        BY <2>1 DEF OwnersAgreeAt
      <3>2. w \notin StoreWrites(s) /\ w \notin CountWrites(s) /\ w \notin DropWrites(s)
        <4>1. w \in CountWrites(s) => w.data # NoDoc
          BY <1>3, CountFacts
        <4> QED BY <1>3, <1>8, <2>1, <3>1, <4>1 DEF WriteOwned
      <3> QED BY <1>5, <3>1, <3>2 DEF WriteOwned
    <2>5. ASSUME NEW b \in Range(mainq[e]) PROVE BlockOwned(g, e, b)
      <3>1. BlockOwned(f, e, b)
        BY <2>1 DEF OwnersAgreeAt
      <3>2. b \in UploadBlocks => b.then.p \in NewIds
        BY BlockKinds, ThenFacts
      <3>3. b \in UploadBlocks => g[b.then.p] = UidOf[e]
        BY <1>5, <1>8, <2>1, <3>1, <3>2, FeedPostFacts DEF BlockOwned
      <3>4. b \in FeedBlocks => \A p \in PostIds : b.res[PostDoc(p)] \in {g[p], NoDoc}
        BY <1>5, <1>8, <3>1 DEF BlockOwned
      <3> QED BY <3>3, <3>4 DEF BlockOwned
    <2> QED BY <1>1, <2>2, <2>3, <2>4, <2>5 DEF OwnersAgreeAt, WriteOwned, BlockOwned
  <1>11. ASSUME NEW e \in Devices, NEW p \in PostIds, g[p] = UidOf[e]
         PROVE  OwnListed(e, p) /\ GoneHidden(e, p)
    <2>1. CASE p # s
      BY <1>5, <1>11, <2>1 DEF FeedOK, FeedAt
    <2>2. CASE p = s
      <3>1. ~Exists(p)
        BY <1>8, <2>2 DEF Exists
      <3>2. OwnersAgreeAt(f, e) /\ UidOf[e] # NoDoc
        BY <1>6, FeedPostFacts DEF FeedOK
      <3>3. Post(p, UidOf[e]) \notin feed[e]
        <4>1. Post(p, UidOf[e]).postId = p /\ Post(p, UidOf[e]).ownerUid = UidOf[e]
          BY FeedPostFacts
        <4> QED BY <1>8, <2>2, <3>2, <4>1 DEF OwnersAgreeAt
      <3>4. Undone(mainq[e], PostDoc(p))
        <4> SUFFICES ASSUME NEW i \in DOMAIN mainq[e], IsFeed(mainq[e][i]) PROVE mainq[e][i].res[PostDoc(p)] = NoDoc
          BY DEF Undone
        <4>1. mainq[e][i] \in Range(mainq[e])
          BY DEF Range
        <4>2. BlockOwned(f, e, mainq[e][i])
          BY <3>2, <4>1 DEF OwnersAgreeAt
        <4> QED BY <1>8, <2>2, <4>2 DEF BlockOwned, IsFeed
      <3> QED BY <3>1, <3>3, <3>4 DEF OwnListed, GoneHidden, Passing
    <2> QED BY <2>1, <2>2
  <1>12. ASSUME NEW e \in Devices PROVE FeedAt(g, e)'
    <2> SUFFICES ASSUME NEW p \in PostIds, g[p] = UidOf[e] PROVE OwnListed(e, p)' /\ GoneHidden(e, p)'
      BY DEF FeedAt
    <2>1. OwnListed(e, p) /\ GoneHidden(e, p)
      BY <1>11
    <2>2. OwnListed(e, p)'
      BY <1>1, <2>1 DEF OwnListed, Exists, Undropped, RefreshComing, Listed, Lists, NoFeed, IsFeed
    <2>3. GoneHidden(e, p)'
      BY <1>1, <2>1 DEF GoneHidden, Gone, ChainComing, Passing, Undone, Exists, IsFeed
    <2> QED BY <2>2, <2>3
  <1> QED BY <1>5, <1>9, <1>10, <1>12 DEF FeedOK

LEMMA TouchFeed ==
    ASSUME TypesInv, NEW f \in [PostIds -> Contents], FeedOK(f), NEW d \in Devices, Touch(d)
    PROVE  \E g \in [PostIds -> Contents] : FeedOK(g)'
  <1>0. Range(<<>>) = {} /\ \A x : Range(<<x>>) = {x}
    BY RangeOfEmpty, RangeOfOne
  <1>1. OwnersAgreeAt(f, d)
    BY DEF FeedOK
  <1>2. CASE didFinishPickingMedia(d) \/ didTapCancel(d)
    <2>1. UNCHANGED <<docs, queue, gets, mainq, calls, shares, silent, feed>>
      BY <1>2 DEF didFinishPickingMedia, didTapCancel
    <2>2. Moved(d, {}, {}, {}, {}, {})
      BY <2>1 DEF Moved
    <2>3. FeedOK(f)'
      BY <2>1, <2>2, IssuedFeed
    <2> QED BY <2>3
  <1>3. ASSUME didTapDone(d), Remember(TRUE) PROVE \E g \in [PostIds -> Contents] : FeedOK(g)'
    <2>1. hasty' \in BOOLEAN
      BY <1>3, RememberFacts
    <2> QED BY <1>3, <2>1, didTapDoneFeed
  <1>4. ASSUME handleRefresh(d), Remember(TRUE) PROVE FeedOK(f)'
    <2>1. hasty' \in BOOLEAN
      BY <1>4, RememberFacts
    <2>2. Issued(d, <<>>, <<FeedRead>>) /\ feed' = [feed EXCEPT ![d] = {}] /\ UNCHANGED <<calls, silent, shares>>
      BY <1>4, <2>1, handleRefreshTypes
    <2>3. Moved(d, Range(<<>>), {}, Range(<<FeedRead>>), {}, {})
      BY <2>2, IssuedMoved
    <2>4. Moved(d, {}, {}, {FeedRead}, {}, {}) /\ mainq' = mainq /\ FeedRead \in {FeedRead}
      BY <1>0, <2>2, <2>3 DEF Issued
    <2>5. calls' = calls /\ shares' = shares /\ silent' = silent
      BY <2>2
    <2>6. feed' = feed \/ (feed' = [feed EXCEPT ![d] = {}] /\ FeedRead \in {FeedRead})
      BY <2>2
    <2>7. \A w \in {} : WriteOwned(f, d, w)
      OBVIOUS
    <2>8. mainq' = mainq /\ Moved(d, {}, {}, {FeedRead}, {}, {})
      BY <2>4
    <2> QED BY <2>5, <2>6, <2>7, <2>8, IssuedFeed
  <1>5. ASSUME NEW post \in feed[d], deletePost(d, post), Remember(TRUE) PROVE FeedOK(f)'
    <2>1. hasty' \in BOOLEAN
      BY <1>5, RememberFacts
    <2>2. PICK p \in PostIds : \E w \in DropWrites(p) :
              post.postId = p /\ post.ownerUid = UidOf[d] /\ Issued(d, <<w>>, <<LikesRead(p)>>)
      BY <1>5, <2>1, deletePostTypes
    <2>3. PICK w \in DropWrites(p) :
              post.postId = p /\ post.ownerUid = UidOf[d] /\ Issued(d, <<w>>, <<LikesRead(p)>>)
      BY <2>2
    <2>4. UNCHANGED <<calls, feed, silent, shares>>
      BY <1>5, <2>1, deletePostTypes
    <2>5. WriteOwned(f, d, w)
      <3>1. f[p] = UidOf[d]
        BY <1>1, <2>3 DEF OwnersAgreeAt
      <3> QED BY <3>1, WritesOwned
    <2>6. Moved(d, Range(<<w>>), {}, Range(<<LikesRead(p)>>), {}, {})
      BY <2>3, IssuedMoved
    <2>7. Moved(d, {w}, {}, {LikesRead(p)}, {}, {}) /\ mainq' = mainq
      BY <1>0, <2>3, <2>6 DEF Issued
    <2> QED BY <2>4, <2>5, <2>7, IssuedFeed
  <1>6. ASSUME NEW post \in feed[d], didLike(d, post), Remember(Exists(post.postId)) PROVE FeedOK(f)'
    <2>1. hasty' \in BOOLEAN
      <3>1. Exists(post.postId) \in BOOLEAN
        BY DEF Exists
      <3> QED BY <1>6, <3>1, RememberFacts
    <2>2. PICK p \in PostIds : \E c \in CountWrites(p) : \E w \in MarkWrites(p, UidOf[d]) :
              post.postId = p /\ c.data = post.ownerUid /\ Issued(d, <<c, w>>, <<>>)
      BY <1>6, <2>1, didLikeTypes
    <2>3. PICK c \in CountWrites(p) : \E w \in MarkWrites(p, UidOf[d]) :
              post.postId = p /\ c.data = post.ownerUid /\ Issued(d, <<c, w>>, <<>>)
      BY <2>2
    <2>4. PICK w \in MarkWrites(p, UidOf[d]) : post.postId = p /\ c.data = post.ownerUid /\ Issued(d, <<c, w>>, <<>>)
      BY <2>3
    <2>5. UNCHANGED <<calls, feed, silent, shares>>
      BY <1>6, <2>1, didLikeTypes
    <2>6. WriteOwned(f, d, c)
      <3>1. c.data = f[p]
        BY <1>1, <2>4 DEF OwnersAgreeAt
      <3> QED BY <3>1, WritesOwned
    <2>7. WriteOwned(f, d, w)
      <3>1. w \in LikingWrites(p)
        BY NotMarking, FeedPostFacts
      <3> QED BY <3>1, OtherWritesOwned
    <2>8. Range(<<c, w>>) = {c, w}
      BY DEF Range
    <2>9. Moved(d, Range(<<c, w>>), {}, Range(<<>>), {}, {})
      BY <2>4, IssuedMoved
    <2>10. Moved(d, {c, w}, {}, {}, {}, {}) /\ mainq' = mainq
      BY <1>0, <2>4, <2>8, <2>9 DEF Issued
    <2> QED BY <2>5, <2>6, <2>7, <2>10, IssuedFeed
  <1> QED BY <1>2, <1>3, <1>4, <1>5, <1>6 DEF Touch

LEMMA NextFeed ==
    ASSUME ~Failures, OneDevice, TypesInv, FeedInv, [Next]_vars
    PROVE  FeedInv'
  <1>1. PICK f \in [PostIds -> Contents] : FeedOK(f)
    BY DEF FeedInv
  <1>2. CASE UNCHANGED vars
    <2>1. UNCHANGED <<docs, queue, gets, mainq, calls, shares, silent, feed>>
      BY <1>2 DEF vars, appVars
    <2>2. FeedOK(f)'
      <3>1. \A e \in Devices : SameFeed(e)
        BY <2>1 DEF SameFeed
      <3>2. ASSUME NEW e \in Devices PROVE OwnersAgreeAt(f, e)' /\ FeedAt(f, e)'
        <4>1. \A p \in PostIds : f[p] = UidOf[e] => (Exists(p)' <=> Exists(p))
          BY <2>1 DEF Exists
        <4> QED BY <1>1, <3>1, <4>1, FeedElsewhere DEF FeedOK
      <3>3. OwnersAgree(f)'
        BY <1>1, <2>1, OwnersKept DEF FeedOK
      <3> QED BY <3>2, <3>3 DEF FeedOK
    <2> QED BY <2>2 DEF FeedInv
  <1>3. ASSUME NEW d \in Devices, Touch(d) PROVE FeedInv'
    BY <1>1, <1>3, TouchFeed DEF FeedInv
  <1>4. ASSUME NEW d \in Devices, MainQueue(d), hasty' = hasty PROVE FeedInv'
    <2>1. FeedOK(f)'
      BY <1>1, <1>4, BlocksFeed
    <2> QED BY <2>1 DEF FeedInv
  <1>5. ASSUME NEW d \in Devices, Deliver(d), hasty' = hasty PROVE FeedInv'
    <2>1. FeedOK(f)'
      BY <1>1, <1>5, DeliverFeed
    <2> QED BY <2>1 DEF FeedInv
  <1>6. ASSUME NEW d \in Devices, Animate(d), hasty' = hasty PROVE FeedInv'
    <2>1. UNCHANGED <<docs, queue, gets, mainq, calls, shares, silent, feed>>
      BY <1>6 DEF Animate
    <2>2. Moved(d, {}, {}, {}, {}, {})
      BY <2>1 DEF Moved
    <2>3. FeedOK(f)'
      BY <1>1, <2>1, <2>2, IssuedFeed
    <2> QED BY <2>3 DEF FeedInv
  <1>7. ASSUME NEW d \in Devices, NEW i \in DOMAIN calls[d], StorageAnswer(d, i), hasty' = hasty PROVE FeedInv'
    <2>1. FeedOK(f)'
      BY <1>1, <1>7, StorageFeed
    <2> QED BY <2>1 DEF FeedInv
  <1> QED BY <1>2, <1>3, <1>4, <1>5, <1>6, <1>7 DEF Next, Step

LEMMA InitFeed ==
    ASSUME Init
    PROVE  FeedInv
  <1> DEFINE f == [p \in PostIds |-> IF p \in OldPosts THEN OldOwner ELSE NoDoc]
  <1>1. OldOwner \in Contents /\ NoDoc \in Contents
    BY PostsAssumption DEF Contents
  <1>2. f \in [PostIds -> Contents]
    BY <1>1
  <1>3. /\ \A p \in OldPosts : p \in PostIds /\ f[p] = OldOwner
        /\ \A p \in PostIds : p \notin OldPosts => f[p] = NoDoc
    BY FeedPostFacts
  <1> HIDE DEF f
  <1>4. \A d \in Devices : UidOf[d] # NoDoc
    BY PostsAssumption
  <1>5. \A e \in Devices : /\ queue[e] = <<>> /\ gets[e] = <<>> /\ mainq[e] = <<>> /\ calls[e] = <<>>
                           /\ feed[e] = {Post(p, OldOwner) : p \in OldPosts}
    BY DEF Init
  <1>6. \A p \in PostIds : docs[PostDoc(p)] = f[p]
    <2> SUFFICES ASSUME NEW p \in PostIds PROVE docs[PostDoc(p)] = f[p]
      OBVIOUS
    <2>1. PostDoc(p) \in Paths
      BY PathFacts
    <2>2. PostDoc(p) \in {PostDoc(q) : q \in OldPosts} <=> p \in OldPosts
      BY PathsApart
    <2> QED BY <1>3, <2>1, <2>2 DEF Init
  <1>7. OwnersAgree(f)
    <2>1. \A p \in (shares + 1)..MaxShares : p \in NewIds
      <3>1. shares = 0
        BY DEF Init
      <3> QED BY <3>1 DEF NewIds
    <2> QED BY <1>3, <1>6, <2>1, FeedPostFacts DEF OwnersAgree
  <1>8. ASSUME NEW d \in Devices PROVE OwnersAgreeAt(f, d)
    <2>1. \A post \in feed[d] : post.ownerUid = f[post.postId]
      <3>1. \A p, u : Post(p, u).postId = p /\ Post(p, u).ownerUid = u
        BY DEF Post
      <3> QED BY <1>3, <1>5, <3>1
    <2>2. Range(queue[d]) = {} /\ Range(mainq[d]) = {} /\ Range(calls[d]) = {}
      BY <1>5, RangeOfEmpty
    <2> QED BY <2>1, <2>2 DEF OwnersAgreeAt
  <1>9. ASSUME NEW d \in Devices, NEW p \in PostIds, f[p] = UidOf[d]
        PROVE  OwnListed(d, p) /\ GoneHidden(d, p)
    <2>1. p \in OldPosts
      BY <1>3, <1>4, <1>9
    <2>2. Exists(p) /\ Post(p, UidOf[d]) \in feed[d]
      BY <1>3, <1>4, <1>5, <1>6, <1>9, <2>1 DEF Exists
    <2>3. NoFeed(mainq[d])
      BY <1>5 DEF NoFeed
    <2> QED BY <2>2, <2>3 DEF OwnListed, Listed, GoneHidden, Gone
  <1>10. FeedOK(f)
    BY <1>7, <1>8, <1>9 DEF FeedOK, FeedAt
  <1> QED BY <1>2, <1>10 DEF FeedInv

LEMMA FeedCurrentFrom ==
    ASSUME TypesInv, FeedInv
    PROVE  FeedCurrent
  <1>1. PICK f \in [PostIds -> Contents] : FeedOK(f)
    BY DEF FeedInv
  <1>2. ASSUME NEW d \in Devices, Settled(d)
        PROVE  /\ Range(queue[d]) = {} /\ Range(gets[d]) = {} /\ Range(mainq[d]) = {} /\ mainq[d] = <<>>
    BY <1>2, QuietRanges DEF Settled, Quiet
  <1>3. ASSUME NEW d \in Devices, Settled(d), NEW p \in NewIds, docs[PostDoc(p)] = UidOf[d]
        PROVE  Post(p, UidOf[d]) \in feed[d]
    <2>1. p \in PostIds /\ UidOf[d] # NoDoc
      BY FeedPostFacts, PostsAssumption
    <2>2. f[p] = UidOf[d] /\ Exists(p)
      BY <1>1, <1>3, <2>1 DEF FeedOK, OwnersAgree, Exists
    <2>3. OwnListed(d, p)
      BY <1>1, <2>1, <2>2 DEF FeedOK, FeedAt
    <2>4. Undropped(d, p) /\ ~RefreshComing(d) /\ ~Lists(mainq[d], PostDoc(p), UidOf[d])
      <3>1. Range(queue[d]) = {} /\ Range(gets[d]) = {} /\ Range(mainq[d]) = {} /\ mainq[d] = <<>>
        BY <1>2, <1>3
      <3>2. Undropped(d, p)
        BY <3>1 DEF Undropped
      <3>3. ~RefreshComing(d)
        BY <3>1 DEF RefreshComing
      <3>4. ~Lists(mainq[d], PostDoc(p), UidOf[d])
        BY <3>1 DEF Lists
      <3> QED BY <3>2, <3>3, <3>4
    <2> QED BY <2>2, <2>3, <2>4 DEF OwnListed, Listed
  <1>4. ASSUME NEW d \in Devices, Settled(d), NEW post \in feed[d], post.ownerUid = UidOf[d], ~Exists(post.postId)
        PROVE  post.postId \in silent[d]
    <2>1. post \in FeedPosts
      BY DEF TypesInv, StateOK
    <2>2. PICK p \in PostIds : p = post.postId
      BY <2>1, FeedPostFacts
    <2>3. post = Post(p, UidOf[d])
      BY <1>4, <2>1, <2>2 DEF FeedPosts, Post
    <2>4. f[p] = UidOf[d]
      BY <1>1, <1>4, <2>2 DEF FeedOK, OwnersAgreeAt
    <2>5. GoneHidden(d, p)
      BY <1>1, <2>4 DEF FeedOK, FeedAt
    <2>6. ~Passing(d, p)
      BY <1>2, <1>4, <2>3 DEF Passing
    <2>7. ~ChainComing(d, p)
      BY <1>2, <1>4 DEF ChainComing
    <2> QED BY <1>2, <1>4, <2>2, <2>5, <2>6, <2>7 DEF GoneHidden, Gone
  <1>5. OwnPostShown
    BY <1>3 DEF OwnPostShown, NewIds
  <1>6. DeletedHidden
    BY <1>4 DEF DeletedHidden
  <1> QED BY <1>5, <1>6 DEF FeedCurrent

\* When the server and Storage answer every call and no account is signed in twice,
\* the feed of a settled device lists every post shared from it and, unless the
\* deletion found no notification, none deleted from it, however handleRefresh,
\* uploadPost, deletePost and their completion blocks overlapped.
THEOREM FeedsAreCurrent == ASSUME ~Failures, OneDevice PROVE Spec => []FeedCurrent
  <1>1. Init => TypesInv /\ FeedInv
    BY InitTypes, InitFeed
  <1>2. TypesInv /\ FeedInv /\ [Next]_vars => TypesInv' /\ FeedInv'
    BY NextTypes, NextFeed
  <1>3. TypesInv /\ FeedInv => FeedCurrent
    BY FeedCurrentFrom
  <1> QED BY <1>1, <1>2, <1>3, PTL DEF Spec
=============================================================================
