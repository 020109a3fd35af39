------------------------------- MODULE Posts -------------------------------
(***************************************************************************)
(* Sharing and deleting posts, and the feed that lists them:               *)
(* UploadPostController, FeedController and PostService.                   *)
(*                                                                         *)
(* Others like a post while it is deleted; the marks and the notification  *)
(* of a like are modelled, the counter and the heart are in module Likes.  *)
(* The loader covers the view it is shown in, not the navigation bar, so   *)
(* Share can be tapped again, and Cancel, while an upload is in flight.    *)
(* A loader in the upload screen is not dismissed after a share: it goes   *)
(* with the screen, which the blocks of its other uploads may retain.      *)
(***************************************************************************)
EXTENDS Firestore, Loader, FiniteSets

CONSTANTS Users,
          UidOf,       \* device -> the account signed in there
          OldPosts,    \* posts that exist at the start
          OldOwner,    \* their ownerUid
          Sharers,     \* bound: the devices that open the upload screen
          MaxShares,   \* bound: taps on Share
          MaxScreens,  \* bound: times a device opens the upload screen
          MaxDeletes,  \* bound: taps on Delete Post
          MaxLikes,    \* bound: likes
          MaxTaps,     \* bound: taps on Share and likes, together
          MaxReads     \* bound: refreshes by the user

ASSUME PostsAssumption ==
    /\ UidOf \in [Devices -> Users] /\ OldOwner \in Users /\ Sharers \subseteq Devices
    /\ MaxShares \in Nat /\ MaxScreens \in Nat /\ MaxDeletes \in Nat
    /\ MaxLikes \in Nat /\ MaxTaps \in Nat /\ MaxReads \in Nat
    /\ OldPosts \cap (1..MaxShares) = {}
    /\ NoDoc \notin Users
    /\ NoThen \notin [kind : {"shared"}, k : 1..MaxScreens] \cup [kind : {"noteDeleted"}]
    /\ NoThen \notin [kind : {"postDeleted"}, p : OldPosts \cup (1..MaxShares)]
    /\ NoThen \notin [kind : {"markedPost", "liked"},
                     post : [postId : OldPosts \cup (1..MaxShares), ownerUid : Users]]
    /\ NoView \notin {<<"feed">>} \cup {<<"upload", k>> : k \in 1..MaxScreens}
    /\ Failures \in BOOLEAN

VARIABLES calls,    \* device -> unanswered uploads to Storage
          feed,     \* device -> FeedController.posts (their order is left out)
          screens,  \* device -> upload screens opened so far
          open,     \* device -> is the last of them presented?
          hud,      \* device -> the loader
          silent,   \* device -> posts whose deletion found no notification
          shares, deletes, likes, reads,
          hasty     \* was a screen ever touched before all was answered, or a post
                    \* liked that is gone, on a feed not refreshed since?

appVars == <<calls, feed, screens, open, hud, silent, shares, deletes, likes, reads>>
vars == <<docs, queue, gets, mainq, appVars, hasty>>

\* A new post is known by the tap on Share that made it.
PostIds == OldPosts \cup (1..MaxShares)
PostDoc(p)     == <<"posts", p>>
PostLike(p, u) == <<"post-likes", p, u>>
UserLike(u, p) == <<"user-likes", p, u>>
NoteDoc(p, u)  == <<"user-notifications", p, u>>
PostDocs       == {PostDoc(p) : p \in PostIds}
PostLikes(p)   == {PostLike(p, u) : u \in Users}
Notes(p)       == {NoteDoc(p, u) : u \in Users}
Paths == PostDocs \cup UNION {PostLikes(p) \cup Notes(p) \cup {UserLike(u, p) : u \in Users} : p \in PostIds}

\* Of the contents, only the account in it matters: a post's owner, whoever
\* liked it.  The feed holds copies of posts.
Post(p, u) == [postId |-> p, ownerUid |-> u]
Exists(p) == docs[PostDoc(p)] # NoDoc

\* Views a loader is shown in.
FeedView      == <<"feed">>
UploadView(k) == <<"upload", k>>

\* Completion blocks.
Uploaded(p, k)  == [kind |-> "uploaded", p |-> p, k |-> k]
Shared(k)       == [kind |-> "shared", k |-> k]
FetchedPosts    == [kind |-> "fetchedPosts"]
FoundLikes(p)   == [kind |-> "foundLikes", p |-> p]
PostDeleted(p)  == [kind |-> "postDeleted", p |-> p]
FoundFeeds(p)   == [kind |-> "foundFeeds", p |-> p]
FoundNotes(p)   == [kind |-> "foundNotes", p |-> p]
NoteDeleted     == [kind |-> "noteDeleted"]
MarkedPost(post) == [kind |-> "markedPost", post |-> post]
Liked(post)      == [kind |-> "liked", post |-> post]

Settled(d) == Quiet(d) /\ calls[d] = <<>> /\ ~Animating(hud[d])

\* Is a block that retains the k-th upload screen of d still to run?
Held(d, k) ==
    \/ \E i \in DOMAIN calls[d] : calls[d][i].k = k
    \/ \E i \in DOMAIN queue[d] : queue[d][i].then = Shared(k)
    \/ \E i \in DOMAIN mainq[d] : LET b == mainq[d][i].then
                                IN  b.kind \in {"uploaded", "shared"} /\ b.k = k

\* The views that are not freed: an upload screen is once it is closed and no
\* block retains it.
Alive(d) ==
    {FeedView, NoView} \cup
    {UploadView(k) : k \in {j \in 1..MaxScreens : Held(d, j) \/ (open[d] /\ j = screens[d])}}

\* The loader of d is h, unless the step frees the view it is in.
hudBecomes(d, h) == hud' = [hud EXCEPT ![d] = IF h.view \in Alive(d)' THEN h ELSE freed(h)]

\* Storage (external): an upload is answered in any order; when it fails,
\* ImageUploader does not run the completion block.
StorageAnswer(d, i) ==
    /\ calls' = [calls EXCEPT ![d] = RemoveAt(@, i)]
    /\ \/ mainq' = [mainq EXCEPT ![d] = Append(@, [then |-> calls[d][i], res |-> TRUE])]
       \/ Failures /\ UNCHANGED mainq
    /\ UNCHANGED <<docs, queue, gets, feed, screens, open, silent, shares, deletes, likes, reads>>
    /\ hudBecomes(d, hud[d])

-----------------------------------------------------------------------------
\* PostService.fetchPosts.
fetchPosts == <<getDocuments(PostDocs, FetchedPosts)>>

\* FeedController.didTapPlusButton, and a picture is picked.
didFinishPickingMedia(d) ==
    /\ d \in Sharers /\ ~open[d] /\ screens[d] < MaxScreens
    /\ screens' = [screens EXCEPT ![d] = @ + 1]
    /\ open' = [open EXCEPT ![d] = TRUE]
    /\ UNCHANGED <<docs, queue, gets, mainq, calls, feed, hud, silent, shares, deletes, likes, reads>>

didTapCancel(d) ==
    /\ open[d]
    /\ open' = [open EXCEPT ![d] = FALSE]
    /\ UNCHANGED <<docs, queue, gets, mainq, calls, feed, screens, silent, shares, deletes, likes, reads>>
    /\ hudBecomes(d, hud[d])

\* PostService.uploadPost starts with the picture.
didTapDone(d) ==
    /\ open[d] /\ shares < MaxShares /\ shares + likes < MaxTaps
    /\ shares' = shares + 1
    /\ hud' = [hud EXCEPT ![d] = show(@, UploadView(screens[d]))]
    /\ calls' = [calls EXCEPT ![d] = Append(@, Uploaded(shares + 1, screens[d]))]
    /\ UNCHANGED <<docs, queue, gets, mainq, feed, screens, open, silent, deletes, likes, reads>>

\* The picture is there: the post is stored.
uploaded(d) ==
    /\ Due(d, "uploaded")
    /\ Take(d, <<setData(PostDoc(Block(d).p), UidOf[d], Shared(Block(d).k))>>, <<>>)
    /\ UNCHANGED appVars

\* FeedController.handleRefresh, called by a completion block.
refresh(d) ==
    /\ Take(d, <<>>, fetchPosts)
    /\ feed' = [feed EXCEPT ![d] = {}]

\* The post is stored: controllerDidFinishUploadingPost.  The loader is only
\* dismissed when there was an error.
shared(d) ==
    /\ Due(d, "shared")
    /\ IF Result(d)
       THEN /\ refresh(d)
            /\ open' = [open EXCEPT ![d] = @ /\ Block(d).k # screens[d]]
       ELSE Take(d, <<>>, <<>>) /\ UNCHANGED <<feed, open>>
    /\ UNCHANGED <<calls, screens, silent, shares, deletes, likes, reads>>
    /\ hudBecomes(d, IF Result(d) THEN hud[d] ELSE dismiss(hud[d]))

\* The refresh control of the feed.
handleRefresh(d) ==
    /\ ~open[d] /\ reads < MaxReads
    /\ reads' = reads + 1
    /\ feed' = [feed EXCEPT ![d] = {}]
    /\ Issue(d, <<>>, fetchPosts)
    /\ UNCHANGED <<calls, screens, open, hud, silent, shares, deletes, likes>>

fetchedPosts(d) ==
    /\ Due(d, "fetchedPosts")
    /\ feed' = [feed EXCEPT ![d] = {Post(p, Result(d)[PostDoc(p)]) :
                            p \in {q \in PostIds : Result(d)[PostDoc(q)] # NoDoc}}]
    /\ Take(d, <<>>, <<>>)
    /\ UNCHANGED <<calls, screens, open, hud, silent, shares, deletes, likes, reads>>

-----------------------------------------------------------------------------
\* A variant with a bug, for the mutation runs: the marks stay.
deletesPostOnly(d, p) == Issue(d, <<delete(PostDoc(p), PostDeleted(p))>>, <<>>)

\* PostService.deletePost.
deletePostCalls(d, p) ==
    Issue(d, <<delete(PostDoc(p), PostDeleted(p))>>,
             <<getDocuments(PostLikes(p), FoundLikes(p))>>)

\* FeedController.deletePost, chosen in the options menu of one's own post.
deletePost(d, post) ==
    /\ ~open[d] /\ ~Blocks(hud[d], FeedView) /\ deletes < MaxDeletes
    /\ post.ownerUid = UidOf[d]
    /\ deletes' = deletes + 1
    /\ hud' = [hud EXCEPT ![d] = show(@, FeedView)]
    /\ deletePostCalls(d, post.postId)
    /\ UNCHANGED <<calls, feed, screens, open, silent, shares, likes, reads>>

\* The marks of the post are known: the ones under users are deleted.
foundLikes(d) ==
    LET p == Block(d).p
        U == {u \in Users : Result(d)[PostLike(p, u)] # NoDoc}
    IN  /\ Due(d, "foundLikes")
        /\ Take(d, IF U = {} THEN <<>> ELSE <<deleteAll({UserLike(u, p) : u \in U}, NoThen)>>, <<>>)
        /\ UNCHANGED appVars

\* The post is deleted: the followers' feeds are looked up, in a collection
\* with a misspelt name that has no documents.
postDeleted(d) ==
    /\ Due(d, "postDeleted")
    /\ Take(d, <<>>, <<getDocuments({}, FoundFeeds(Block(d).p))>>)
    /\ UNCHANGED appVars

\* No follower was found: the notifications about the post are looked up.
foundFeeds(d) ==
    /\ Due(d, "foundFeeds")
    /\ Take(d, <<>>, <<getDocuments(Notes(Block(d).p), FoundNotes(Block(d).p))>>)
    /\ UNCHANGED appVars

\* Each notification is deleted; the completion of deletePost runs for each of
\* them, hence not at all if there is none.
foundNotes(d) ==
    LET p == Block(d).p
        N == {x \in Notes(p) : Result(d)[x] # NoDoc}
    IN  /\ Due(d, "foundNotes")
        /\ Take(d, IF N = {} THEN <<>> ELSE <<deleteAll(N, NoteDeleted)>>, <<>>)
        /\ silent' = IF N = {} THEN [silent EXCEPT ![d] = @ \cup {p}] ELSE silent
        /\ UNCHANGED <<calls, feed, screens, open, hud, shares, deletes, likes, reads>>

\* Variants with a bug, for the mutation runs: the feed is not refreshed; the
\* loader is not dismissed.
dismissesOnly(d) ==
    /\ Due(d, "noteDeleted")
    /\ hud' = [hud EXCEPT ![d] = dismiss(@)]
    /\ Take(d, <<>>, <<>>)
    /\ UNCHANGED <<calls, feed, screens, open, silent, shares, deletes, likes, reads>>

refreshesOnly(d) ==
    /\ Due(d, "noteDeleted")
    /\ refresh(d)
    /\ UNCHANGED <<calls, screens, open, hud, silent, shares, deletes, likes, reads>>

\* The completion in FeedController.deletePost.
noteDeleted(d) ==
    /\ Due(d, "noteDeleted")
    /\ hud' = [hud EXCEPT ![d] = dismiss(@)]
    /\ refresh(d)
    /\ UNCHANGED <<calls, screens, open, silent, shares, deletes, likes, reads>>

-----------------------------------------------------------------------------
\* A variant with a bug, for the mutation runs: the post is written anew.
storesPost(d, post) ==
    <<setData(PostDoc(post.postId), post.ownerUid, NoThen),
      setData(PostLike(post.postId, UidOf[d]), UidOf[d], MarkedPost(post))>>

\* PostService.likePost: the counter is an update of the post.
likePost(d, post) ==
    <<updateData(PostDoc(post.postId), post.ownerUid),
      setData(PostLike(post.postId, UidOf[d]), UidOf[d], MarkedPost(post))>>

\* FeedController.cell(_:didLike:) for a post not liked yet.
didLike(d, post) ==
    /\ ~open[d] /\ ~Blocks(hud[d], FeedView)
    /\ likes < MaxLikes /\ shares + likes < MaxTaps
    /\ View(d, UserLike(UidOf[d], post.postId)) = NoDoc
    /\ likes' = likes + 1
    /\ Issue(d, likePost(d, post), <<>>)
    /\ UNCHANGED <<calls, feed, screens, open, hud, silent, shares, deletes, reads>>

markedPost(d) ==
    LET post == Block(d).post
    IN  /\ Due(d, "markedPost")
        /\ Take(d, <<setData(UserLike(UidOf[d], post.postId), UidOf[d], Liked(post))>>, <<>>)
        /\ UNCHANGED appVars

\* NotificationService.uploadNotification: nobody notifies himself.
uploadNotification(d, post) ==
    IF post.ownerUid = UidOf[d] THEN <<>>
    ELSE <<setData(NoteDoc(post.postId, UidOf[d]), UidOf[d], NoThen)>>

liked(d) ==
    /\ Due(d, "liked")
    /\ Take(d, uploadNotification(d, Block(d).post), <<>>)
    /\ UNCHANGED appVars

MainQueue(d) ==
    \/ uploaded(d) \/ shared(d) \/ fetchedPosts(d)
    \/ foundLikes(d) \/ postDeleted(d) \/ foundFeeds(d) \/ foundNotes(d) \/ noteDeleted(d)
    \/ markedPost(d) \/ liked(d)

Animate(d) ==
    /\ Animating(hud[d])
    /\ hud' = [hud EXCEPT ![d] = IF @.view \in Alive(d) THEN animated(@) ELSE Hidden]
    /\ UNCHANGED <<docs, queue, gets, mainq, calls, feed, screens, open, silent, shares, deletes, likes, reads>>

Deliver(d) == Network(d) /\ UNCHANGED appVars

-----------------------------------------------------------------------------
\* The feeds have been loaded.
Init ==
    /\ docs  = [x \in Paths |-> IF x \in {PostDoc(p) : p \in OldPosts} THEN OldOwner ELSE NoDoc]
    /\ queue = [d \in Devices |-> <<>>]
    /\ gets  = [d \in Devices |-> <<>>]
    /\ mainq = [d \in Devices |-> <<>>]
    /\ calls = [d \in Devices |-> <<>>]
    /\ feed  = [d \in Devices |-> {Post(p, OldOwner) : p \in OldPosts}]
    /\ screens = [d \in Devices |-> 0]
    /\ open  = [d \in Devices |-> FALSE]
    /\ hud   = [d \in Devices |-> Hidden]
    /\ silent = [d \in Devices |-> {}]
    /\ shares = 0 /\ deletes = 0 /\ likes = 0 /\ reads = 0
    /\ hasty = FALSE

\* A touch, and whether it is one of a user who waits.
Remember(waited) == hasty' = (hasty \/ ~waited \/ \E e \in Devices : ~Settled(e))

Touch(d) ==
    \/ /\ didFinishPickingMedia(d) \/ didTapCancel(d) \/ didTapDone(d) \/ handleRefresh(d)
       /\ Remember(TRUE)
    \/ \E post \in feed[d] : deletePost(d, post) /\ Remember(TRUE)
    \/ \E post \in feed[d] : didLike(d, post) /\ Remember(Exists(post.postId))

Step(d) ==
    \/ Deliver(d) \/ MainQueue(d) \/ Animate(d)
    \/ \E i \in DOMAIN calls[d] : StorageAnswer(d, i)

Next == \E d \in Devices : Touch(d) \/ (Step(d) /\ UNCHANGED hasty)

Spec == Init /\ [][Next]_vars

-----------------------------------------------------------------------------
\* Typing of the variables.
PostsTypeOK ==
    /\ docs \in [Paths -> Users \cup {NoDoc}]
    /\ \A d \in Devices :
          /\ feed[d] \subseteq [postId : PostIds, ownerUid : Users]
          /\ screens[d] \in 0..MaxScreens
          /\ open[d] => screens[d] > 0
          /\ hud[d] \in Huds({FeedView} \cup {UploadView(k) : k \in 1..MaxScreens})
          /\ silent[d] \subseteq PostIds
    /\ hasty \in BOOLEAN

\* A deleted post does not come back, although likes of it may be in flight:
\* likePost updates the document and never stores it.
NoResurrection == [][\A p \in OldPosts : ~Exists(p) => ~Exists(p)']_vars

\* When nothing of a device is in flight, the feed lists every post that was
\* shared from it, however its refreshes and uploads overlapped.
OwnPostShown ==
    \A d \in Devices : Settled(d) =>
        \A p \in 1..MaxShares : docs[PostDoc(p)] = UidOf[d] => Post(p, UidOf[d]) \in feed[d]

\* A post deleted from a device leaves its feed, unless the deletion found no
\* notification about it: then the completion never runs.
DeletedHidden ==
    \A d \in Devices : Settled(d) =>
        \A post \in feed[d] :
            post.ownerUid = UidOf[d] /\ ~Exists(post.postId) => post.postId \in silent[d]

\* The feed of a device is up to date with what was shared and deleted there.
FeedCurrent == OwnPostShown /\ DeletedHidden

\* Is a block of one of these kinds still to run on d?
Expected(d, kinds) ==
    \/ \E i \in DOMAIN calls[d] : calls[d][i].kind \in kinds
    \/ \E i \in DOMAIN queue[d] : queue[d][i].then # NoThen /\ queue[d][i].then.kind \in kinds
    \/ \E i \in DOMAIN gets[d] : gets[d][i].then.kind \in kinds
    \/ \E i \in DOMAIN mainq[d] : mainq[d][i].then.kind \in kinds

\* A loader that stays on the feed has a call that will dismiss it (the
\* exception is, again, a deletion that found no notification), and one that
\* stays in an upload screen has an upload from that very screen, after which
\* the screen is freed or the loader dismissed; also after earlier shares.
PostLoaderHasOwner ==
    \A d \in Devices : Stays(hud[d]) /\ (Animating(hud[d]) => hud[d].view \in Alive(d)) =>
        /\ hud[d].view = FeedView => silent[d] # {} \/
              Expected(d, {"postDeleted", "foundFeeds", "foundNotes", "noteDeleted"})
        /\ \A k \in 1..MaxScreens : hud[d].view = UploadView(k) => Held(d, k)

\* The variables keep their types and no loader is left without an owner.
PostsInv == PostsTypeOK /\ PostLoaderHasOwner

\* Users who wait for every device to settle leave nothing of a deleted post
\* behind under users and notifications.  (A like that is in flight when its
\* post is deleted does, and one from a feed that still lists the post.)
DeletionCleansUp ==
    ~hasty /\ (\A d \in Devices : Settled(d)) =>
        \A p \in OldPosts : ~Exists(p) =>
            \A u \in Users : docs[UserLike(u, p)] = NoDoc /\ docs[NoteDoc(p, u)] = NoDoc
=============================================================================
