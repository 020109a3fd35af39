-------------------------------- MODULE Likes --------------------------------
(***************************************************************************)
(* Liking and unliking posts: the feed screens (FeedController, FeedCell), *)
(* the like half of PostService and of NotificationService, over the       *)
(* Firestore SDK of module Firestore.                                      *)
(*                                                                         *)
(* A like is three writes on the server: the counter posts/p.likes, the    *)
(* mark posts/p/post-likes/u and, chained on the answer to that one, the   *)
(* mark users/u/user-likes/p.  The screens hold copies of the posts (with  *)
(* the counter and didLike), and every visible cell a copy of such a copy. *)
(***************************************************************************)
EXTENDS Firestore, FiniteSets, CellReuse

CONSTANTS Users, Posts,
          OwnerOf,       \* post -> the account that uploaded it
          UidOf,         \* device -> the account signed in on it
          Home,          \* names the home feed of a device
          Details,       \* <<d, p>>: device d may open post p on a screen of its own
          Cells,         \* the reusable FeedCell objects of one screen
          NoPost,        \* a cell that has no view model yet
          Marked,        \* contents of a document whose existence is all that matters
          InitialLikes,  \* the possible sets of <<p, u>>: u likes p, at the start
          MaxOps,        \* bound: taps on the heart
          MaxReads,      \* bound: unanswered reads of a device when it refreshes
          MaxCrashes     \* bound: times an app is killed

Screens == (Devices \X {Home}) \cup Details
DeviceOf(s) == s[1]
UidAt(s) == UidOf[DeviceOf(s)]

ASSUME LikesAssumption ==
    /\ IsFiniteSet(Users)
    /\ OwnerOf \in [Posts -> Users]
    /\ UidOf \in [Devices -> Users]
    /\ Details \subseteq Devices \X Posts
    /\ Home \notin Posts /\ NoPost \notin Posts
    /\ Marked # NoDoc /\ NoDoc \notin Int
    /\ NoThen \notin [kind : {"firstMarkDone", "secondMarkDone"},
                      op : [s : Screens, c : Cells, p : Posts, likes : Nat, like : BOOLEAN, n : Nat]]
    /\ InitialLikes \subseteq SUBSET (Posts \X Users)
    /\ MaxOps \in Nat /\ MaxReads \in Nat /\ MaxCrashes \in Nat
    /\ Failures \in BOOLEAN

VARIABLES posts,   \* screen -> the posts it lists, each with its likes and didLike
          cell,    \* screen -> cell -> its view model, and whether it is on screen
          ops,     \* taps so far; also the source of fresh document ids
          crashes,
          hasty    \* was a device touched while something of it was in flight?

vars == <<docs, queue, gets, mainq, posts, cell, ops, crashes, hasty>>

-----------------------------------------------------------------------------
\* Document paths.  A like notification is named by all its contents (owner,
\* sender, post) and by the tap that produced it: tap 0 is before the start.
PostDoc(p)     == <<"posts", p>>
PostLike(p, u) == <<"post-likes", p, u>>
UserLike(u, p) == <<"user-likes", u, p>>
LikeNotification(u, p, n) == <<"user-notifications", OwnerOf[p], u, p, n>>

PostDocs   == {PostDoc(p) : p \in Posts}
PostLikes  == {PostLike(x[1], x[2]) : x \in Posts \X Users}
UserLikes  == {UserLike(x[1], x[2]) : x \in Users \X Posts}
LikeNotifications(u, p) == {LikeNotification(u, p, n) : n \in 0..MaxOps}
Documents  == PostDocs \cup PostLikes \cup UserLikes
              \cup UNION {LikeNotifications(x[1], x[2]) : x \in Users \X Posts}

\* A copy of a post: Post(postId:dictionary:) sets didLike to false.
Post(likes) == [likes |-> likes, didLike |-> FALSE]

\* No post listed; a cell object that was never bound.
NoPosts == [p \in {} |-> Post(0)]
Blank   == [p |-> NoPost, likes |-> 0, didLike |-> FALSE, shown |-> FALSE]

-----------------------------------------------------------------------------
\* The view model that cellForItemAt gives a cell.
ViewModel(ps, p) ==
    [p |-> p, likes |-> ps[p].likes, didLike |-> ps[p].didLike, shown |-> TRUE]

reloadData(s, ps) ==
    \E f \in Layouts(Cells, DOMAIN ps, NoPost) :
        cell' = [cell EXCEPT ![s] = [c \in Cells |->
                   IF f[c] = NoPost THEN [cell[s][c] EXCEPT !.shown = FALSE]
                   ELSE ViewModel(ps, f[c])]]

\* posts = ps, whose didSet reloads.
setPosts(s, ps) == posts' = [posts EXCEPT ![s] = ps] /\ reloadData(s, ps)

\* Scrolling: a cell leaves the screen and is bound to a post that enters it.
cellForItemAt(s, c, p) ==
    /\ \A b \in Cells : ~(cell[s][b].shown /\ cell[s][b].p = p)
    /\ cell' = [cell EXCEPT ![s][c] = ViewModel(posts[s], p)]
    /\ UNCHANGED <<docs, queue, gets, mainq, posts, ops, crashes>>

-----------------------------------------------------------------------------
\* Completion blocks, with what each captures.
FetchedPosts(s)  == [kind |-> "fetchedPosts", s |-> s]
FetchedPost(s)   == [kind |-> "fetchedPost", s |-> s]
CheckedLike(s)   == [kind |-> "checkedLike", s |-> s]
FoundNotifications(u, p) == [kind |-> "foundNotifications", u |-> u, p |-> p]
FirstMarkDone(op)  == [kind |-> "firstMarkDone", op |-> op]
SecondMarkDone(op) == [kind |-> "secondMarkDone", op |-> op]

\* FeedController.fetchPosts on the home feed.
fetchPosts(s) == getDocuments(PostDocs, FetchedPosts(s))

\* Variants with a bug, for the mutation runs: the call is left out; the
\* two marks are written at once; nothing follows the first mark of an unlike;
\* the test of the counter is left out.
neverChecks(s, ps) == <<>>
likesUnchained(op) ==
    <<updateData(PostDoc(op.p), op.likes + 1),
      setData(PostLike(op.p, UidAt(op.s)), Marked, NoThen),
      setData(UserLike(UidAt(op.s), op.p), Marked, SecondMarkDone(op))>>
unlikesOnce(op) ==
    IF op.likes > 0
    THEN <<updateData(PostDoc(op.p), op.likes - 1),
           delete(PostLike(op.p, UidAt(op.s)), NoThen)>>
    ELSE <<>>
unlikesUnguarded(op) ==
    <<updateData(PostDoc(op.p), op.likes - 1),
      delete(PostLike(op.p, UidAt(op.s)), FirstMarkDone(op))>>

\* PostService.checkIfUserLikedPost, for each of the posts ps.
checkIfUserLikedPosts(s, ps) ==
    getEach({UserLike(UidAt(s), p) : p \in ps}, CheckedLike(s))

\* PostService.likePost and unlikePost with the post's copy that op captured.
likePost(op) ==
    <<updateData(PostDoc(op.p), op.likes + 1),
      setData(PostLike(op.p, UidAt(op.s)), Marked, FirstMarkDone(op))>>

unlikePost(op) ==
    IF op.likes > 0
    THEN <<updateData(PostDoc(op.p), op.likes - 1),
           delete(PostLike(op.p, UidAt(op.s)), FirstMarkDone(op))>>
    ELSE <<>>

\* The write chained on the answer to the first mark.
secondMark(op) ==
    IF op.like
    THEN <<setData(UserLike(UidAt(op.s), op.p), Marked, SecondMarkDone(op))>>
    ELSE <<delete(UserLike(UidAt(op.s), op.p), SecondMarkDone(op))>>

\* NotificationService.uploadNotification, type .like.
uploadNotification(op) ==
    IF OwnerOf[op.p] # UidAt(op.s)
    THEN <<setData(LikeNotification(UidAt(op.s), op.p, op.n), Marked, NoThen)>>
    ELSE <<>>

\* A variant with a bug: the notification is left where it is.
leavesNotification(owner, u, p) == <<>>

\* NotificationService.deleteNotification, type .like: toUid was captured at
\* the tap (owner), postId is read from the cell now (p).  The query returns
\* all that uid ever sent to owner; those for p are deleted.
deleteNotification(owner, u, p) ==
    <<getDocuments(IF OwnerOf[p] = owner THEN LikeNotifications(u, p) ELSE {},
                   FoundNotifications(u, p))>>

-----------------------------------------------------------------------------
\* The heart of a visible cell is tapped: FeedCell.didTapLike calls
\* FeedController.cell(_:didLike:).  didLike is toggled at once, the counter
\* of the cell only when both marks are answered.
didTapLike(s, c) ==
    LET m  == cell[s][c]
        op == [s |-> s, c |-> c, p |-> m.p, likes |-> m.likes,
               like |-> ~m.didLike, n |-> ops + 1]
    IN  /\ m.shown
        /\ ops < MaxOps
        /\ cell' = [cell EXCEPT ![s][c].didLike = ~@]
        /\ Issue(DeviceOf(s), IF m.didLike THEN unlikePost(op) ELSE likePost(op), <<>>)
        /\ ops' = ops + 1
        /\ UNCHANGED <<posts, crashes>>

\* Pull to refresh on the home feed; the control spins, and cannot be pulled
\* again, until the posts have arrived.
handleRefresh(s) ==
    /\ s[2] = Home
    /\ Len(gets[DeviceOf(s)]) < MaxReads
    /\ ~Awaited(DeviceOf(s), FetchedPosts(s))
    /\ setPosts(s, NoPosts)
    /\ Issue(DeviceOf(s), <<>>, <<fetchPosts(s)>>)
    /\ UNCHANGED <<ops, crashes>>

\* NotificationsController: the thumbnail of a post is tapped; the post is
\* fetched and then shown on a FeedController of its own.
wantsToViewPost(s) ==
    /\ s[2] # Home /\ DOMAIN posts[s] = {}
    /\ ~Awaited(DeviceOf(s), FetchedPost(s))
    /\ Len(gets[DeviceOf(s)]) < MaxReads
    /\ Issue(DeviceOf(s), <<>>, <<getDocument(PostDoc(s[2]), FetchedPost(s))>>)
    /\ UNCHANGED <<posts, cell, ops, crashes>>

-----------------------------------------------------------------------------
\* FeedController.fetchPosts: new copies, then the likes are checked.
fetchedPosts(d) ==
    /\ Due(d, "fetchedPosts")
    /\ LET s    == Block(d).s
           here == {p \in Posts : Result(d)[PostDoc(p)] # NoDoc}
       IN /\ setPosts(s, [p \in here |-> Post(Result(d)[PostDoc(p)])])
          /\ Take(d, <<>>, checkIfUserLikedPosts(s, here))
    /\ UNCHANGED <<ops, crashes>>

\* PostService.fetchPost, then viewDidLoad of the screen with that one post.
fetchedPost(d) ==
    /\ Due(d, "fetchedPost")
    /\ LET s == Block(d).s
           v == Result(d)[PostDoc(s[2])]
       IN IF v = NoDoc
          THEN Take(d, <<>>, <<>>) /\ UNCHANGED <<posts, cell>>
          ELSE /\ setPosts(s, [p \in {s[2]} |-> Post(v)])
               /\ Take(d, <<>>, checkIfUserLikedPosts(s, {s[2]}))
    /\ UNCHANGED <<ops, crashes>>

\* FeedController.checkIfUserLikedPosts: the copy of the post, if it is still
\* listed, gets the answer, and all cells are bound to the copies again.
checkedLike(d) ==
    /\ Due(d, "checkedLike")
    /\ LET s == Block(d).s
       IN \E p \in Posts :
            LET path == UserLike(UidAt(s), p)
            IN /\ path \in DOMAIN Result(d)
               /\ IF p \in DOMAIN posts[s]
                  THEN setPosts(s, [posts[s] EXCEPT ![p].didLike = (Result(d)[path] # NoDoc)])
                  ELSE UNCHANGED <<posts, cell>>
    /\ Take(d, <<>>, <<>>)
    /\ UNCHANGED <<ops, crashes>>

\* The first mark is answered, the error ignored: the second one is written.
firstMarkDone(d) ==
    /\ Due(d, "firstMarkDone")
    /\ Take(d, secondMark(Block(d).op), <<>>)
    /\ UNCHANGED <<posts, cell, ops, crashes>>

\* The second mark is answered: the cell that was tapped, whatever it shows by
\* now, gets the counter, and the owner of the post is notified or no longer is.
secondMarkDone(d) ==
    /\ Due(d, "secondMarkDone")
    /\ LET op == Block(d).op
       IN IF op.like
          THEN /\ cell' = [cell EXCEPT ![op.s][op.c].likes = op.likes + 1]
               /\ Take(d, uploadNotification(op), <<>>)
          ELSE /\ cell' = [cell EXCEPT ![op.s][op.c].likes = op.likes - 1]
               /\ Take(d, <<>>, deleteNotification(OwnerOf[op.p], UidAt(op.s), cell[op.s][op.c].p))
    /\ UNCHANGED <<posts, ops, crashes>>

\* NotificationService.deleteNotification: what the query found is deleted.
foundNotifications(d) ==
    /\ Due(d, "foundNotifications")
    /\ LET found == {x \in DOMAIN Result(d) : Result(d)[x] # NoDoc}
       IN Take(d, IF found = {} THEN <<>> ELSE <<deleteAll(found, NoThen)>>, <<>>)
    /\ UNCHANGED <<posts, cell, ops, crashes>>

MainQueue(d) ==
    /\ \/ fetchedPosts(d) \/ fetchedPost(d) \/ checkedLike(d)
       \/ firstMarkDone(d) \/ secondMarkDone(d) \/ foundNotifications(d)
    /\ UNCHANGED hasty

-----------------------------------------------------------------------------
\* The app on d is killed and started again: the home feed loads anew.
Crash(d) ==
    /\ crashes < MaxCrashes
    /\ crashes' = crashes + 1
    /\ posts' = [s \in Screens |-> IF DeviceOf(s) = d THEN NoPosts ELSE posts[s]]
    /\ cell' = [s \in Screens |-> IF DeviceOf(s) = d THEN [c \in Cells |-> Blank] ELSE cell[s]]
    /\ Restart(d, <<fetchPosts(<<d, Home>>)>>)
    /\ UNCHANGED <<ops, hasty>>

\* The network acts for d; no code of the application runs.
Deliver(d) == Network(d) /\ UNCHANGED <<posts, cell, ops, crashes, hasty>>

\* The marks and the counters agree at the start, everyone has been notified,
\* and every device has just asked for the posts.
Init ==
    /\ \E liked \in InitialLikes :
         docs = [x \in Documents |->
            CASE x[1] = "posts"      -> Cardinality({u \in Users : <<x[2], u>> \in liked})
              [] x[1] = "post-likes" -> IF <<x[2], x[3]>> \in liked THEN Marked ELSE NoDoc
              [] x[1] = "user-likes" -> IF <<x[3], x[2]>> \in liked THEN Marked ELSE NoDoc
              [] x[1] = "user-notifications" ->
                   IF <<x[4], x[3]>> \in liked /\ x[2] # x[3] /\ x[5] = 0 THEN Marked ELSE NoDoc]
    /\ queue = [d \in Devices |-> <<>>]
    /\ gets  = [d \in Devices |-> <<fetchPosts(<<d, Home>>)>>]
    /\ mainq = [d \in Devices |-> <<>>]
    /\ posts = [s \in Screens |-> NoPosts]
    /\ cell  = [s \in Screens |-> [c \in Cells |-> Blank]]
    /\ ops = 0
    /\ crashes = 0
    /\ hasty = FALSE

Touch(s) ==
    /\ hasty' = (hasty \/ ~Quiet(DeviceOf(s)))
    /\ \/ handleRefresh(s)
       \/ wantsToViewPost(s)
       \/ \E c \in Cells :
             \/ didTapLike(s, c)
             \/ \E p \in DOMAIN posts[s] : cellForItemAt(s, c, p)

Next ==
    \/ \E s \in Screens : Touch(s)
    \/ \E d \in Devices : Deliver(d) \/ MainQueue(d) \/ Crash(d)

Spec == Init /\ [][Next]_vars

(***************************************************************************)
(* Fairness.  The SDK keeps sending the oldest write and keeps asking for  *)
(* the oldest read until they are answered, and a main queue that has a    *)
(* completion block runs it.  Nothing is assumed of the user.              *)
(***************************************************************************)
OldestRead(d) ==
    /\ gets[d] # <<>>
    /\ Resolve(d, 1)
    /\ UNCHANGED <<posts, cell, ops, crashes, hasty>>

Fairness ==
    \A d \in Devices :
        /\ WF_vars(Commit(d) /\ UNCHANGED <<posts, cell, ops, crashes, hasty>>)
        /\ WF_vars(OldestRead(d))
        /\ WF_vars(MainQueue(d))

FairSpec == Spec /\ Fairness

-----------------------------------------------------------------------------
\* Typing of the variables.  A counter is an integer here: that it is never
\* negative is LikesNonNegative.
TypeOK ==
    /\ DOMAIN docs = Documents
    /\ \A p \in Posts : docs[PostDoc(p)] \in Int \cup {NoDoc}
    /\ \A x \in Documents \ PostDocs : docs[x] \in {Marked, NoDoc}
    /\ DOMAIN queue = Devices /\ DOMAIN gets = Devices /\ DOMAIN mainq = Devices
    /\ DOMAIN posts = Screens
    /\ \A s \in Screens :
         /\ DOMAIN posts[s] \subseteq Posts
         /\ \A p \in DOMAIN posts[s] : posts[s][p] \in [likes : Int, didLike : BOOLEAN]
    /\ cell \in [Screens -> [Cells ->
          [p : Posts \cup {NoPost}, likes : Int, didLike : BOOLEAN, shown : BOOLEAN]]]
    /\ ops \in 0..MaxOps
    /\ crashes \in 0..MaxCrashes

\* Does u like p, by the list of the post and by the list of the user?
Liked(p, u)  == docs[PostLike(p, u)] # NoDoc
Listed(u, p) == docs[UserLike(u, p)] # NoDoc

\* The counter of a stored post never falls below zero: unlikePost tests the
\* copy it was given (post.likes > 0), which may be older than the document.
LikesNonNegative ==
    \A p \in Posts : docs[PostDoc(p)] # NoDoc => docs[PostDoc(p)] >= 0

\* However stale the copies are from which likePost computes likes + 1, the
\* counter never exceeds the accounts that can like plus the taps made.
LikesBounded ==
    \A p \in Posts : docs[PostDoc(p)] # NoDoc => docs[PostDoc(p)] <= Cardinality(Users) + ops

\* Once nothing is in flight, the owner is not told of a like that is gone:
\* deleteNotification finds what uploadNotification still has in the queue.
\* Claimed where cells are not reused, as the completion block of an unlike asks
\* the cell for its post, which then may be another one, and where no app was
\* killed, which loses that block.
NoPhantomNotification ==
    Quiescent /\ crashes = 0 => \A p \in Posts, u \in Users :
        (\E x \in LikeNotifications(u, p) : docs[x] # NoDoc) => Liked(p, u)

\* The counter is the number of accounts in post-likes, once nothing is in
\* flight.  likePost writes a sum computed from a copy of the counter, so
\* this is claimed only for one device, not killed, whose user has so far let
\* every touch settle.
LikesExact ==
    Quiescent /\ ~hasty /\ crashes = 0 => \A p \in Posts :
        docs[PostDoc(p)] = Cardinality({u \in Users : Liked(p, u)})

\* When the taps stop, post-likes and user-likes come to tell the same story
\* and stay so, whatever the taps that overlapped (PostService.likePost and
\* unlikePost chain the second mark on the answer to the first), unless an app
\* was killed.
EventuallyAgree ==
    <>[](crashes > 0 \/ \A p \in Posts, u \in Users : Liked(p, u) <=> Listed(u, p))

-----------------------------------------------------------------------------
(***************************************************************************)
(* The inductive invariant behind TypeOK, LikesNonNegative and             *)
(* LikesBounded: every copy of a counter, on the server, on a screen, in a *)
(* queued write, in an answer or captured by a tap, is in Counts.          *)
(***************************************************************************)
Counts == 0..(Cardinality(Users) + ops)
Marks  == Documents \ PostDocs
ScreensOf(d) == {s \in Screens : DeviceOf(s) = d}

\* A tap captured a counter that the taps before it can explain, an unlike
\* that got past the guard captured one above zero, and the captured cell has
\* been bound to one post or another ever since.
OpsOf(d) ==
    {op \in [s : ScreensOf(d), c : Cells, p : Posts, likes : Nat, like : BOOLEAN, n : 1..ops] :
        /\ op.likes < Cardinality(Users) + op.n
        /\ op.like \/ op.likes > 0
        /\ cell[op.s][op.c].p \in Posts}

MarkBlocks(d) == [kind : {"firstMarkDone", "secondMarkDone"}, op : OpsOf(d)]

WritesOf(d) ==
    [paths : SUBSET PostDocs, data : Counts, upd : {TRUE}, then : {NoThen}]
    \cup [paths : SUBSET Marks, data : {Marked, NoDoc}, upd : {FALSE},
          then : MarkBlocks(d) \cup {NoThen}]

ListBlocks(d)   == [kind : {"fetchedPosts"}, s : {<<d, Home>>}]
DetailBlocks(d) == [kind : {"fetchedPost"}, s : {s \in Details : DeviceOf(s) = d}]
CheckBlocks(d)  == [kind : {"checkedLike"}, s : ScreensOf(d)]
FindBlocks      == [kind : {"foundNotifications"}, u : Users, p : Posts]

ReadsOf(d) ==
    [paths : {PostDocs}, each : {FALSE}, then : ListBlocks(d)]
    \cup {r \in [paths : SUBSET PostDocs, each : {FALSE}, then : DetailBlocks(d)] :
             r.paths = {PostDoc(r.then.s[2])}}
    \cup [paths : SUBSET UserLikes, each : {TRUE}, then : CheckBlocks(d)]
    \cup {r \in [paths : SUBSET Marks, each : {FALSE}, then : FindBlocks] :
             r.paths \in {{}, LikeNotifications(r.then.u, r.then.p)}}

\* The same calls when they are answered: a completion block and its argument.
MarkAnswers(d) == [then : MarkBlocks(d), res : BOOLEAN]
ListAnswers(d) == [then : ListBlocks(d), res : [PostDocs -> Counts \cup {NoDoc}]]
DetailAnswers(d) ==
    {b \in [then : DetailBlocks(d),
            res : UNION {[{x} -> Counts \cup {NoDoc}] : x \in PostDocs}] :
        DOMAIN b.res = {PostDoc(b.then.s[2])}}
CheckAnswers(d) ==
    [then : CheckBlocks(d), res : UNION {[{x} -> {Marked, NoDoc}] : x \in UserLikes}]
FindAnswers ==
    {b \in [then : FindBlocks,
            res : UNION {[X -> {Marked, NoDoc}] :
                    X \in {{}} \cup {LikeNotifications(y[1], y[2]) : y \in Users \X Posts}}] :
        DOMAIN b.res \in {{}, LikeNotifications(b.then.u, b.then.p)}}

BlocksOf(d) ==
    MarkAnswers(d) \cup ListAnswers(d) \cup DetailAnswers(d) \cup CheckAnswers(d) \cup FindAnswers

ServerOK ==
    /\ DOMAIN docs = Documents
    /\ \A x \in PostDocs : docs[x] \in Counts \cup {NoDoc}
    /\ \A x \in Marks : docs[x] \in {Marked, NoDoc}

QueuesOK ==
    /\ DOMAIN queue = Devices /\ DOMAIN gets = Devices /\ DOMAIN mainq = Devices
    /\ \A d \in Devices :
         /\ queue[d] \in Seq(WritesOf(d))
         /\ gets[d] \in Seq(ReadsOf(d))
         /\ mainq[d] \in Seq(BlocksOf(d))

ScreensOK ==
    /\ DOMAIN posts = Screens
    /\ \A s \in Screens :
         /\ DOMAIN posts[s] \subseteq Posts
         /\ posts[s] \in [DOMAIN posts[s] -> [likes : Counts, didLike : BOOLEAN]]
    /\ cell \in [Screens -> [Cells ->
          [p : Posts \cup {NoPost}, likes : Counts, didLike : BOOLEAN, shown : BOOLEAN]]]
    /\ \A s \in Screens, c \in Cells : cell[s][c].shown => cell[s][c].p \in Posts

LikesInv ==
    /\ ServerOK /\ QueuesOK /\ ScreensOK
    /\ ops \in 0..MaxOps
    /\ crashes \in 0..MaxCrashes

\* The cell that a tap captured stays bound to some post until its completion
\* block has read it: deleteNotification always has a post to look for.
CapturedCellsBound ==
    \A d \in Devices :
        /\ \A i \in DOMAIN queue[d] : queue[d][i].then # NoThen =>
              cell[queue[d][i].then.op.s][queue[d][i].then.op.c].p \in Posts
        /\ \A i \in DOMAIN mainq[d] : mainq[d][i].then.kind \in {"firstMarkDone", "secondMarkDone"} =>
              cell[mainq[d][i].then.op.s][mainq[d][i].then.op.c].p \in Posts

-----------------------------------------------------------------------------
(***************************************************************************)
(* post-likes and user-likes are paired marks.  The trail of <<p, u>> is   *)
(* what the device of u has still to write to user-likes: the writes in    *)
(* its queue, then the completion blocks about to issue one.               *)
(***************************************************************************)
SecondMarks(d, p, u) == SelectSeq(queue[d], LAMBDA w : w.paths = {UserLike(u, p)})
FirstMarks(d, p, u)  == SelectSeq(mainq[d], LAMBDA b :
    b.then.kind = "firstMarkDone" /\ b.then.op.p = p /\ UidAt(b.then.op.s) = u)

Trail(p, u) ==
    IF \A d \in Devices : UidOf[d] # u THEN <<>>
    ELSE LET d  == CHOOSE d \in Devices : UidOf[d] = u
             ws == SecondMarks(d, p, u)
             bs == FirstMarks(d, p, u)
         IN  [i \in DOMAIN ws |-> ws[i].data # NoDoc]
             \o [i \in DOMAIN bs |-> bs[i].then.op.like]

Pairs == INSTANCE PairedMarks WITH
    Keys   <- Posts \X Users,
    first  <- [k \in Posts \X Users |-> Liked(k[1], k[2])],
    second <- [k \in Posts \X Users |-> Listed(k[2], k[1])],
    trail  <- [k \in Posts \X Users |-> Trail(k[1], k[2])]

\* user-likes replays post-likes, value by value, while taps overlap and cells
\* are reused (one device per account, nothing refused), until an app is killed.
LikesArePaired ==
    Pairs!Init /\ [][crashes' = 0 => Pairs!Next]_(Pairs!pairVars)
=============================================================================
