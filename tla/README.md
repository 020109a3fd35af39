# A TLA+ model of InstaClone

InstaClone is an iOS client (Swift, UIKit) of Firebase: accounts, a feed of
posts, likes, comments, follows, notifications, search and direct messages.
There is no server code in the repository, but the whole Firebase SDK is, under
`Pods`. Every feature is a screen that calls
asynchronous Firebase operations and reacts in their completion blocks, so what
is hard about the program is what happens *between* a touch, the writes it
issues and the blocks that run later: another touch, another device, a refused
write, a reused cell, a killed app.

This directory models those features and the two halves of the SDK that they
rest on, writing and listening, checks them with TLC on small instances and
proves properties of six features and of the SDK's writing with TLAPS, for
every size.

Paths of the app are relative to `src/InStaCloneSnapKit/InStaCloneSnapKit/`,
those of the SDK (`.cc`) to
`src/InStaCloneSnapKit/Pods/FirebaseFirestore/Firestore/core/src/`.

## 1. Inventory

| Component | State it keeps | Operations | What is hard |
|---|---|---|---|
| Likes (`FeedController`, `FeedCell`, `PostService`) | counter in `posts/p`, marks `post-likes` and `user-likes`, copies of posts on each screen and in each cell | tap on the heart, refresh, scroll, open one post | counters computed from stale copies; two chained writes; completions that capture a reusable cell |
| Following (`UserService`, `ProfileController`, `NotificationsController`, options alert of `FeedController`) | `user-following`, `user-followers`, a flag on each screen | follow and unfollow from three places | the same relation written twice; late answers that overwrite a flag; rows reused; alert completed after presentation |
| Notifications (`NotificationService`) | `user-notifications` | add, find and delete, list | the query that deletes runs late |
| Session (`AuthService`, authentication screens, `MainTabController`) | Firebase Auth's accounts and current user, `users/uid`, the tabs, the presented screen | log in, register, reset, log out, restart | an account exists before its document; answers to calls made for another user |
| Comments (`CommentController`, `CommentService`) | `comments`, the list, the input bar | post, listen | listener with local echo; an ignored error; a bar cleared late |
| Editing the profile (`EditProfileController`, `UserService`) | `users/uid`, pictures in Storage, the URL on each post | pick, edit, Done, Cancel | picture deleted before the new one exists; a whole user written from an old copy |
| Posts (`UploadPostController`, `PostService`, `FeedController`) | `posts`, the feed, Storage | share, delete, refresh | a chain of five asynchronous steps; likes of a post being deleted |
| Search (`SearchController`, `UserService.fetchUsers`) | `users`, `filteredUsers`, the drawn rows | load, type, cancel, tap | arrays that change under a drawn table |
| Messages (`ChatController`, `ConversationsController`, `MessagingService`) | two copies and two "recent" documents for each message | open, type, send, listen | four writes; crossing messages; listeners |
| Loader (`showLoader` in `Utils/Extensions.swift`) | one static `JGProgressHUD` | show, dismiss | shared by all screens, animated |
| SDK, writing (`remote_store.cc`, `stream.cc`, `write_stream.cc`, `grpc_stream.cc`, `sync_engine.cc`, `leveldb_mutation_queue.cc`) | each account's queue on disk, the write pipeline, the stream and its timers, the call with its buffer, callbacks | write, wait for pending writes, change of account, network on and off | answers name no write; late credentials and timers; calls that break between a write and its answer; batch ids reused after a crash |
| SDK, listening (`event_manager.cc`, `query_listener.cc`, `view.cc`, `sync_engine.cc`, `remote_event.cc`, `online_state_tracker.cc`, `remote_store.cc`) | listeners, view, limbo lookups, targets, aggregated changes, cached documents, resume token, online state | listen, stop, get once, every message of the server | messages for a target that was removed and added again; existence filters; documents in limbo; answers from the cache while offline |
| Profile statistics and grid | three counters, posts | three nested reads | torn reads (not modelled yet) |
| Reels, FCM token, feed rebuilt after following | – | empty or called by nothing | – |

Components interact through the documents on the server (a like and a deletion
of the same post), through the device's main queue (all completion blocks of
all screens), through the shared loader and through delegates, which are plain
calls and therefore part of the calling action. Inside the SDK everything runs
on one worker queue: what interleaves is the order of its tasks (calls of the
app, completions of gRPC, credentials, timers), and each task is one action.

`PROJECT.json` lists under `hazards` each line where this bites, and the
properties that cover it. Many properties hold only for users who wait, or
without refused writes; the note of each hazard, and the comment of each
property, say what the code does *not* guarantee. A few hazards name no property,
because the code does go wrong there and nothing repairs it: the marks of a like
after a kill between them, a text typed while a comment is being sent, the
misattributed refusal and the missing timeout of section 3.

## 2. Modules

### `Firestore`

What the services under `API/` get from the SDK and the server. `docs` is the server;
`queue[d]` the writes of device `d` not yet answered, sent in order; `gets[d]`
the reads, answered in any order; `mainq[d]` the completion blocks that wait
for the main queue. A completion block is a record with what the closure
captures. Reads see the server overlaid with the device's own queued writes
(latency compensation). With `Failures` the server may refuse a write (the
block runs with `res` FALSE) or fail a read (the blocks of this code return on
a nil snapshot). A killed app loses blocks and reads; queued writes are on disk
and are sent later. It is deliberately simpler than the SDK: a write is applied
and answered in one step, and the cache is up to date when a read is answered
(the device is online). That writes are applied and answered in the order they
were made, each told to the app at most once, is what `WritePipeline` is shown
to guarantee; that a read answered as the server's is the server's, `Listen`.
What it does not show: a write whose answer is lost is applied a second time,
and one refusal may be told to the write before it (section 3, findings).

Each touch handler and each completion block is one action, since both run to
their end on the main queue: calls made inside a handler are part of it
(`Issue`, `Take`).

### `Loader`, `CellReuse`

`Loader` is the static HUD, from the source of the vendored `JGProgressHUD`:
showing and hiding take time, a show is ignored while the HUD is in a view that
exists, a dismissal during an animation is remembered. The HUD refers to its view
weakly: an upload screen that is closed and that no call in flight retains is
freed, and the HUD that a share left there can be shown again (`freed`, `Alive` and
`Held` in `Posts`). The other screens need none of this: the feed and the
notifications live as long as the tabs, a chat or comment screen is retained by the
closure of its listener, and what `EditProfileController` shows its last block
dismisses. `CellReuse` gives the ways in
which UIKit can lay out a list in fewer cells than it has entries.

### `PairedMarks` (abstract)

What `likePost`/`unlikePost` and `follow`/`unfollow` promise of a relation they
store twice: the second copy takes, in order and without gaps, the values of
the first. `Likes` and `Follow` are shown to implement it (`LikesArePaired`,
`FollowsArePaired`); the mapping reads the values still to be written off the
device's queue and its pending completion blocks.

### `WriteQueue` (abstract), `WritePipeline`

`WriteQueue` is what the app may rely on: each account has a queue, writes are
applied in its order, perhaps more than once, and answered in its order, each at
most once, `ok` only if applied. `WritePipeline` is the SDK: `mq` the mutation
queues on disk, `remote` the `RemoteStore` with pipeline, stream state, close
count, timers and the gRPC call with its buffer, its wire and its unread
responses. Stream functions (`Start`, `Closed`, `Stop`, `BackoffAndTryRestarting`)
are operators from record to record, as the methods call one another; actions are
the tasks of the worker queue. The server handles the requests of a call in
order, refuses the writes `Bad` by ending the call, and never ends a call with OK.

### `WatchClient`, `Listen`

`WatchClient` holds the listening half of the SDK as operators from client record to client
record, one for each method: `EventManager`, `QueryListener`, `SyncEngine`,
`View`, `LocalStore`, `RemoteStore`, `WatchChangeAggregator` and
`OnlineStateTracker`. A `HARD_ASSERT` that fails puts its name in
`client.failed`. `Listen` adds the server, the call and the tasks. Abstracted:

- one query, with a snapshot listener and a `getDocuments`; documents are in or
  out of its result; no local writes, limits or ordering;
- the watch stream is stopped, started or open: its own state machine is the
  one of `WritePipeline`;
- the query engine's shortcut for limbo-free targets is taken for the full scan
  it must agree with; `pending_document_target_mappings_` (used for garbage
  collection) and the rule that persists a token only every five minutes are
  left out;
- the server (external) answers requests in order, confirms every removal of a
  target, sends a target without a token all its documents and no filter, and one
  with a token what changed since, with documents that left either named or
  only counted (an existence filter).

### Features

| Module | Models | State ↔ code |
|---|---|---|
| `Likes` | `PostService` likes, `FeedController.cell(_:didLike:)` | `posts[s]` is `FeedController.posts`/`post` of a screen, `cell[s][c]` the view model of a cell |
| `Follow` | `UserService` follows, three callers | `profile`, `notes`, `cell`, `menu`, `hud` are the flag of a profile screen, the rows, the cells, the alert and the loader |
| `Session` | authentication, tabs | `current` is `Auth.auth().currentUser`, `tabUser` `MainTabController.user`, `modal` the presented screen |
| `Comments` | comments of one post | `list` is `CommentController.comments`, `heard` the last snapshot of its listener, `draft` the text in input bar number `bar` |
| `EditProfile` | edit screen | the screen's copy of the user, the picked picture, Storage, the profile's copy |
| `Posts` | share and delete | `feed` is `FeedController.posts`, `calls` uploads to Storage, `hud` the loader and the screen it is in |
| `Search` | lists of accounts | `users`, `filteredUsers` and the rows the table last drew |
| `Messages` | direct messages | `conv` is the dictionary of conversations, `chat`, `list`, `heard`, `draft` the chat screen with its listener |

A listener's answer is the difference between two snapshots: `fetchComments` and
`fetchMessages` append what the snapshot has and the one before (`heard`) had not,
as the code appends every `.added` change, without looking at the list. That a list
shows nothing twice is therefore a claim about what a device sees over time: a
document that left the snapshots, because the server refused it, must not come back.

An action has the name of the method it stands for; `map` in `PROJECT.json`
gives its lines. A definition introduced as *a variant with a bug* is used only
for mutation: it takes the place of the definition after it, and TLC must then
find the property violated.

The theorems are in modules of their own, each extending the module it is about:
`LikesProofs`, `SessionProofs`, `CommentsProofs`, `MessagesProofs`, `PostsProofs`,
`EditProfileProofs`, `WritePipelineProofs`, and `FirestoreProofs` for the lemmas on `Firestore` that the features share
(section 4).

Data are abstracted to what the properties tell apart: a document's contents
are a counter, an owner or a mark; messages and comments are numbered by the
tap that sent them, which also stands for their timestamps; texts are numbers
with 0 for an empty bar; a picture is a number, since every upload has a new
name.

## 3. Runs

Many properties hold only for users who wait until nothing is in flight, or
while nothing has been refused and no app killed. The models let everything
happen and remember it in history variables that no guard reads (`hasty`,
`haste`, `past`, `failed`, and the counter `crashes`); such a property has one
of them as its premise. Without the premise TLC refutes it: that is what the
code really does, and the property's comment tells how.

| Run | Instance | Shows |
|---|---|---|
| `likes_race` | 2 devices, 1 post, 3 taps, 1 kill | any overlap, until the kill: refinement of `PairedMarks`, the two marks come to agree (liveness), no notification outlives its like; throughout, the invariant of the proofs |
| `likes_screens` | 2 posts in 1 cell, one also on a screen of its own, 2 taps | counter never negative; exact for a user who waits |
| `follow` | 1 device, profile, row and alert, 2 taps, 1 kill | the three places share marks and loader: marks are paired (until a kill), each place offers the right action and no notification outlives a follow where the code can keep that, a loader that stays has a call that dismisses it and goes for good (liveness) |
| `session` | 2 devices, 2 taps, failures, 1 kill | tabs only for who is signed in, of that account, never without its document; every account gets its document; tabs appear (liveness) |
| `comments` | 2 devices, 2 comments, 2 screens, 1 kill (168 thousand states) | no comment twice, one notification for each and none early, no text lost by users who wait; comments appear and the loader goes (liveness) |
| `edit` | 3 screens, 2 saves, 2 posts | picture available, profile current, posts updated, loader owned |
| `posts` | 2 devices, 2 upload screens, 2 shares or a share and a like, a deletion (2.8 million states) | deletions against likes, uploads against refreshes, cleaning up; a loader that stays has a call that dismisses it, also after an earlier share, or is in an upload screen still retained |
| `search` | all five configurations, 4 changes of text, failures | rows and arrays agree, taps open what they show, lists are completed (liveness) |
| `messages` | 2 devices, 2 messages, 2 chats, 1 kill (246 thousand states) | copies paired, recent message stored, recents agree, no message twice; chats and conversations catch up (liveness) |
| `write_pipeline` | 2 accounts, 3 writes of which the server refuses one, a pipeline of 2, 2 faults | the pipeline is the oldest part of the queue, answers find their writes, no assertion fails, refinement of `WriteQueue`, the queue of an account that stays is emptied (liveness) |
| `listen` | 2 documents, a listener and a `getDocuments`, 1 lookup at a time, 1 change, 1 fault | what is shown as the server's is the server's, no assertion fails, documents in limbo are those looked up; the listener is shown the server's result and the `getDocuments` is answered (liveness) |
| `listen_again` | 1 document, `Hasty` | violation: see findings |

### Findings

- `listen_again`: a query that is dropped and listened to again between an
  existence filter that does not match and the snapshot it comes with keeps a
  document the server does not have, in a result said not to be from the cache.
  The target waits for responses, so `CreateRemoteEvent` leaves its removals out
  (`remote_event.cc:255`), but the re-listen is still made
  (`remote_store.cc:321`), without a token, and the response to it clears the
  removals (`remote_event.cc:159`). `FIRSnapshotMetadata.h:37` says that such a
  result is "guaranteed up-to-date server data". `Hasty = FALSE` keeps the other
  run away from exactly this.

Two more disagreements were met while modelling and have no run of their own.
`HandleWriteError` rejects the front of the pipeline (`remote_store.cc:525`), although the write that
was refused can be a later one: when a still later write fails on the ended
call, the answers not yet read are cancelled (`grpc_stream.cc:241`).
`WriteQueue.Verdicts` allows for it. And `StopListening` of the last target
while the stream is being opened clears the online-state timer
(`remote_store.cc:187`), which a listener added then does not set again, so a
`getDocuments` waits until the call opens or fails, although
`online_state_tracker.cc:48` speaks of a timeout.

The first invariant of most runs (`FollowInv`, `SessionInv`, `CommentsInv`,
`EditInv`, `PostsInv`, `SearchInv`, `MessagesInv`; `LikesInv` for the likes) is
the conjunction of the module's type invariant and of what holds in every state,
whatever was tapped, and is where its proofs are to start. That the marks agree
once nothing is in flight follows from the refinement of `PairedMarks`: then
nothing is left of the trail.

### Bounds

Every bound is a constant named `Max...` and is tested in a guard. One or two
devices, two or three accounts and one or two posts are enough for each hazard:
a race needs two writers, a phantom a second tap, a reused cell two entries for
one cell, an undone write a third tap. Three taps cover like, unlike and like
again with all of them in flight. In `posts` only the owner's device opens the
upload screen (`Sharers`), twice, so that a loader shown after a share is met by
one left in the first screen; `MaxTaps` bounds shares and likes together, as two
shares and a like at once give nothing that two of the three do not and take too
long. One kill reaches every point between two
steps. In `write_pipeline` the pipeline holds 2 of 3 writes instead of 10, so
that it is full and refilled; two faults reach a call that breaks twice, a
change of account and back, and a crash after either. In `listen` a second
document makes one lookup wait for the other, and the client has read the
documents before one of them was deleted, so that a resumed target meets
filters and limbo; one fault is a broken call, a reset, a rejected target, a
network switch or a crash. A pipeline of ten and a hundred lookups, the code's
limits, are counters that behave the same.

Some screens are bounded by the module and not by a constant, where no property
depends on the rest: `Likes.handleRefresh` is for the home feed only (a feed that
shows one post, opened from a grid, can be pulled too); `Follow` has one profile
screen for each account; `Messages.showChatController` keeps one chat although two
quick taps on a row push two. `Firestore` has one queue for each device, where the
SDK has one for each account and sets it aside when the account changes:
`WritePipeline` models that, and the `Session` properties that speak of queued
documents ask where they are, not when they are sent. A server that ends a write
call with OK or sends a malformed response is left out of `WritePipeline.Break`.

Deadlock is not checked where touches are bounded, because the model then
stops once they are used up.

### Fairness

Liveness runs assume weak fairness of: sending the oldest queued write (the SDK
retries until the server answers), answering the oldest read or call, running
the main queue, calling a listener that has something new, and ending an
animation. Nothing is assumed of the user: each property speaks of what follows
a touch, or of the end of all touches, which the bounds force; in `follow`
refreshing goes on for ever, which does not concern the loader. Kills happen in
liveness runs too, at most as often as `MaxCrashes` says.

In the SDK, weak fairness is assumed of the worker queue's tasks (credentials,
reads and writes of the call, timers, closing) and of the server and network:
requests are answered and calls open or fail (without this a `getDocuments` may
wait for ever, see the second finding). Faults are bounded, so calls stop
breaking. `QueueDrains` and `ListenerInformed` speak of an account that stays, a
listener that stays and a network that stays on. In `Listen` the fairness of `Deliver`
and `Answered` is written out with their guards, which is the same formula;
`ENABLED` of these actions is slow to evaluate.

## 4. Proofs

Every theorem holds for all values of the constants that the `ASSUME` of the
module allows: any sets of devices, accounts and posts, all bounds. The assumptions
say that the sets are what they stand for (finite accounts, one account for each
device, bounds in `Nat`) and that the sentinels `NoDoc`, `NoThen` and `NoView`
are none of the values they stand beside. TLC evaluates them in the runs. Kills
of the app are always included; refused writes and failed reads too, unless the
theorem assumes `~Failures`.

| Module | Theorem | States |
|---|---|---|
| `LikesProofs` | `LikesInvariant` | `Spec => []LikesInv` |
| | `LikesTypeCorrect` | `Spec => []TypeOK` |
| | `LikesNeverNegative` | no stored counter is negative |
| | `LikesStayBounded` | no stored counter exceeds accounts plus taps |
| | `CapturedCellsStayBound` | a captured cell has a view model when its completion reads it |
| | `CountersExact` | `LikesExact`, on one device and if nothing fails: at rest the counter is the number of accounts in post-likes, for users who wait |
| | `NoPhantoms` | `NoPhantomNotification`, if nothing fails, an account is on one device and no captured cell is bound anew: at rest no owner is told of a like that is gone |
| `SessionProofs` | `SessionInvariant` | `Spec => []SessionIndInv` |
| | `TabsKeepProfiles` | `SessionInv`: the tabs are those of an account whose document the device has, unless a service failed |
| | `AccountsGetProfiles` | `AccountsHaveProfiles`: once nothing is in flight every account has its document, unless an app was killed or a service failed |
| | `ScreensStayTruthful` | `ScreensTruthful`: users who wait see the login screen when signed out, else the tabs of the account that is signed in |
| `CommentsProofs` | `CommentsInvariant` | `Spec => []CommentsIndInv` |
| | `ListsHaveNoDuplicates` | types, and no list shows a comment twice, although the listener appends every addition: also with refused comments, kills and screens opened again |
| | `CommentsCorrect` | `CommentsInv`, if nothing is refused |
| | `OwnerIsNotified` | `OwnerNotified`, if nothing is refused |
| | `TextsAreKept` | the action property `NoTextLost`, if nothing is refused |
| `MessagesProofs` | `MessagesInductive` | `Spec => []MessagesIndInv` |
| | `NothingListedTwice` | types, and no chat lists a message twice, although the listener appends every addition: also with refused messages, kills and chats opened again |
| | `MessagesCorrect` | `MessagesInv`, if nothing is refused: a most recent message has both copies |
| | `CopiesStayPaired` | `CopiesAgree`, if nothing is refused: at rest both accounts have the same messages and, for users who wait, the same most recent one |
| `PostsProofs` | `TypesSafe` | types of the state and of everything in flight |
| | `NoResurrectionSafe` | the action property `NoResurrection`: a deleted post never exists again |
| | `PostsSafe` | `PostsInv`, if nothing fails: a loader that stays on the feed will be dismissed by a call in flight (but for a deletion that found no notification), one in an upload screen has an upload of that screen in flight, which frees it or dismisses the loader; also after any number of earlier shares |
| | `DeletionsCleanUp` | `DeletionCleansUp`, if nothing fails: for users who wait a deletion leaves nothing behind |
| | `FeedsAreCurrent` | `FeedCurrent`, if nothing fails and no account is signed in twice |
| `EditProfileProofs` | `TypesSafe` | types, and every picture named anywhere has been handed out |
| | `EditSafe` | `EditInv`, if nothing fails: a loader that stays has a save that dismisses it |
| | `PicturesAreAvailable` | `ImageAvailable`, on one device and if nothing fails: the account's picture is in Storage at rest |
| | `PicturesMatch` | `PicturesAgree`, on one device and if nothing fails: at rest the profile and, for users who wait, the posts show the account's picture |
| `WritePipelineProofs` | `WritesInvariant` | `Spec => []WritesInv` |
| | `PipelineIsQueueFront` | `PipelineInv`: the pipeline is the front of the account's queue |
| | `ResponsesMatchWrites` | `ResponsesMatch`: a response is for the write it is taken for |
| | `AssertionsNeverFail` | `AssertionsHold`: no `HARD_ASSERT` of the write path fails |
| | `WritesImplementQueue` | `Spec => WritesAreQueued`: the SDK implements `WriteQueue` |

**Likes.** That the counter is not negative cannot be proved by looking at the
server alone: `unlikePost` tests a copy in a cell, and the number it computes travels
through the queue to the server, through reads into lists and through lists into
cells. `LikesInv` therefore says of *every* place a counter can be (documents,
queued writes, answers on the main queue, lists, cells) that it is in
`Counts == 0..(Cardinality(Users) + ops)`, with `ops` the taps made. A tap
raises the bound by one and a counter by at most one, and `unlikePost` decreases
only a copy above zero. `ServerOK`, `QueuesOK` and `ScreensOK` are the parts for
the server, the SDK and the screens. The invariant is also one of run
`likes_race`. Refusals and failed reads of the likes are covered by the proofs
only: the runs of `Likes` have none.

`LikesExact` is about agreement of a number with a set, kept by code that never
counts: `likePost` adds one to the copy it was given. `ExactInv` has therefore
two modes. While no tap is in flight (`Free`) the server agrees with itself,
every answer on the main queue says what the server has, and each copy on a
screen is either right for the heart it shows or, while the check of its heart
is to come (`Pending`), has the server's counter. While the tap `op` is in
flight (`Tapping`), it is in one of five phases, and each says how far the
server is from agreeing: `Counting` (both writes queued), `Liking` (the counter
is written, the mark is not), `Chaining` (the completion of the first mark is
due), `Listing` (the second mark is queued), `Ending` (only the cell is behind).
A user who waits starts a tap in `Free` only; there is one device because
another one's likes are exactly what a copy misses.

`NoPhantomNotification` is about users who do not wait, on any number of devices.
A tap passes four stages (first mark queued, its completion due, second mark
queued, its completion due), each first come, first served, and none overtakes
another (`Queueing`, `NoOvertaking`); this needs that a write with a completion is
of one document (`OwnWrites`). What keeps the notifications right is said of
what the *device* will have written (`View`), not of the server. As long as the account is not
going to like a post, every tap in flight that liked it has a later one in flight
that takes the like back (`Cancelled`), and every notification of it that the device still
sees has a tap that takes the like back, a query that will find it, or a found
one about to be deleted (`Explained`). `Cancelled` is what makes `Explained`
inductive: when the completion of an overlapped like uploads a notification, the
unlike that will look for it is behind it. The hypothesis
`[][CapturedNotRebound]_vars` says that no cell is bound to another post
while a tap that captured it is in flight: `deleteNotification` is given the post
the cell shows *by then*. In `likes_race`, with one post, it holds of every
behaviour; without it the property fails, as its comment in `Likes` tells. A
killed app loses completions, so the property and the invariant speak of apps
that were not killed. The invariant was checked with TLC on two posts and two taps
before it was proved.

**Firestore.** `FirestoreProofs` says what each operator of `Firestore` does to the
*set* of writes, reads and blocks of a device (`Range` of its queue): issuing adds
one, answering removes one and adds its block, taking a block removes it,
killing removes all blocks and reads. An invariant over everything in flight is
then a quantifier over these sets, and one lemma for each operator carries it
over a step. What a device sees at a path is the server's document or
the last write it has queued there (`ViewFrom`, `ViewOfSets`). Where a
proof needs induction (the library's theorems for it take an operator as a parameter, which no prover here can instantiate), it
takes the least number for which the claim would fail (`LeastNat`) and
refutes it; so it is shown that every finite set of numbers has a decreasing and an increasing
enumeration, which the sorted lists of the app need.

**Session.** `SessionInv` speaks of tabs; what keeps it is where the documents
are. `SessionIndInv` adds: what a device has read or written stays in the server
or in its queue; an account without a document has its write queued, or the block
that will make the write waits on the main queue (`createUser` stores the
document only in its completion), or its device was killed in between
(an *orphan*). For users who wait, a device makes one call at a time, and the
invariant names the phase (`Resting`, `Calling`, `Answering`, `Storing`): a
read in flight is for the account that is signed in, and an account without a
document is signed in only while it is being stored.

**Comments.** `ListsInv` holds whatever fails: each number has one author and one
text wherever it is (server, queue, list). That no list shows a comment twice is
more: a comment that left the snapshots must not be added again. `Numbered` says
that a new comment has a number nobody uses, `OneWriter` that only one device has
a comment queued; and `ListsHeard` that a comment which is listed and no longer
heard is stored nowhere and queued nowhere (it was refused), so that no snapshot
can bring it back. `AcceptedInv`, without refusals, follows a tap: its write is
queued with a block; the block runs only when the comment is stored; only then is
the notification written and the bar cleared. `OwnerNotified` needs that the
notification of a stored comment is queued or its block still waits, unless an app
was killed between the two. `NoTextLost` needs `Waiting`: for users who wait, at
most one thing is in flight on a device (`Lone`), so what the bar holds when the
block clears it is what was sent (`InBar`). With refusals the completion clears
the bar although nothing was stored, and the code does no better.

**Messages.** That no chat lists a message twice is argued as for comments, but
for the partner's copy, which is written by a completion block: what a device
brings (`Brings`) is a queued copy or a block, waiting or to come, that will send
one. `OneSource` says that only one device brings a copy, `Numbered` that a new
message has a number nobody uses, and `ListsHeard` that what is listed and no
longer heard is not stored and brought by nobody. For the rest, the *order* in a
queue matters, not only what is in it: the three later writes of `uploadMessage`
are sent together, and the two most recent messages must come behind the partner's
copy. `RecentsBehind` says of the `i`-th queued write, if it names a most recent
message, that each of the two copies is stored or among the writes before it;
answering a write shifts the indices and stores what was first, a kill keeps the
order. `SentStored` says that the block which sends the three runs, and the
partner's copy is queued, only once the sender's own copy is stored. `CopiesDue`
says that before any kill the partner's copy of a stored message is stored,
queued, or waits in such a block; hence `CopiesAgree` at rest. For the most recent
messages `OneAtATime` names the step a message of users who wait is at (`Storing`,
`Telling`, `Copying`, `Naming`, `Closing`): only in `Closing` do two accounts
differ. The exception of `scrollToItem` counts as no kill, so it must be shown
that nothing is on its way when it happens (`NothingSeen`): a screen that sees no
message has none queued either. The number of input bars needs counting
(`BarsCounted`): every chat screen answers a read, in flight or answered, or a
touch.

**Posts.** `TypesInv` names the calls of sharing, liking, deleting and refreshing
by their shape, with the post each is about; all else is said over these sets. A
deleted post stays deleted because the only write that creates a document is that
of a new post, under a number never used before, and `likePost` *updates*, which
is refused where there is no document. The loader needs `DeletionComing` and
`UploadComing`: every step of a chain of completion blocks hands the duty on to
the next. A share that succeeds dismisses nothing: the loader it leaves stays only
while an upload still retains the screen it is in (`Held`), and the step that ends
the last of these frees screen and loader (`hudBecomes`), so that later shows are
not ignored; `LoaderOwned` therefore speaks of any number of shares. For the
clean-up `MarksPaired` says that a mark under a user is stored only after the one
under the post, so that the query of `post-likes` finds it; `LikesApart` that
users who wait do not like what is being deleted; and `Cleaning` that each mark or
notification of a deleted post is in a query to come, in the answer to one, or in
a deletion that is queued. `FeedCurrent` compares two orders, that of the answers
to refreshes and that of uploads and deletions. `FeedInv` says it with one
function from posts to owners that all documents, writes, blocks and feeds agree
on: a post shared from here is in the *last* list among the blocks waiting, or
else in the feed, or a refresh is to come (`OwnListed`); one deleted from here is
in no list that has no refresh behind it (`GoneHidden`). Deletions write several
documents with one `forEach`; the lemmas `AnsweredPart` and `AnswerPart` of
`FirestoreProofs` treat the answer to one of them.

**Editing the profile.** `ImageAvailable` is not inductive by far: the account,
the profile, the edit screen and every call in flight carry a copy of the
picture's URL. While the edit screen is neither opened nor left during a save, a
device is in one of two phases. *Early*, no picture was uploaded from the last
screen: only names are being saved, and all copies are equal. *Late*, one was:
each new picture is a token that is in one place, an upload, the update of the
account or a completion block (`TokenAt`), and once stored is not deleted before the
screen shows it, as what is deleted is the screen's picture. When no such token
and no save is left, the account's picture is in Storage, no deletion of it is in
flight, and the last completion block to come, or else the profile, shows
it (`ShowsLast`). A save of the names in the late phase writes an old picture;
it does no lasting harm because `selectedImage` is never reset, so an upload
follows it (`MoreLast` is what makes this true from the first upload on). For the posts
`PostsInv` follows the one thing that is in flight for users who wait. Two
devices of one account break all three, which is why one is assumed.

**Writing.** The four invariants of the run are proved together, as one is
needed for the other. `WritesInv` adds to them what the run does not ask: every
response on the wire or unread stands in the log of what the server did, in its
order; a server that ended a call with a refusal did so for a write in `Bad` that
is next in the pipeline; an answer to a request for credentials carries a close
count not above the present one, so a stale one is recognised; the write of a
waiting callback has not been told, and a waiter is pending exactly for the
indices not yet reached. The proofs go from the stream functions to the actions:
first what `Start`, `Closed`, `Stop` and `BackoffAndTryRestarting` keep of a record,
then each task, then the theorems. For the refinement the abstract queue of an
account is the operations of `mq[u]`; the server serving a request is `Apply`
(or a stutter, for a request that ends the call), `WriteMutations` is `Issue`, an
acknowledgement or a rejection is `Answer`, and a kill between storing and
telling is `ToldAndKilled`, `Answer` or a stutter, according to what was on disk;
every other task is a stutter.

Only model-checked:

- all liveness (`QueueDrains`, `TabsAppear`, `CommentsSettle`, `MessagesAppear`
  and the others), as fairness and `ENABLED` are beyond the prover;
- the refinements of `PairedMarks` by `Likes` and `Follow`:
  the mapping reads a sequence of values off queues and blocks with
  `SelectSeq`, which the prover does not expand;
- everything about `Follow` and `Search` and the listening
  half of the SDK. `Search` filters with `SelectSeq` too; in `Listen` the client is
  one record through which some thirty operators are composed.

## 5. Not modelled

- Layout, formatting, colours, images as such, the contents of forms.
- What the code does not attempt, and the modules keep as it is: unfollowing
  from the alert or a row leaves the follow notification; the delegate that
  would close the reset screen is never set; the collection of followers is
  misspelt in two places, so that those queries are always empty.
- The statistics and the grid of the profile, the grid of the search screen:
  reads that only display. The statistics are three reads one after the other,
  of collections that change in between (planned, see below).
- Code that nothing calls: `updateUserFeedAfterFollowing`, `fetchFeedPosts`,
  `deleteMessages`, `setUserFCMToken`, `fetchUser(withUsername:)`. The message
  screens are modelled although the button that leads to them is missing.
- `ReelsController`, which is empty.
- The vendored `Pods` other than the part of `JGProgressHUD` that `Loader` is
  about and the parts of `FirebaseFirestore` named above: gRPC, BoringSSL,
  leveldb, abseil, nanopb and the rest are libraries with projects of their own,
  reached through interfaces whose behaviour the modules state as assumptions
  (a call delivers in order or ends; a transaction on disk is whole or not
  there). They are nearly all of the repository's 889 000 lines, which is why
  the map covers a small share of them. Of `FirebaseFirestore`: transactions,
  bundles, client-side indexes, garbage collection and the serializer, none of
  which the app's features depend on.
- Firebase Auth and Storage, modelled from their use (`Session`, `EditProfile`,
  `Posts`).
- A refused message: `Messages` has it, but no run lets the server refuse one;
  `NothingListedTwice` covers it.

## 6. Plan

Done, in this order: `Firestore`, `Likes` with its proofs, `Follow` and
`Loader`, `Session`, `Comments`, `EditProfile`, `Posts`, `Search`, `Messages`,
`WriteQueue` and `WritePipeline`, `WatchClient` and `Listen`; then the proofs of
`WritePipeline`, `Session`, `Comments`, `Messages`, `Posts` and `EditProfile`.

Next:

1. Proofs: `FollowTruthful`, now that the lemmas for writes of several documents
   are there; the agreement of likes at rest through `PairedMarks` with its own
   invariant.
2. `Profile`: statistics (three nested reads against follows and posts in
   flight), the grid, and its composition with `Follow`.
3. Abstract specifications of a message and of a comment as something delivered
   once and in order, with refinements from `Messages` and `Comments`.
4. Composition of `Likes` and `Posts`: counters of a post being deleted.
