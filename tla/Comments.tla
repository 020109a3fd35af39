------------------------------ MODULE Comments ------------------------------
(***************************************************************************)
(* The comments of one post: CommentController, CommentInputTextView,      *)
(* CommentService, and the notification that a comment sends.              *)
(*                                                                         *)
(* The input bar belongs to the keyboard's window, so the loader does not  *)
(* keep the Post button from being tapped again, nor the navigation bar's  *)
(* back button; the text is sent as it is, even when it is empty.          *)
(***************************************************************************)
EXTENDS Firestore, Loader, FiniteSets

CONSTANTS Users,
          UidOf,       \* device -> the account signed in there
          Owner,       \* post.ownerUid
          MaxComments, \* bound: taps on Post
          MaxTexts,    \* bound: texts typed
          MaxScreens,  \* bound: times a screen is opened
          MaxCrashes   \* bound: times an app is killed

ASSUME CommentsAssumption ==
    /\ UidOf \in [Devices -> Users] /\ Owner \in Users
    /\ MaxComments \in Nat /\ MaxTexts \in Nat
    /\ MaxScreens \in Nat /\ MaxCrashes \in Nat
    /\ Failures \in BOOLEAN
    /\ NoDoc \notin Users /\ NoDoc \notin [uid : Users, comment : 0..MaxTexts]
    /\ NoThen \notin [kind : {"posted"}, c : 1..MaxComments, bar : 0..MaxScreens]
    /\ NoView # "comments"

VARIABLES open,     \* device -> is the CommentController on screen?
          list,     \* device -> its comments
          heard,    \* device -> the comments in its listener's last snapshot
          bar,      \* device -> the number of its input bar
          draft,    \* device -> the text in it, 0 when empty
          hud,      \* device -> the loader
          sent, typed, screens, crashes,
          hasty     \* was a device ever touched while something of it was in flight?

appVars == <<open, list, heard, bar, draft, hud, sent, typed, screens, crashes>>
vars == <<docs, queue, gets, mainq, appVars, hasty>>

\* Comments and texts are numbered in the order of the taps: the number stands
\* for the document's id and for its timestamp.
Ids   == 1..MaxComments
Texts == 0..MaxTexts
CommentDoc(c) == <<"comments", c>>
NoteDoc(c)    == <<"user-notifications", c>>

Comment(u, text) == [uid |-> u, comment |-> text]
\* The completion captures the input bar.
Posted(c, b)     == [kind |-> "posted", c |-> c, bar |-> b]

Settled(d) == Quiet(d) /\ ~Animating(hud[d])

-----------------------------------------------------------------------------
\* Variants with a bug, for the mutation runs: the text is left out; the
\* owner is notified without waiting for the comment.
uploadsNoText(d, c) == <<setData(CommentDoc(c), Comment(UidOf[d], 0), Posted(c, bar[d]))>>
notifiesAtOnce(d, c) ==
    <<setData(NoteDoc(c), UidOf[d], NoThen),
      setData(CommentDoc(c), Comment(UidOf[d], draft[d]), Posted(c, bar[d]))>>

\* CommentService.uploadComment.
uploadComment(d, c) ==
    <<setData(CommentDoc(c), Comment(UidOf[d], draft[d]), Posted(c, bar[d]))>>

\* A variant with a bug: the owner's own comments are not told apart.
notifiesOneself(d, c) == <<setData(NoteDoc(c), UidOf[d], NoThen)>>

\* NotificationService.uploadNotification: nobody notifies himself.
uploadNotification(d, c) ==
    IF Owner = UidOf[d] THEN <<>> ELSE <<setData(NoteDoc(c), UidOf[d], NoThen)>>

\* FeedController.cell(_:wantsToShowCommentsFor:), CommentController.viewDidLoad.
showComments(d) ==
    /\ ~open[d] /\ screens < MaxScreens
    /\ open' = [open EXCEPT ![d] = TRUE]
    /\ list' = [list EXCEPT ![d] = <<>>]
    /\ heard' = [heard EXCEPT ![d] = {}]
    /\ bar' = [bar EXCEPT ![d] = @ + 1]
    /\ draft' = [draft EXCEPT ![d] = 0]
    /\ screens' = screens + 1
    /\ UNCHANGED <<docs, queue, gets, mainq, hud, sent, typed, crashes>>

\* Back to the feed.  A text not posted goes with the input bar.
goBack(d) ==
    /\ open[d]
    /\ open' = [open EXCEPT ![d] = FALSE]
    /\ UNCHANGED <<docs, queue, gets, mainq, list, heard, bar, draft, hud, sent, typed, screens, crashes>>

\* The user types something else.
type(d) ==
    /\ open[d] /\ typed < MaxTexts
    /\ typed' = typed + 1
    /\ draft' = [draft EXCEPT ![d] = typed + 1]
    /\ UNCHANGED <<docs, queue, gets, mainq, open, list, heard, bar, hud, sent, screens, crashes>>

\* CommentController.inputView(_:wantsToUploadComment:).
wantsToUploadComment(d) ==
    /\ sent < MaxComments
    /\ sent' = sent + 1
    /\ hud' = [hud EXCEPT ![d] = show(@, "comments")]
    /\ Issue(d, uploadComment(d, sent + 1), <<>>)
    /\ UNCHANGED <<open, list, heard, bar, draft, typed, screens, crashes>>

\* CommentInputTextView: the Post button and the clearing of the text.
handlePostTapped(d) == open[d] /\ wantsToUploadComment(d)
clearCommentTextView(d, b) == draft' = IF b = bar[d] THEN [draft EXCEPT ![d] = 0] ELSE draft

\* The completion of uploadComment: the error is ignored.
posted(d) ==
    /\ Due(d, "posted")
    /\ hud' = [hud EXCEPT ![d] = dismiss(@)]
    /\ clearCommentTextView(d, Block(d).bar)
    /\ Take(d, uploadNotification(d, Block(d).c), <<>>)
    /\ UNCHANGED <<open, list, heard, bar, sent, typed, screens, crashes>>

\* The comments that device d sees, its queued ones included.
Visible(d) == {c \in Ids : View(d, CommentDoc(c)) # NoDoc}

\* Comments in the order of the query, which is by descending timestamp.
NewestFirst(S) ==
    CHOOSE s \in [1..Cardinality(S) -> S] : \A i, j \in 1..Cardinality(S) : i < j => s[i] > s[j]

\* The listener is called when what it sees has changed.  It appends S, newest
\* first.
appends(d, S) ==
    /\ open[d] /\ Visible(d) # heard[d]
    /\ list' = [list EXCEPT ![d] = @ \o NewestFirst(S)]
    /\ heard' = [heard EXCEPT ![d] = Visible(d)]
    /\ UNCHANGED <<docs, queue, gets, mainq, open, bar, draft, hud, sent, typed, screens, crashes>>

\* Variants with a bug: only the first snapshot is appended; every snapshot is
\* appended as a whole.
appendsOnce(d) == appends(d, IF heard[d] = {} THEN Visible(d) ELSE {})
appendsAll(d)  == appends(d, Visible(d))

\* The listener of CommentService.fetchComments: every change of type .added,
\* that is a document which the snapshot before did not have, is appended,
\* whether it is in the list or not.  A document that is removed (a write the
\* server refused) stays in the list.
fetchComments(d) == appends(d, Visible(d) \ heard[d])

Animate(d) ==
    /\ Animating(hud[d])
    /\ hud' = [hud EXCEPT ![d] = animated(@)]
    /\ UNCHANGED <<docs, queue, gets, mainq, open, list, heard, bar, draft, sent, typed, screens, crashes>>

Crash(d) ==
    /\ crashes < MaxCrashes
    /\ crashes' = crashes + 1
    /\ Restart(d, <<>>)
    /\ open' = [open EXCEPT ![d] = FALSE]
    /\ list' = [list EXCEPT ![d] = <<>>]
    /\ heard' = [heard EXCEPT ![d] = {}]
    /\ draft' = [draft EXCEPT ![d] = 0]
    /\ hud' = [hud EXCEPT ![d] = Hidden]
    /\ UNCHANGED <<bar, sent, typed, screens>>

Deliver(d) == Network(d) /\ UNCHANGED appVars

-----------------------------------------------------------------------------
Init ==
    /\ docs  = [x \in {CommentDoc(c) : c \in Ids} \cup {NoteDoc(c) : c \in Ids} |-> NoDoc]
    /\ queue = [d \in Devices |-> <<>>]
    /\ gets  = [d \in Devices |-> <<>>]
    /\ mainq = [d \in Devices |-> <<>>]
    /\ open  = [d \in Devices |-> FALSE]
    /\ list  = [d \in Devices |-> <<>>]
    /\ heard = [d \in Devices |-> {}]
    /\ bar   = [d \in Devices |-> 0]
    /\ draft = [d \in Devices |-> 0]
    /\ hud   = [d \in Devices |-> Hidden]
    /\ sent = 0 /\ typed = 0 /\ screens = 0 /\ crashes = 0
    /\ hasty = FALSE

Touch(d) ==
    /\ hasty' = (hasty \/ ~Settled(d))
    /\ showComments(d) \/ goBack(d) \/ type(d) \/ handlePostTapped(d)

Step(d) == Deliver(d) \/ posted(d) \/ fetchComments(d) \/ Animate(d) \/ Crash(d)

Next == \E d \in Devices : Touch(d) \/ (Step(d) /\ UNCHANGED hasty)

Spec == Init /\ [][Next]_vars

(***************************************************************************)
(* Fairness: writes are answered, the main queue runs, the listener is     *)
(* called and animations end.  Nothing is assumed of the user.             *)
(***************************************************************************)
Fairness ==
    \A d \in Devices :
        /\ WF_vars(Commit(d) /\ UNCHANGED <<appVars, hasty>>)
        /\ WF_vars(posted(d) /\ UNCHANGED hasty)
        /\ WF_vars(fetchComments(d) /\ UNCHANGED hasty)
        /\ WF_vars(Animate(d) /\ UNCHANGED hasty)

FairSpec == Spec /\ Fairness

-----------------------------------------------------------------------------
Stored == {c \in Ids : docs[CommentDoc(c)] # NoDoc}

\* Typing of the variables.
CommentsTypeOK ==
    /\ \A c \in Ids :
          /\ docs[CommentDoc(c)] \in [uid : Users, comment : Texts] \cup {NoDoc}
          /\ docs[NoteDoc(c)] \in Users \cup {NoDoc}
    /\ open \in [Devices -> BOOLEAN]
    /\ list \in [Devices -> Seq(Ids)]
    /\ heard \in [Devices -> SUBSET Ids]
    /\ bar \in [Devices -> 0..MaxScreens]
    /\ draft \in [Devices -> Texts]
    /\ \A d \in Devices : hud[d] \in Huds({"comments"})
    /\ hasty \in BOOLEAN

\* No comment is listed twice, although every .added change is appended: what
\* the listener has told of is still there in the next snapshot, also when the
\* server takes over from the device's own queue or the app is killed meanwhile,
\* and a comment that the server refused does not come back.
NoCommentTwice == \A d \in Devices : IsInjective(list[d])

\* When the services are idle, the post's owner has exactly one notification
\* for each comment somebody else wrote, however the taps and screens of the
\* devices overlap.  (Not after a crash between the two writes.)
OwnerNotified ==
    Quiescent /\ crashes = 0 => \A c \in Ids :
        docs[NoteDoc(c)] # NoDoc <=> c \in Stored /\ docs[CommentDoc(c)].uid # Owner

\* The owner is never notified of a comment that is not stored, not even when
\* the app is killed.  (An error of the first write breaks this: the
\* completion ignores it.)
NoEarlyNote == \A c \in Ids : docs[NoteDoc(c)] # NoDoc => c \in Stored

\* The variables keep their types, lists have no duplicates and notifications
\* have comments.
CommentsInv == CommentsTypeOK /\ NoCommentTwice /\ NoEarlyNote

\* A user who lets every touch settle loses no text: what was typed last and
\* is not in the input bar any more has been stored as a comment, unless the
\* screen was left.  (Typing while a comment is sent does lose text: the
\* completion clears whatever is in the input bar.)
NoTextLost ==
    [][\A d \in Devices : ~hasty /\ draft[d] # 0 /\ draft'[d] = 0 /\ open[d] /\ open'[d] =>
          \E c \in Stored : docs[CommentDoc(c)] = Comment(UidOf[d], draft[d])]_vars

\* The shared loader goes for good once the taps stop, also when the
\* screen was left in between or the app was killed.
LoaderGoes == <>[](\A d \in Devices : hud[d] = Hidden)

\* An open screen comes to list all comments that are stored, or it closes.
CommentsAppear ==
    \A d \in Devices : open[d] ~> (Stored \subseteq Range(list[d]) \/ ~open[d])

\* Once the taps stop, the screens show all there is, without a loader.
CommentsSettle == LoaderGoes /\ CommentsAppear
=============================================================================
