------------------------------- MODULE Follow -------------------------------
(***************************************************************************)
(* Following and unfollowing accounts: UserService.follow and unfollow,    *)
(* and the three places that call them, each with its own copy of whether  *)
(* the account is followed:                                                *)
(*   - the profile screen (ProfileController), which also sends and        *)
(*     withdraws the follow notification;                                  *)
(*   - the rows of the notifications screen (NotificationsController,      *)
(*     NotificationCell), which hold a copy per cell;                      *)
(*   - the options menu of a post (FeedController), an alert that asks the *)
(*     server after it is presented.                                       *)
(* The last two show the loader, which the whole app shares.               *)
(***************************************************************************)
EXTENDS Firestore, Loader, CellReuse, FiniteSets

CONSTANTS Users,
          UidOf,           \* device -> the account signed in on it
          Profiles,        \* <<d, t>>: device d may open the profile of t, once
          FeedOwners,      \* <<d, t>>: the feed of d lists a post of t
          Cells,           \* the reusable cells of the notifications screen
          NoRow,           \* a cell that has no view model yet
          NoMenu,          \* no options menu is presented
          Marked,          \* contents of a document whose existence is all that matters
          InitialFollows,  \* the possible sets of <<u, t>>: u follows t, at the start
          MaxOps,          \* bound: touches that call a service, refreshing aside
          MaxReads,        \* bound: reads and completion blocks pending when a device refreshes
          MaxCrashes       \* bound: times an app is killed

ASSUME FollowAssumption ==
    /\ UidOf \in [Devices -> Users]
    /\ \A x \in Profiles \cup FeedOwners :
          x \in Devices \X Users /\ x[2] # UidOf[x[1]]
    /\ Marked # NoDoc
    /\ InitialFollows \subseteq SUBSET {x \in Users \X Users : x[1] # x[2]}
    /\ MaxOps \in Nat /\ MaxReads \in Nat /\ MaxCrashes \in Nat
    /\ Failures \in BOOLEAN

VARIABLES profile,  \* <<d, t>> -> is the screen open, and its copy of user.isFollowed
          notes,    \* device -> the listed notifications, each with userIsFollowed
          cell,     \* device -> cell -> its view model, and whether it is on screen
          menu,     \* device -> the options menu: its post's owner and its action
          hud,      \* device -> the loader
          ops,      \* touches so far; also the source of fresh identifiers
          crashes,
          past      \* the places accounts were followed from so far, and "haste" once
                    \* a device was touched while something of it was in flight

vars == <<docs, queue, gets, mainq, profile, notes, cell, menu, hud, ops, crashes, past>>

Views == {"notifications", "feed"}

-----------------------------------------------------------------------------
\* Document paths.  A follow notification is named by its contents (recipient,
\* sender) and by the touch that produced it: touch 0 is before the start.
UserDoc(u)      == <<"users", u>>
Following(u, t) == <<"user-following", u, t>>
Follower(t, u)  == <<"user-followers", t, u>>
FollowNotification(t, u, n) == <<"user-notifications", t, u, n>>
SenderOf(x) == x[3]

FollowNotifications(t, u) == {FollowNotification(t, u, n) : n \in 0..MaxOps}
NotificationsOf(t) == UNION {FollowNotifications(t, u) : u \in Users \ {t}}
Documents ==
    {UserDoc(u) : u \in Users}
    \cup {Following(x[1], x[2]) : x \in Users \X Users}
    \cup {Follower(x[1], x[2]) : x \in Users \X Users}
    \cup UNION {NotificationsOf(t) : t \in Users}

\* Notification(dictionary:) and User(dictionary:) start with "not followed".
NoNotes == [x \in {} |-> FALSE]
Blank   == [id |-> NoRow, userIsFollowed |-> FALSE, shown |-> FALSE]
Closed  == [open |-> FALSE, isFollowed |-> FALSE]

-----------------------------------------------------------------------------
\* Completion blocks, with what each captures.
CheckedProfile(d, t)    == [kind |-> "checkedProfile", d |-> d, t |-> t]
FetchedNotifications(d) == [kind |-> "fetchedNotifications", d |-> d]
CheckedRow(d, id)       == [kind |-> "checkedRow", d |-> d, id |-> id]
FetchedUser(d, t)       == [kind |-> "fetchedUser", d |-> d, t |-> t]
CheckedMenu(d, n)       == [kind |-> "checkedMenu", d |-> d, n |-> n]
FirstMarkDone(op)       == [kind |-> "firstMarkDone", op |-> op]
SecondMarkDone(op)      == [kind |-> "secondMarkDone", op |-> op]
FoundNotifications      == [kind |-> "foundNotifications"]

\* UserService.checkIfUserIsFollowed; the answer is whether the document exists.
Exists(d) == \E x \in DOMAIN Result(d) : Result(d)[x] # NoDoc
checkIfUserIsFollowed(d, t, then) == getDocument(Following(UidOf[d], t), then)

\* A variant with a bug, for the mutation runs: both marks are written at once.
followsUnchained(op) ==
    <<setData(Following(UidOf[op.d], op.t), Marked, NoThen),
      setData(Follower(op.t, UidOf[op.d]), Marked, SecondMarkDone(op))>>

\* UserService.follow and unfollow.
follow(op)   == <<setData(Following(UidOf[op.d], op.t), Marked, FirstMarkDone(op))>>
unfollow(op) == <<delete(Following(UidOf[op.d], op.t), FirstMarkDone(op))>>

\* The write chained on the answer to the first mark.
secondMark(op) ==
    IF op.follow
    THEN <<setData(Follower(op.t, UidOf[op.d]), Marked, SecondMarkDone(op))>>
    ELSE <<delete(Follower(op.t, UidOf[op.d]), SecondMarkDone(op))>>

\* NotificationService.uploadNotification, type .follow.
uploadNotification(op) ==
    IF op.t # UidOf[op.d]
    THEN <<setData(FollowNotification(op.t, UidOf[op.d], op.n), Marked, NoThen)>>
    ELSE <<>>

\* NotificationService.deleteNotification, type .follow: the query returns all
\* that the account ever sent to op.t.
deleteNotification(op) ==
    <<getDocuments(FollowNotifications(op.t, UidOf[op.d]), FoundNotifications)>>

\* NotificationService.fetchNotifications.
fetchNotifications(d) ==
    getDocuments(NotificationsOf(UidOf[d]), FetchedNotifications(d))

-----------------------------------------------------------------------------
\* The touch number ops + 1 on d calls follow or unfollow; from is the place
\* of the touch and c the cell that its completion block captures.
Operation(d, t, f, from, c) ==
    [d |-> d, t |-> t, follow |-> f, from |-> from, c |-> c, n |-> ops + 1]

Calls(op) == IF op.follow THEN follow(op) ELSE unfollow(op)

\* ProfileController.viewDidLoad.
openProfile(d, t) == profile' = [profile EXCEPT ![<<d, t>>] = [Closed EXCEPT !.open = TRUE]]

\* A profile is opened from the search screen.
showProfile(d, t) ==
    /\ <<d, t>> \in Profiles
    /\ ~profile[<<d, t>>].open /\ ~Awaited(d, FetchedUser(d, t))
    /\ openProfile(d, t)
    /\ Issue(d, <<>>, <<checkIfUserIsFollowed(d, t, CheckedProfile(d, t))>>)
    /\ UNCHANGED <<notes, cell, menu, hud, ops, crashes>>

\* The Follow/Following button of an open profile.
didTapActionButton(d, t) ==
    /\ <<d, t>> \in Profiles /\ profile[<<d, t>>].open
    /\ ops < MaxOps /\ ops' = ops + 1
    /\ Issue(d, Calls(Operation(d, t, ~profile[<<d, t>>].isFollowed, "profile", NoRow)), <<>>)
    /\ UNCHANGED <<profile, notes, cell, menu, hud, crashes>>

-----------------------------------------------------------------------------
\* notifications = ns, whose didSet reloads the table.
setNotes(d, ns) ==
    /\ notes' = [notes EXCEPT ![d] = ns]
    /\ \E f \in Layouts(Cells, DOMAIN ns, NoRow) :
         cell' = [cell EXCEPT ![d] = [c \in Cells |->
            IF f[c] = NoRow THEN [cell[d][c] EXCEPT !.shown = FALSE]
            ELSE [id |-> f[c], userIsFollowed |-> ns[f[c]], shown |-> TRUE]]]

\* Scrolling: a cell leaves the screen and is bound to a row that enters it.
cellForRowAt(d, c, id) ==
    /\ \A b \in Cells : ~(cell[d][b].shown /\ cell[d][b].id = id)
    /\ cell' = [cell EXCEPT ![d][c] = [id |-> id, userIsFollowed |-> notes[d][id], shown |-> TRUE]]
    /\ UNCHANGED <<docs, queue, gets, mainq, profile, notes, menu, hud, ops, crashes>>

\* Pull to refresh; the control ends at once, so it can be pulled again.
handleRefresh(d) ==
    /\ Len(gets[d]) + Len(mainq[d]) < MaxReads
    /\ setNotes(d, NoNotes)
    /\ Issue(d, <<>>, <<fetchNotifications(d)>>)
    /\ UNCHANGED <<profile, menu, hud, ops, crashes>>

\* A row is tapped: its sender is fetched, then shown.
didSelectRow(d, c) ==
    LET t == SenderOf(cell[d][c].id)
    IN  /\ <<d, t>> \in Profiles
        /\ ~profile[<<d, t>>].open /\ ~Awaited(d, FetchedUser(d, t))
        /\ ops < MaxOps /\ ops' = ops + 1
        /\ hud' = [hud EXCEPT ![d] = show(@, "notifications")]
        /\ Issue(d, <<>>, <<getDocument(UserDoc(t), FetchedUser(d, t))>>)
        /\ UNCHANGED <<profile, notes, cell, menu, crashes>>

\* The follow button of a row: NotificationCell.handleFollowTapped, then
\* cell(_:wantsToFollow:) or cell(_:wantsToUnfollow:).
handleFollowTapped(d, c) ==
    /\ ops < MaxOps /\ ops' = ops + 1
    /\ hud' = [hud EXCEPT ![d] = show(@, "notifications")]
    /\ Issue(d, Calls(Operation(d, SenderOf(cell[d][c].id),
                                ~cell[d][c].userIsFollowed, "row", c)), <<>>)
    /\ UNCHANGED <<profile, notes, cell, menu, crashes>>

-----------------------------------------------------------------------------
\* The options of a post of t: the alert is presented with Cancel only, and
\* gets its action when the server has answered.
wantsToShowOptions(d, t) ==
    /\ <<d, t>> \in FeedOwners
    /\ ops < MaxOps /\ ops' = ops + 1
    /\ menu' = [menu EXCEPT ![d] = [t |-> t, n |-> ops + 1, action |-> "none"]]
    /\ Issue(d, <<>>, <<checkIfUserIsFollowed(d, t, CheckedMenu(d, ops + 1))>>)
    /\ UNCHANGED <<profile, notes, cell, hud, crashes>>

\* Its action is chosen, and the alert goes away.
chooseAction(d) ==
    /\ menu[d] # NoMenu /\ menu[d].action # "none"
    /\ ops < MaxOps /\ ops' = ops + 1
    /\ menu' = [menu EXCEPT ![d] = NoMenu]
    /\ hud' = [hud EXCEPT ![d] = show(@, "feed")]
    /\ Issue(d, Calls(Operation(d, menu[d].t, menu[d].action = "follow", "menu", NoRow)), <<>>)
    /\ UNCHANGED <<profile, notes, cell, crashes>>

cancelMenu(d) ==
    /\ menu[d] # NoMenu
    /\ menu' = [menu EXCEPT ![d] = NoMenu]
    /\ UNCHANGED <<docs, queue, gets, mainq, profile, notes, cell, hud, ops, crashes>>

-----------------------------------------------------------------------------
\* ProfileController.checkIfUserIsFollowed.
checkedProfile(d) ==
    /\ Due(d, "checkedProfile")
    /\ profile' = [profile EXCEPT ![<<d, Block(d).t>>].isFollowed = Exists(d)]
    /\ Take(d, <<>>, <<>>)
    /\ UNCHANGED <<notes, cell, menu, hud, ops, crashes>>

\* NotificationsController.fetchNotifications: new rows, then one check each.
fetchedNotifications(d) ==
    /\ Due(d, "fetchedNotifications")
    /\ LET found == {x \in DOMAIN Result(d) : Result(d)[x] # NoDoc}
           ids   == SetToSeq(found)
       IN /\ setNotes(d, [x \in found |-> FALSE])
          /\ Take(d, <<>>, [i \in DOMAIN ids |->
                checkIfUserIsFollowed(d, SenderOf(ids[i]), CheckedRow(d, ids[i]))])
    /\ UNCHANGED <<profile, menu, hud, ops, crashes>>

\* NotificationsController.checkIfUserIsFollowed: the row, if it is still
\* listed, gets the answer, and all cells are bound again.
checkedRow(d) ==
    /\ Due(d, "checkedRow")
    /\ LET id == Block(d).id
       IN IF id \in DOMAIN notes[d]
          THEN setNotes(d, [notes[d] EXCEPT ![id] = Exists(d)])
          ELSE UNCHANGED <<notes, cell>>
    /\ Take(d, <<>>, <<>>)
    /\ UNCHANGED <<profile, menu, hud, ops, crashes>>

\* The sender of the tapped row has arrived: the loader is dismissed and the
\* profile is pushed.  UserService.fetchUser returns early if there is none.
fetchedUser(d) ==
    /\ Due(d, "fetchedUser")
    /\ LET t == Block(d).t
       IN IF Result(d)[UserDoc(t)] = NoDoc
          THEN Take(d, <<>>, <<>>) /\ UNCHANGED <<profile, hud>>
          ELSE /\ hud' = [hud EXCEPT ![d] = dismiss(@)]
               /\ openProfile(d, t)
               /\ Take(d, <<>>, <<checkIfUserIsFollowed(d, t, CheckedProfile(d, t))>>)
    /\ UNCHANGED <<notes, cell, menu, ops, crashes>>

\* The alert that asked gets its action, if it is still presented.
checkedMenu(d) ==
    /\ Due(d, "checkedMenu")
    /\ menu' = IF menu[d] = NoMenu \/ menu[d].n # Block(d).n THEN menu
               ELSE [menu EXCEPT ![d].action = IF Exists(d) THEN "unfollow" ELSE "follow"]
    /\ Take(d, <<>>, <<>>)
    /\ UNCHANGED <<profile, notes, cell, hud, ops, crashes>>

\* The first mark is answered, the error ignored: the second one is written.
firstMarkDone(d) ==
    /\ Due(d, "firstMarkDone")
    /\ Take(d, secondMark(Block(d).op), <<>>)
    /\ UNCHANGED <<profile, notes, cell, menu, hud, ops, crashes>>

\* A variant with a bug: the flag is toggled, as the rows do.
togglesFlag(d, op) == ~profile[<<d, op.t>>].isFollowed

\* What the profile's completion block assigns to user.isFollowed.
completedFlag(d, op) == op.follow

\* The second mark is answered: the profile takes the new value and notifies;
\* the row toggles the cell that was tapped, whatever it shows by now; these
\* and the menu dismiss the loader.
secondMarkDone(d) ==
    /\ Due(d, "secondMarkDone")
    /\ LET op == Block(d).op
       IN \/ /\ op.from = "profile"
             /\ profile' = [profile EXCEPT ![<<d, op.t>>].isFollowed = completedFlag(d, op)]
             /\ IF op.follow THEN Take(d, uploadNotification(op), <<>>)
                             ELSE Take(d, <<>>, deleteNotification(op))
             /\ UNCHANGED <<cell, hud>>
          \/ /\ op.from = "row"
             /\ cell' = [cell EXCEPT ![d][op.c].userIsFollowed = ~@]
             /\ hud' = [hud EXCEPT ![d] = dismiss(@)]
             /\ Take(d, <<>>, <<>>)
             /\ UNCHANGED profile
          \/ /\ op.from = "menu"
             /\ hud' = [hud EXCEPT ![d] = dismiss(@)]
             /\ Take(d, <<>>, <<>>)
             /\ UNCHANGED <<profile, cell>>
    /\ UNCHANGED <<notes, menu, ops, crashes>>

\* NotificationService.deleteNotification: what the query found is deleted.
foundNotifications(d) ==
    /\ Due(d, "foundNotifications")
    /\ LET found == {x \in DOMAIN Result(d) : Result(d)[x] # NoDoc}
       IN Take(d, IF found = {} THEN <<>> ELSE <<deleteAll(found, NoThen)>>, <<>>)
    /\ UNCHANGED <<profile, notes, cell, menu, hud, ops, crashes>>

MainQueue(d) ==
    /\ \/ checkedProfile(d) \/ fetchedNotifications(d) \/ checkedRow(d) \/ fetchedUser(d)
       \/ checkedMenu(d) \/ firstMarkDone(d) \/ secondMarkDone(d) \/ foundNotifications(d)
    /\ UNCHANGED past

-----------------------------------------------------------------------------
\* The loader's animation ends.
Animate(d) ==
    /\ Animating(hud[d])
    /\ hud' = [hud EXCEPT ![d] = animated(@)]
    /\ UNCHANGED <<docs, queue, gets, mainq, profile, notes, cell, menu, ops, crashes, past>>

\* The app on d is killed and started again.
Crash(d) ==
    /\ crashes < MaxCrashes
    /\ crashes' = crashes + 1
    /\ profile' = [x \in Profiles |-> IF x[1] = d THEN Closed ELSE profile[x]]
    /\ notes' = [notes EXCEPT ![d] = NoNotes]
    /\ cell' = [cell EXCEPT ![d] = [c \in Cells |-> Blank]]
    /\ menu' = [menu EXCEPT ![d] = NoMenu]
    /\ hud' = [hud EXCEPT ![d] = Hidden]
    /\ Restart(d, <<fetchNotifications(d)>>)
    /\ UNCHANGED <<ops, past>>

\* The network acts for d; no code of the application runs.
Deliver(d) == Network(d) /\ UNCHANGED <<profile, notes, cell, menu, hud, ops, crashes, past>>

\* The marks agree at the start, every follow has been notified, and every
\* device has just asked for its notifications.
Init ==
    /\ \E follows \in InitialFollows :
         docs = [x \in Documents |->
            CASE x[1] = "users" -> Marked
              [] x[1] = "user-following" -> IF <<x[2], x[3]>> \in follows THEN Marked ELSE NoDoc
              [] x[1] = "user-followers" -> IF <<x[3], x[2]>> \in follows THEN Marked ELSE NoDoc
              [] x[1] = "user-notifications" ->
                   IF <<x[3], x[2]>> \in follows /\ x[4] = 0 THEN Marked ELSE NoDoc]
    /\ queue = [d \in Devices |-> <<>>]
    /\ gets  = [d \in Devices |-> <<fetchNotifications(d)>>]
    /\ mainq = [d \in Devices |-> <<>>]
    /\ profile = [x \in Profiles |-> Closed]
    /\ notes = [d \in Devices |-> NoNotes]
    /\ cell  = [d \in Devices |-> [c \in Cells |-> Blank]]
    /\ menu  = [d \in Devices |-> NoMenu]
    /\ hud   = [d \in Devices |-> Hidden]
    /\ ops = 0
    /\ crashes = 0
    /\ past = {}

\* A touch, and whether it follows or unfollows from some place.
Remember(d, places) ==
    past' = past \cup places \cup (IF Quiet(d) /\ ~Animating(hud[d]) THEN {} ELSE {"haste"})

\* A presented alert takes all touches; the loader those of its view.
TouchRow(d) ==
    \/ handleRefresh(d) /\ Remember(d, {})
    \/ \E c \in Cells : cell[d][c].shown /\ didSelectRow(d, c) /\ Remember(d, {})
    \/ \E c \in Cells : cell[d][c].shown /\ handleFollowTapped(d, c) /\ Remember(d, {"row"})
    \/ \E c \in Cells : \E id \in DOMAIN notes[d] : cellForRowAt(d, c, id) /\ Remember(d, {})

Touch(d) ==
    \/ chooseAction(d) /\ Remember(d, {"menu"})
    \/ cancelMenu(d) /\ Remember(d, {})
    \/ /\ menu[d] = NoMenu
       /\ \/ \E t \in Users : showProfile(d, t) /\ Remember(d, {})
          \/ \E t \in Users : didTapActionButton(d, t) /\ Remember(d, {"profile"})
          \/ ~Blocks(hud[d], "notifications") /\ TouchRow(d)
          \/ /\ ~Blocks(hud[d], "feed")
             /\ \E t \in Users : wantsToShowOptions(d, t) /\ Remember(d, {})

Next == \E d \in Devices :
    Touch(d) \/ Deliver(d) \/ MainQueue(d) \/ Animate(d) \/ Crash(d)

Spec == Init /\ [][Next]_vars

(***************************************************************************)
(* Fairness: as for the likes, the SDK keeps at its oldest write and read  *)
(* and the main queue runs; animations end.  Nothing is assumed of the     *)
(* user.                                                                   *)
(***************************************************************************)
OldestRead(d) ==
    /\ gets[d] # <<>>
    /\ Resolve(d, 1)
    /\ UNCHANGED <<profile, notes, cell, menu, hud, ops, crashes, past>>

Fairness ==
    \A d \in Devices :
        /\ WF_vars(Commit(d) /\ UNCHANGED <<profile, notes, cell, menu, hud, ops, crashes, past>>)
        /\ WF_vars(OldestRead(d))
        /\ WF_vars(MainQueue(d))
        /\ WF_vars(Animate(d))

FairSpec == Spec /\ Fairness

-----------------------------------------------------------------------------
\* Typing of the variables.
FollowTypeOK ==
    /\ docs \in [Documents -> {Marked, NoDoc}]
    /\ DOMAIN queue = Devices /\ DOMAIN gets = Devices /\ DOMAIN mainq = Devices
    /\ profile \in [Profiles -> [open : BOOLEAN, isFollowed : BOOLEAN]]
    /\ \A d \in Devices :
         LET mine == NotificationsOf(UidOf[d])
         IN /\ DOMAIN notes[d] \subseteq mine
            /\ notes[d] \in [DOMAIN notes[d] -> BOOLEAN]
            /\ cell[d] \in [Cells ->
                 [id : mine \cup {NoRow}, userIsFollowed : BOOLEAN, shown : BOOLEAN]]
            /\ menu[d] \in [t : Users, n : 1..MaxOps, action : {"none", "follow", "unfollow"}]
                           \cup {NoMenu}
            /\ hud[d] \in Huds(Views)
    /\ ops \in 0..MaxOps
    /\ crashes \in 0..MaxCrashes
    /\ past \subseteq {"profile", "row", "menu", "haste"}

\* Does u follow t, by the list of u and by the list of t?
Follows(u, t)  == docs[Following(u, t)] # NoDoc
Followed(t, u) == docs[Follower(t, u)] # NoDoc

\* Once nothing is in flight, an open profile shows what the server stores,
\* although the answer to checkIfUserIsFollowed may come between the taps and
\* the completions that set the same flag.  Claimed as long as the profile is
\* the only place accounts are followed from.
ProfileTruthful ==
    past \subseteq {"profile", "haste"} => \A x \in Profiles : Quiet(x[1]) /\ profile[x].open =>
        (profile[x].isFollowed <=> Follows(UidOf[x[1]], x[2]))

\* Once nothing is in flight, nobody is told of a follower who is gone.  Only
\* ProfileController withdraws the notification, in a completion block, so this
\* is claimed as long as the profile is the only place and the app is not
\* killed.
NoPhantomFollower ==
    Quiescent /\ crashes = 0 /\ past \subseteq {"profile", "haste"} => \A t \in Users : \A x \in NotificationsOf(t) :
        docs[x] # NoDoc => Follows(SenderOf(x), t)

\* The menu never offers to follow an account that is followed already, or to
\* unfollow one that is not, as far as this device knows: it asks when it is
\* presented, and no touch gets past it until it is gone.
MenuTruthful ==
    \A d \in Devices : menu[d] # NoMenu /\ menu[d].action # "none" =>
        (menu[d].action = "unfollow" <=> View(d, Following(UidOf[d], menu[d].t)) # NoDoc)

\* Once nothing is in flight, the button of every visible row shows what the
\* server stores.  Claimed for a user who lets every touch settle, follows from
\* the rows only and has a cell for every row: the completion block toggles the
\* cell and leaves the list alone, so a row that scrolls out and in is stale.
RowsTruthful ==
    past \subseteq {"row"} => \A d \in Devices, c \in Cells : Quiet(d) /\ cell[d][c].shown =>
        (cell[d][c].userIsFollowed <=> Follows(UidOf[d], SenderOf(cell[d][c].id)))

\* Every place that offers to follow or to unfollow offers the right one, and
\* nobody is told of a follower who is gone, as far as each is claimed above.
FollowTruthful == ProfileTruthful /\ MenuTruthful /\ RowsTruthful /\ NoPhantomFollower

\* Will the completion block b dismiss the loader?
Dismisses(b) ==
    \/ b.kind = "fetchedUser"
    \/ b.kind \in {"firstMarkDone", "secondMarkDone"} /\ b.op.from # "profile"

\* A loader that stays until it is dismissed has a call in flight whose
\* completion dismisses it, although all calls share one loader and a show is
\* ignored while it is in a view.
LoaderHasOwner ==
    \A d \in Devices : Stays(hud[d]) =>
        \/ \E i \in DOMAIN queue[d] : queue[d][i].then # NoThen /\ Dismisses(queue[d][i].then)
        \/ \E i \in DOMAIN gets[d] : Dismisses(gets[d][i].then)
        \/ \E i \in DOMAIN mainq[d] : Dismisses(mainq[d][i].then)

\* The variables keep their types and no loader is left without an owner.
FollowInv == FollowTypeOK /\ LoaderHasOwner

\* When the touches stop, the loader goes away for good.
LoaderGoes == <>[](\A d \in Devices : hud[d] = Hidden)

-----------------------------------------------------------------------------
(***************************************************************************)
(* user-following and user-followers are paired marks; see Likes.          *)
(***************************************************************************)
Trail(u, t) ==
    IF \A d \in Devices : UidOf[d] # u THEN <<>>
    ELSE LET d  == CHOOSE d \in Devices : UidOf[d] = u
             ws == SelectSeq(queue[d], LAMBDA w : w.paths = {Follower(t, u)})
             bs == SelectSeq(mainq[d], LAMBDA b :
                      b.then.kind = "firstMarkDone" /\ b.then.op.t = t)
         IN  [i \in DOMAIN ws |-> ws[i].data # NoDoc]
             \o [i \in DOMAIN bs |-> bs[i].then.op.follow]

Pairs == INSTANCE PairedMarks WITH
    Keys   <- Users \X Users,
    first  <- [k \in Users \X Users |-> Follows(k[1], k[2])],
    second <- [k \in Users \X Users |-> Followed(k[2], k[1])],
    trail  <- [k \in Users \X Users |-> Trail(k[1], k[2])]

\* user-followers replays user-following, value by value, while calls from the
\* three places overlap (one device per account, nothing refused), until the app
\* is killed: the second write is made by a completion block of the first.
FollowsArePaired ==
    Pairs!Init /\ [][crashes' = 0 => Pairs!Next]_(Pairs!pairVars)
=============================================================================
