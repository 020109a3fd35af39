---------------------------- MODULE EditProfile ----------------------------
(***************************************************************************)
(* Changing one's picture, full name and user name: EditProfileController, *)
(* ProfileController as its delegate, UserService.updateProfileImage and   *)
(* UserService.saveUserData.                                               *)
(*                                                                         *)
(* Of the documents only the picture's URL is modelled: profileImageUrl of *)
(* the account and ownerImageUrl of its posts.  The URL is kept in four    *)
(* places: those documents, the profile screen's copy of the user and the  *)
(* edit screen's; the picture it leads to is in Storage.  The loader is in *)
(* the edit screen's table, so the buttons of the navigation bar (Cancel,  *)
(* Done) can be tapped while a save is in flight.                          *)
(***************************************************************************)
EXTENDS Firestore, Loader, FiniteSets

CONSTANTS Posts,       \* the posts of the account
          MaxScreens,  \* bound: times the edit screen is opened
          MaxDone      \* bound: taps on Done

ASSUME EditAssumption ==
    /\ MaxScreens \in Nat /\ MaxDone \in Nat
    /\ NoDoc \notin Nat
    /\ NoThen \notin [kind : {"saved"}, k : 1..MaxScreens, more : BOOLEAN]
    /\ NoThen \notin [kind : {"updated"}, k : 1..MaxScreens, img : Nat]
    /\ NoView # "edit"
    /\ Failures \in BOOLEAN

VARIABLES storage,  \* Storage: the pictures there
          calls,    \* device -> unanswered calls to Storage
          profile,  \* device -> profileImageUrl in ProfileController.user
          edits,    \* device -> its EditProfileControllers, oldest first
          open,     \* device -> is the last of them presented?
          hud,      \* device -> the loader
          uploads,  \* pictures uploaded so far
          dones,
          haste     \* what was tapped so far while a save was in flight: "screen" to
                    \* open or leave the edit screen, "done" to save again

appVars == <<storage, calls, profile, edits, open, hud, uploads, dones>>
vars == <<docs, queue, gets, mainq, appVars, haste>>

\* Pictures are numbered; every upload has a new name.
Images    == 0..uploads
UserDoc   == <<"users">>
PostDoc(p) == <<"posts", p>>
PostDocs  == {PostDoc(p) : p \in Posts}

\* image: user.profileImageUrl; selected: selectedImage # nil; changed:
\* userInfoChanged.
Screen(img) == [image |-> img, selected |-> FALSE, changed |-> FALSE]

\* Completion blocks of the k-th edit screen.
Saved(k, more)    == [kind |-> "saved", k |-> k, more |-> more]
Uploaded(k, img)  == [kind |-> "uploaded", k |-> k, img |-> img]
Updated(k, img)   == [kind |-> "updated", k |-> k, img |-> img]
FoundPosts(img)   == [kind |-> "foundPosts", img |-> img]

Settled(d) == Quiet(d) /\ calls[d] = <<>> /\ ~Animating(hud[d])

-----------------------------------------------------------------------------
(***************************************************************************)
(* Storage (external): calls are answered in any order, and may fail; the  *)
(* completion block of a failed upload is not run (ImageUploader), nobody  *)
(* waits for a deletion.                                                   *)
(***************************************************************************)
StorageAnswer(d, i) ==
    LET c == calls[d][i]
    IN \E ok \in BOOLEAN :
        /\ ~ok => Failures
        /\ calls' = [calls EXCEPT ![d] = RemoveAt(@, i)]
        /\ storage' = CASE ~ok -> storage
                        [] ok /\ c.op = "delete" -> storage \ {c.img}
                        [] ok /\ c.op = "upload" -> storage \cup {c.img}
        /\ mainq' = IF ok /\ c.op = "upload"
                    THEN [mainq EXCEPT ![d] = Append(@, [then |-> Uploaded(c.k, c.img), res |-> TRUE])]
                    ELSE mainq
        /\ UNCHANGED <<docs, queue, gets, profile, edits, open, hud, uploads, dones>>

-----------------------------------------------------------------------------
\* A variant with a bug, for the mutation runs: the new picture is deleted.
deletesNew(d, k) ==
    /\ uploads' = uploads + 1
    /\ calls' = [calls EXCEPT ![d] = @ \o
         <<[op |-> "delete", img |-> uploads + 1, k |-> k],
           [op |-> "upload", img |-> uploads + 1, k |-> k]>>]

\* UserService.updateProfileImage: the old picture is deleted, and the new
\* one uploaded, without waiting for one another.
updateProfileImage(d, k) ==
    /\ uploads' = uploads + 1
    /\ calls' = [calls EXCEPT ![d] = @ \o
         <<[op |-> "delete", img |-> edits[d][k].image, k |-> k],
           [op |-> "upload", img |-> uploads + 1, k |-> k]>>]

\* UserService.saveUserData stores the whole user, the screen's copy of the
\* picture's URL included.
saveUserData(d, k, more) ==
    <<setData(UserDoc, edits[d][k].image, Saved(k, more))>>

\* ProfileController.showEditProfileController.
showEditProfileController(d) ==
    /\ ~open[d] /\ Len(edits[d]) < MaxScreens
    /\ open' = [open EXCEPT ![d] = TRUE]
    /\ edits' = [edits EXCEPT ![d] = Append(@, Screen(profile[d]))]
    /\ UNCHANGED <<docs, queue, gets, mainq, storage, calls, profile, hud, uploads, dones>>

handleCancel(d) ==
    /\ open[d]
    /\ open' = [open EXCEPT ![d] = FALSE]
    /\ UNCHANGED <<docs, queue, gets, mainq, storage, calls, profile, edits, hud, uploads, dones>>

\* A picture is picked: imagePickerController(_:didFinishPickingMediaWithInfo:).
didFinishPickingMedia(d) ==
    /\ open[d] /\ ~Last(edits[d]).selected
    /\ edits' = [edits EXCEPT ![d][Len(edits[d])].selected = TRUE]
    /\ UNCHANGED <<docs, queue, gets, mainq, storage, calls, profile, open, hud, uploads, dones>>

\* A name is edited; nothing ever resets userInfoChanged.
updateUserInfo(d) ==
    /\ open[d] /\ ~Last(edits[d]).changed
    /\ edits' = [edits EXCEPT ![d][Len(edits[d])].changed = TRUE]
    /\ UNCHANGED <<docs, queue, gets, mainq, storage, calls, profile, open, hud, uploads, dones>>

\* handleDone, updateUserData.
handleDone(d) ==
    LET k == Len(edits[d])
        e == edits[d][k]
    IN  /\ open[d] /\ dones < MaxDone
        /\ e.selected \/ e.changed
        /\ dones' = dones + 1
        /\ hud' = [hud EXCEPT ![d] = show(@, "edit")]
        /\ IF e.changed
           THEN /\ Issue(d, saveUserData(d, k, e.selected), <<>>)
                /\ UNCHANGED <<calls, uploads>>
           ELSE updateProfileImage(d, k) /\ UNCHANGED <<docs, queue, gets, mainq>>
        /\ UNCHANGED <<storage, profile, edits, open>>

-----------------------------------------------------------------------------
\* ProfileController.controller(_:wantsToUpdate:).
wantsToUpdate(d, k, img) ==
    /\ open' = [open EXCEPT ![d] = @ /\ k # Len(edits[d])]
    /\ profile' = [profile EXCEPT ![d] = img]

\* The completion of saveUserData, which ignores errors.
saved(d) ==
    LET k == Block(d).k
    IN  /\ Due(d, "saved")
        /\ Take(d, <<>>, <<>>)
        /\ IF Block(d).more
           THEN /\ updateProfileImage(d, k)
                /\ hud' = [hud EXCEPT ![d] = show(@, "edit")]
                /\ UNCHANGED <<profile, open>>
           ELSE /\ hud' = [hud EXCEPT ![d] = dismiss(@)]
                /\ wantsToUpdate(d, k, edits[d][k].image)
                /\ UNCHANGED <<calls, uploads>>
        /\ UNCHANGED <<storage, edits, dones>>

\* The picture is in Storage: the account is updated.
uploaded(d) ==
    LET b == Block(d)
    IN  /\ Due(d, "uploaded")
        /\ Take(d, <<Write({UserDoc}, b.img, TRUE, Updated(b.k, b.img))>>, <<>>)
        /\ UNCHANGED appVars

\* The account is updated: so are its posts, without anybody waiting.
updated(d) ==
    LET b == Block(d)
    IN  /\ Due(d, "updated")
        /\ hud' = [hud EXCEPT ![d] = dismiss(@)]
        /\ IF Result(d)
           THEN /\ Take(d, <<>>, <<getDocuments(PostDocs, FoundPosts(b.img))>>)
                /\ edits' = [edits EXCEPT ![d][b.k].image = b.img]
                /\ wantsToUpdate(d, b.k, b.img)
           ELSE Take(d, <<>>, <<>>) /\ UNCHANGED <<edits, profile, open>>
        /\ UNCHANGED <<storage, calls, uploads, dones>>

\* A variant with a bug, for the mutation runs: one post is left out.
updatesSome(d) ==
    /\ Due(d, "foundPosts")
    /\ Take(d, <<Write({CHOOSE x \in PostDocs : TRUE}, Block(d).img, TRUE, NoThen)>>, <<>>)
    /\ UNCHANGED appVars

foundPosts(d) ==
    /\ Due(d, "foundPosts")
    /\ Take(d, IF PostDocs = {} THEN <<>> ELSE <<Write(PostDocs, Block(d).img, TRUE, NoThen)>>, <<>>)
    /\ UNCHANGED appVars

MainQueue(d) == saved(d) \/ uploaded(d) \/ updated(d) \/ foundPosts(d)

Animate(d) ==
    /\ Animating(hud[d])
    /\ hud' = [hud EXCEPT ![d] = animated(@)]
    /\ UNCHANGED <<docs, queue, gets, mainq, storage, calls, profile, edits, open, uploads, dones>>

Deliver(d) == Network(d) /\ UNCHANGED appVars

-----------------------------------------------------------------------------
Init ==
    /\ docs = [x \in {UserDoc} \cup PostDocs |-> 0]
    /\ storage = {0}
    /\ queue = [d \in Devices |-> <<>>]
    /\ gets  = [d \in Devices |-> <<>>]
    /\ mainq = [d \in Devices |-> <<>>]
    /\ calls = [d \in Devices |-> <<>>]
    /\ profile = [d \in Devices |-> 0]
    /\ edits = [d \in Devices |-> <<>>]
    /\ open  = [d \in Devices |-> FALSE]
    /\ hud   = [d \in Devices |-> Hidden]
    /\ uploads = 0 /\ dones = 0
    /\ haste = {}

Remember(d, tap) == haste' = IF Settled(d) THEN haste ELSE haste \cup {tap}

Touch(d) ==
    \/ (showEditProfileController(d) \/ handleCancel(d)) /\ Remember(d, "screen")
    \/ (didFinishPickingMedia(d) \/ updateUserInfo(d)) /\ UNCHANGED haste
    \/ handleDone(d) /\ Remember(d, "done")

Step(d) ==
    \/ Deliver(d) \/ MainQueue(d) \/ Animate(d)
    \/ \E i \in DOMAIN calls[d] : StorageAnswer(d, i)

Next == \E d \in Devices : Touch(d) \/ (Step(d) /\ UNCHANGED haste)

Spec == Init /\ [][Next]_vars

-----------------------------------------------------------------------------
\* Typing of the variables.
EditTypeOK ==
    /\ docs \in [{UserDoc} \cup PostDocs -> Images]
    /\ storage \subseteq Images
    /\ profile \in [Devices -> Images]
    /\ \A d \in Devices :
          /\ edits[d] \in Seq([image : Images, selected : BOOLEAN, changed : BOOLEAN])
          /\ open[d] => edits[d] # <<>>
          /\ hud[d] \in Huds({"edit"})
    /\ haste \subseteq {"screen", "done"}

\* When nothing is in flight the account's picture is in Storage, although
\* the old picture is deleted before the new one is uploaded, saveUserData
\* writes a URL copied earlier, and Done may be tapped again meanwhile.  The
\* edit screen must not be left or opened while a save is in flight, and no
\* call may fail: otherwise the account is left with a deleted picture.
ImageAvailable ==
    "screen" \notin haste => \A d \in Devices : Settled(d) => docs[UserDoc] \in storage

\* When nothing is in flight the profile screen shows the account's picture,
\* in whichever order the saves were answered, with the same exception.
ProfileCurrent ==
    "screen" \notin haste => \A d \in Devices : Settled(d) => profile[d] = docs[UserDoc]

\* Users who let every touch settle have the same picture on their posts.
\* (Two saves in flight may update the posts in the other order.)
PostsShowImage ==
    haste = {} => \A d \in Devices : Settled(d) => \A x \in PostDocs : docs[x] = docs[UserDoc]

\* The profile and the posts show the account's picture, as claimed above.
PicturesAgree == ProfileCurrent /\ PostsShowImage

\* A loader that stays has a save that will dismiss it, whatever is tapped.
EditLoaderHasOwner ==
    \A d \in Devices : Stays(hud[d]) =>
        \/ \E i \in DOMAIN calls[d] : calls[d][i].op = "upload"
        \/ \E i \in DOMAIN queue[d] : queue[d][i].then # NoThen
        \/ \E i \in DOMAIN mainq[d] : mainq[d][i].then.kind # "foundPosts"

\* The variables keep their types and no loader is left without an owner.
EditInv == EditTypeOK /\ EditLoaderHasOwner
=============================================================================
