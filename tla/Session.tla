------------------------------- MODULE Session -------------------------------
(***************************************************************************)
(* Signing in, signing up and signing out: LoginViewController,            *)
(* RegisterationViewController, ResetPasswordController, AuthService,      *)
(* ImageUploader and MainTabController.                                    *)
(*                                                                         *)
(* An account exists twice: with Firebase Auth, which also remembers who   *)
(* is signed in, and as the document users/uid, which the tabs are built   *)
(* from.  Nothing disables a button while a call is in flight.             *)
(***************************************************************************)
EXTENDS Firestore, FiniteSets

CONSTANTS Users,
          NoUser,
          Profile,          \* contents of users/uid
          InitialAccounts,  \* the accounts that exist at the start
          MaxOps,           \* bound: touches that call a service, and sign-outs
          MaxCrashes        \* bound: times an app is killed

ASSUME SessionAssumption ==
    /\ NoUser \notin Users /\ Profile # NoDoc
    /\ InitialAccounts \subseteq Users
    /\ MaxOps \in Nat /\ MaxCrashes \in Nat
    /\ Failures \in BOOLEAN
    /\ \A u \in Users : NoThen # [kind |-> "registered", u |-> u]

VARIABLES accounts,  \* Firebase Auth: the accounts that exist
          current,   \* device -> Auth.auth().currentUser, kept across launches
          calls,     \* device -> unanswered calls to Firebase Auth and Storage
          tabUser,   \* device -> MainTabController.user, whose tabs are shown
          modal,     \* device -> the screen presented over the tabs, if any
          ops, crashes,
          hasty,     \* was a screen ever touched before all was answered?
          failed     \* did a service ever fail?

appVars == <<accounts, current, calls, tabUser, modal, ops, crashes>>
history == <<hasty, failed>>
vars == <<docs, queue, gets, mainq, appVars, history>>

Modals == {"none", "login", "register", "reset"}
UserDoc(u) == <<"users", u>>

\* Completion blocks.
SignedIn(u)    == [kind |-> "signedIn", u |-> u]
Uploaded(u)    == [kind |-> "uploaded", u |-> u]
Created(u)     == [kind |-> "created", u |-> u]
Registered(u)  == [kind |-> "registered", u |-> u]
ResetSent(u)   == [kind |-> "resetSent", u |-> u]
FetchedUser(u) == [kind |-> "fetchedUser", u |-> u]

-----------------------------------------------------------------------------
(***************************************************************************)
(* Firebase Auth and Storage (external).  A call is answered once, in any  *)
(* order, and may fail; signIn needs the account, createUser must not find *)
(* it.  Either signs the account in before its completion block runs.      *)
(***************************************************************************)
Possible(b) ==
    CASE b.kind = "signedIn"  -> b.u \in accounts
      [] b.kind = "created"   -> b.u \notin accounts
      [] b.kind = "uploaded"  -> TRUE
      [] b.kind = "resetSent" -> b.u \in accounts

AuthAnswer(d, i) ==
    LET b == calls[d][i]
    IN \E ok \in BOOLEAN :
        /\ ok => Possible(b)
        /\ ~ok => Failures \/ ~Possible(b)
        /\ accounts' = IF ok /\ b.kind = "created" THEN accounts \cup {b.u} ELSE accounts
        /\ current' = IF ok /\ b.kind \in {"signedIn", "created"}
                      THEN [current EXCEPT ![d] = b.u] ELSE current
        /\ calls' = [calls EXCEPT ![d] = RemoveAt(@, i)]
        /\ mainq' = [mainq EXCEPT ![d] = Append(@, [then |-> b, res |-> ok])]
        /\ failed' = (failed \/ (~ok /\ Possible(b)))
        /\ UNCHANGED <<docs, queue, gets, tabUser, modal, ops, crashes, hasty>>

\* A handler on d calls Auth or Storage; then is the completion block.
Call(d, then) == calls' = [calls EXCEPT ![d] = Append(@, then)]

Settled(d) == Quiet(d) /\ calls[d] = <<>>

-----------------------------------------------------------------------------
\* One touch that calls a service.
Tap == ops < MaxOps /\ ops' = ops + 1

\* LoginViewController.handleLogin, with a form that is filled in.
handleLogin(d, u) ==
    /\ modal[d] = "login"
    /\ Tap
    /\ Call(d, SignedIn(u))
    /\ UNCHANGED <<docs, queue, gets, mainq, accounts, current, tabUser, modal, crashes>>

\* RegisterationViewController.handleSignUp: AuthService.registerUser starts
\* with the picture.
handleSignUp(d, u) ==
    /\ modal[d] = "register"
    /\ Tap
    /\ Call(d, Uploaded(u))
    /\ UNCHANGED <<docs, queue, gets, mainq, accounts, current, tabUser, modal, crashes>>

\* ResetPasswordController.handleResetPassword.  Nobody is the delegate, so
\* the screen stays.
handleResetPassword(d, u) ==
    /\ modal[d] = "reset"
    /\ Tap
    /\ Call(d, ResetSent(u))
    /\ UNCHANGED <<docs, queue, gets, mainq, accounts, current, tabUser, modal, crashes>>

Navigate(d, from, to) ==
    /\ modal[d] = from
    /\ modal' = [modal EXCEPT ![d] = to]
    /\ UNCHANGED <<docs, queue, gets, mainq, accounts, current, calls, tabUser, ops, crashes>>

\* From the login screen and back to it.
handleShowSignUp(d)         == Navigate(d, "login", "register")
handleShowLogin(d)          == Navigate(d, "register", "login")
handleShowForgotPassword(d) == Navigate(d, "login", "reset")
handleDismissal(d)          == Navigate(d, "reset", "login")

\* FeedController.handleLogout: its button is on the tabs.
handleLogout(d) ==
    /\ modal[d] = "none" /\ tabUser[d] # NoUser
    /\ Tap
    /\ current' = [current EXCEPT ![d] = NoUser]
    /\ modal' = [modal EXCEPT ![d] = "login"]
    /\ UNCHANGED <<docs, queue, gets, mainq, accounts, calls, tabUser, crashes>>

-----------------------------------------------------------------------------
\* Variants with a bug, for the mutation runs: the user is not fetched; the
\* profile is not stored.
fetchesNobody(d) == <<>>
storesNothing(u) == <<>>

\* MainTabController.fetchUser: whoever is signed in now.
fetchUser(d) ==
    IF current[d] = NoUser THEN <<>>
    ELSE <<getDocument(UserDoc(current[d]), FetchedUser(current[d]))>>

\* The document that AuthService.registerUser stores.
storeUser(u) == <<setData(UserDoc(u), Profile, Registered(u))>>

\* A variant with a bug, for the mutation runs: the user is not fetched.
dismissesOnly(d) ==
    /\ Take(d, <<>>, <<>>)
    /\ modal' = [modal EXCEPT ![d] = "none"]

\* MainTabController.authenticationDidComplete, called by a completion block:
\* the user is fetched and whatever is presented goes away.
authenticationDidComplete(d) ==
    /\ Take(d, <<>>, fetchUser(d))
    /\ modal' = [modal EXCEPT ![d] = "none"]

\* The answer to the sign-in; an error is only displayed.
signedIn(d) ==
    /\ Due(d, "signedIn")
    /\ IF Result(d) THEN authenticationDidComplete(d)
                    ELSE Take(d, <<>>, <<>>) /\ UNCHANGED modal
    /\ UNCHANGED <<accounts, current, calls, tabUser, ops, crashes>>

\* The picture is stored: the account is created.
uploaded(d) ==
    /\ Due(d, "uploaded")
    /\ Take(d, <<>>, <<>>)
    /\ IF Result(d) THEN Call(d, Created(Block(d).u)) ELSE UNCHANGED calls
    /\ UNCHANGED <<accounts, current, tabUser, modal, ops, crashes>>

\* The account is created: its document is stored.
created(d) ==
    /\ Due(d, "created")
    /\ Take(d, IF Result(d) THEN storeUser(Block(d).u) ELSE <<>>, <<>>)
    /\ UNCHANGED <<accounts, current, calls, tabUser, modal, ops, crashes>>

\* The document is stored.
registered(d) ==
    /\ Due(d, "registered")
    /\ IF Result(d) THEN authenticationDidComplete(d)
                    ELSE Take(d, <<>>, <<>>) /\ UNCHANGED modal
    /\ UNCHANGED <<accounts, current, calls, tabUser, ops, crashes>>

\* The answer to the reset; an error is only displayed.
resetSent(d) ==
    /\ Due(d, "resetSent")
    /\ Take(d, <<>>, <<>>)
    /\ UNCHANGED appVars

\* A variant with a bug, for the mutation runs: the user is set although there
\* is no document.
setsAnyway(d) ==
    /\ Due(d, "fetchedUser")
    /\ tabUser' = [tabUser EXCEPT ![d] = Block(d).u]
    /\ Take(d, <<>>, <<>>)
    /\ UNCHANGED <<accounts, current, calls, modal, ops, crashes>>

\* The tabs of the account u take the place of those that were there.
configureViewControllers(d, u) == tabUser' = [tabUser EXCEPT ![d] = u]

\* MainTabController.user is set, unless there is no document.
fetchedUser(d) ==
    /\ Due(d, "fetchedUser")
    /\ IF Result(d)[UserDoc(Block(d).u)] = NoDoc THEN UNCHANGED tabUser
       ELSE configureViewControllers(d, Block(d).u)
    /\ Take(d, <<>>, <<>>)
    /\ UNCHANGED <<accounts, current, calls, modal, ops, crashes>>

MainQueue(d) ==
    \/ signedIn(d) \/ uploaded(d) \/ created(d) \/ registered(d)
    \/ resetSent(d) \/ fetchedUser(d)

-----------------------------------------------------------------------------
\* MainTabController.viewDidLoad: log in if nobody is, and fetch the user.
checkIfUserIsLoggedIn(u) == IF u = NoUser THEN "login" ELSE "none"

\* The app on d is killed and started again; Auth remembers who is signed in.
Crash(d) ==
    /\ crashes < MaxCrashes
    /\ crashes' = crashes + 1
    /\ calls' = [calls EXCEPT ![d] = <<>>]
    /\ tabUser' = [tabUser EXCEPT ![d] = NoUser]
    /\ modal' = [modal EXCEPT ![d] = checkIfUserIsLoggedIn(current[d])]
    /\ Restart(d, fetchUser(d))
    /\ UNCHANGED <<accounts, current, ops>>

Deliver(d) ==
    /\ UNCHANGED <<appVars, hasty>>
    /\ \/ Serve(d) /\ UNCHANGED failed
       \/ Fail(d) /\ failed' = TRUE

\* Every account has its document, and the app has just been launched.
Init ==
    /\ accounts = InitialAccounts
    /\ docs = [x \in {UserDoc(u) : u \in Users} |->
                 IF x[2] \in InitialAccounts THEN Profile ELSE NoDoc]
    /\ current \in [Devices -> InitialAccounts \cup {NoUser}]
    /\ queue = [d \in Devices |-> <<>>]
    /\ gets  = [d \in Devices |-> fetchUser(d)]
    /\ mainq = [d \in Devices |-> <<>>]
    /\ calls = [d \in Devices |-> <<>>]
    /\ tabUser = [d \in Devices |-> NoUser]
    /\ modal = [d \in Devices |-> checkIfUserIsLoggedIn(current[d])]
    /\ ops = 0
    /\ crashes = 0
    /\ hasty = FALSE
    /\ failed = FALSE

Touch(d) ==
    /\ hasty' = (hasty \/ \E e \in Devices : ~Settled(e))
    /\ UNCHANGED failed
    /\ \/ \E u \in Users : handleLogin(d, u) \/ handleSignUp(d, u) \/ handleResetPassword(d, u)
       \/ handleShowSignUp(d) \/ handleShowLogin(d)
       \/ handleShowForgotPassword(d) \/ handleDismissal(d)
       \/ handleLogout(d)

Next == \E d \in Devices :
    \/ Touch(d) \/ Deliver(d)
    \/ (MainQueue(d) \/ Crash(d)) /\ UNCHANGED history
    \/ \E i \in DOMAIN calls[d] : AuthAnswer(d, i)

Spec == Init /\ [][Next]_vars

(***************************************************************************)
(* Fairness: calls, writes and reads are answered, oldest first, and the   *)
(* main queue runs.  Nothing is assumed of the user.                       *)
(***************************************************************************)
OldestCall(d) == calls[d] # <<>> /\ AuthAnswer(d, 1)
OldestRead(d) == gets[d] # <<>> /\ Resolve(d, 1) /\ UNCHANGED <<appVars, history>>

Fairness ==
    \A d \in Devices :
        /\ WF_vars(OldestCall(d))
        /\ WF_vars(Commit(d) /\ UNCHANGED <<appVars, history>>)
        /\ WF_vars(OldestRead(d))
        /\ WF_vars(MainQueue(d) /\ UNCHANGED history)

FairSpec == Spec /\ Fairness

-----------------------------------------------------------------------------
\* Typing of the variables.
SessionTypeOK ==
    /\ accounts \subseteq Users
    /\ docs \in [{UserDoc(u) : u \in Users} -> {Profile, NoDoc}]
    /\ current \in [Devices -> Users \cup {NoUser}]
    /\ tabUser \in [Devices -> Users \cup {NoUser}]
    /\ modal \in [Devices -> Modals]
    /\ ops \in 0..MaxOps /\ crashes \in 0..MaxCrashes
    /\ hasty \in BOOLEAN /\ failed \in BOOLEAN

\* Whoever the tabs belong to has a document, as far as the device knows (it
\* may still be queued there after a crash): fetchUser returns early if not.
\* Not after a write that was queued is refused.
TabsHaveProfile ==
    ~failed => \A d \in Devices : tabUser[d] # NoUser => View(d, UserDoc(tabUser[d])) # NoDoc

\* The variables keep their types and no tabs lack a document.
SessionInv == SessionTypeOK /\ TabsHaveProfile

\* Users who let every touch settle never see the tabs while signed out,
\* whatever the services answer and wherever the app is killed.
LoginIsAsked ==
    ~hasty => \A d \in Devices : modal[d] = "none" => current[d] # NoUser

\* Once nothing is in flight, every account has its document, although it is
\* stored only after the account is created and taps may be repeated.  (Not
\* after a crash or an error in between: registerUser leaves the account.)
AccountsHaveProfiles ==
    crashes = 0 /\ ~failed /\ (\A d \in Devices : Settled(d)) => \A u \in accounts : docs[UserDoc(u)] # NoDoc

\* Users who let every touch settle see the tabs of the account that is signed
\* in, if that account has a document (it has none after a crash between
\* createUser and setData).  Not after a failed read: it is not repeated.
TabsAreCurrent ==
    ~hasty /\ ~failed => \A d \in Devices :
        Settled(d) /\ modal[d] = "none" /\ docs[UserDoc(current[d])] # NoDoc
            => tabUser[d] = current[d]

\* What users who wait are shown is for the account that is signed in.
ScreensTruthful == LoginIsAsked /\ TabsAreCurrent

\* Whoever is signed in with nothing presented gets to see tabs, as long as
\* no service fails, no app is killed and no other device has the account: one
\* may sign in to it before its document is stored, and does not ask again.
TabsAppear ==
    \A d \in Devices : (modal[d] = "none" /\ current[d] # NoUser)
        ~> \/ tabUser[d] # NoUser
           \/ failed \/ crashes > 0
           \/ \E e \in Devices \ {d} : current[e] = current[d]
=============================================================================
