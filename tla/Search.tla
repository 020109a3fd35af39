------------------------------- MODULE Search -------------------------------
(***************************************************************************)
(* Lists of accounts: SearchController, and UserService.fetchUsers, which  *)
(* loads them all or, for the accounts someone follows or who like a post, *)
(* one by one, as the answers arrive.                                      *)
(*                                                                         *)
(* UITableView draws the rows it was told of by the last reloadData; a row *)
(* asked for or tapped later is looked up in the arrays as they are then.  *)
(***************************************************************************)
EXTENDS Firestore, FiniteSets

CONSTANTS Users,
          Members,     \* the documents of the collection that a configuration names
          Profile,     \* contents of users/uid
          Registered,  \* accounts with a document
          Texts, NoText,
          Matches,     \* text -> the accounts whose names contain it
          MaxTexts     \* bound: changes of the search text

ASSUME SearchAssumption ==
    /\ Members \subseteq Users /\ Registered \subseteq Users
    /\ NoText \notin Texts
    /\ Matches \in [Texts -> SUBSET Users]
    /\ MaxTexts \in Nat

VARIABLES config,    \* device -> the UserFilterConfig of its SearchController
          found,     \* device -> the array UserService.fetchUsers appends to
          users,     \* device -> SearchController.users
          filtered,  \* device -> SearchController.filteredUsers
          active,    \* device -> searchController.isActive
          text,      \* device -> the text of the search bar
          rows,      \* device -> the rows of the last reloadData
          chosen,    \* device -> the tapped row: what it showed, what was opened
          texts,
          failed     \* did a read ever fail?

appVars == <<config, found, users, filtered, active, text, rows, chosen, texts>>
vars == <<docs, queue, gets, mainq, appVars, failed>>

\* UserFilterConfig.
Configs == {"followers", "following", "likes", "all", "messages"}

UserDoc(u)   == <<"users", u>>
MemberDoc(u) == <<"members", u>>

FoundMembers   == [kind |-> "foundMembers"]
FetchedUser(u) == [kind |-> "fetchedUser", u |-> u]
FetchedAll     == [kind |-> "fetchedAll"]

InSearchMode(act, txt) == act /\ txt # NoText

\* The data source of the table.
DataSource(us, fs, act, txt) == IF InSearchMode(act, txt) THEN fs ELSE us

-----------------------------------------------------------------------------
\* UserService.fetchUsers(forConfig:).  For .followers the collection is
\* misspelt and has no documents.
fetchUsers(c) ==
    CASE c = "followers" -> <<getDocuments({}, FoundMembers)>>
      [] c \in {"following", "likes"} ->
            <<getDocuments({MemberDoc(u) : u \in Users}, FoundMembers)>>
      [] c \in {"all", "messages"} ->
            <<getDocuments({UserDoc(u) : u \in Users}, FetchedAll)>>

\* UserService.fetchUsers(fromCollection:): each account is looked up.
foundMembers(d) ==
    LET M == {u \in Users : MemberDoc(u) \in DOMAIN Result(d) /\ Result(d)[MemberDoc(u)] # NoDoc}
    IN  /\ Due(d, "foundMembers")
        /\ Take(d, <<>>, SetToSeq({getDocument(UserDoc(u), FetchedUser(u)) : u \in M}))
        /\ UNCHANGED appVars

\* A variant with a bug, for the mutation runs: the account just found replaces
\* the ones before.
keepsLast(d, us) ==
    /\ users' = [users EXCEPT ![d] = IF us = <<>> THEN us ELSE <<Last(us)>>]
    /\ rows' = [rows EXCEPT ![d] = DataSource(users'[d], filtered[d], active[d], text[d])]

\* The completion in SearchController.fetchUsers.
setUsers(d, us) ==
    /\ users' = [users EXCEPT ![d] = us]
    /\ rows' = [rows EXCEPT ![d] = DataSource(us, filtered[d], active[d], text[d])]

\* One of them is found; an account without a document is skipped.
fetchedUser(d) ==
    LET u == Block(d).u
    IN  /\ Due(d, "fetchedUser")
        /\ Take(d, <<>>, <<>>)
        /\ IF Result(d)[UserDoc(u)] = NoDoc THEN UNCHANGED <<found, users, rows>>
           ELSE /\ found' = [found EXCEPT ![d] = Append(@, u)]
                /\ setUsers(d, Append(found[d], u))
        /\ UNCHANGED <<config, filtered, active, text, chosen, texts>>

fetchedAll(d) ==
    LET U == {u \in Users : Result(d)[UserDoc(u)] # NoDoc}
    IN  /\ Due(d, "fetchedAll")
        /\ Take(d, <<>>, <<>>)
        /\ setUsers(d, SetToSeq(U))
        /\ UNCHANGED <<config, found, filtered, active, text, chosen, texts>>

MainQueue(d) == foundMembers(d) \/ fetchedUser(d) \/ fetchedAll(d)

-----------------------------------------------------------------------------
\* The accounts of us that match txt.  (Their order is that of us.)
Filter(us, txt) ==
    IF txt = NoText THEN us ELSE SelectSeq(us, LAMBDA u : u \in Matches[txt])

\* SearchController.updateSearchResults(for:), which UIKit calls whenever the
\* text or isActive changes.
updateSearchResults(d, act, txt) ==
    LET fs == Filter(users[d], txt)
    IN  /\ active' = [active EXCEPT ![d] = act]
        /\ text' = [text EXCEPT ![d] = txt]
        /\ filtered' = [filtered EXCEPT ![d] = fs]
        /\ rows' = [rows EXCEPT ![d] = DataSource(users[d], fs, act, txt)]
        /\ UNCHANGED <<docs, queue, gets, mainq, config, found, users, chosen>>

searchBarTextDidBeginEditing(d) ==
    /\ ~active[d] /\ texts < MaxTexts
    /\ texts' = texts + 1
    /\ updateSearchResults(d, TRUE, text[d])

\* The user edits the search text.
edit(d, txt) ==
    /\ active[d] /\ txt # text[d] /\ texts < MaxTexts
    /\ texts' = texts + 1
    /\ updateSearchResults(d, TRUE, txt)

searchBarCancelButtonClicked(d) ==
    /\ active[d]
    /\ updateSearchResults(d, FALSE, NoText)
    /\ UNCHANGED texts

\* A variant with a bug, for the mutation runs: the row of the whole list.
opensUnfiltered(d, i) == users[d][i]

\* The account whose screen a tap on row i opens.
selectedUser(d, i) ==
    IF config[d] = "messages" THEN users[d][i]
    ELSE DataSource(users[d], filtered[d], active[d], text[d])[i]

\* tableView(_:didSelectRowAt:)
didSelectRow(d, i) ==
    /\ chosen' = [chosen EXCEPT ![d] = <<rows[d][i], selectedUser(d, i)>>]
    /\ UNCHANGED <<docs, queue, gets, mainq, config, found, users, filtered, active, text, rows, texts>>

Deliver(d) ==
    /\ UNCHANGED appVars
    /\ \/ Serve(d) /\ UNCHANGED failed
       \/ Fail(d) /\ failed' = TRUE

Init ==
    /\ docs = [x \in {UserDoc(u) : u \in Users} \cup {MemberDoc(u) : u \in Users} |->
                 IF x \in {UserDoc(u) : u \in Registered} \cup {MemberDoc(u) : u \in Members}
                 THEN Profile ELSE NoDoc]
    /\ queue = [d \in Devices |-> <<>>]
    /\ config \in [Devices -> Configs]
    /\ gets  = [d \in Devices |-> fetchUsers(config[d])]
    /\ mainq = [d \in Devices |-> <<>>]
    /\ found = [d \in Devices |-> <<>>]
    /\ users = [d \in Devices |-> <<>>]
    /\ filtered = [d \in Devices |-> <<>>]
    /\ active = [d \in Devices |-> FALSE]
    /\ text  = [d \in Devices |-> NoText]
    /\ rows  = [d \in Devices |-> <<>>]
    /\ chosen = [d \in Devices |-> <<>>]
    /\ texts = 0
    /\ failed = FALSE

Touch(d) ==
    \/ searchBarTextDidBeginEditing(d) \/ searchBarCancelButtonClicked(d)
    \/ \E txt \in Texts \cup {NoText} : edit(d, txt)
    \/ \E i \in DOMAIN rows[d] : didSelectRow(d, i)

Next == \E d \in Devices : Deliver(d) \/ ((MainQueue(d) \/ Touch(d)) /\ UNCHANGED failed)

Spec == Init /\ [][Next]_vars

(***************************************************************************)
(* Fairness: reads are answered, oldest first, and the main queue runs.    *)
(***************************************************************************)
OldestRead(d) == gets[d] # <<>> /\ Resolve(d, 1) /\ UNCHANGED <<appVars, failed>>
FairSpec ==
    /\ Spec
    /\ \A d \in Devices : WF_vars(OldestRead(d)) /\ WF_vars(MainQueue(d) /\ UNCHANGED failed)

-----------------------------------------------------------------------------
\* Typing of the variables.
SearchTypeOK ==
    /\ config \in [Devices -> Configs] /\ failed \in BOOLEAN
    /\ \A d \in Devices :
        /\ users[d] \in Seq(Users) /\ filtered[d] \in Seq(Users) /\ rows[d] \in Seq(Users)
        /\ active[d] \in BOOLEAN
        /\ text[d] \in Texts \cup {NoText}

\* The rows the table draws are those of its data source, so that no row it
\* asks for or that is tapped is out of range, in whatever order accounts
\* arrive and the text changes.
RowsMatchData ==
    \A d \in Devices : rows[d] = DataSource(users[d], filtered[d], active[d], text[d])

\* A tap opens the account that its row shows.  (Not for .messages: there the
\* row is looked up in the unfiltered list.)
OpensWhatIsShown ==
    \A d \in Devices : chosen[d] # <<>> /\ config[d] # "messages" => chosen[d][1] = chosen[d][2]

\* The variables keep their types, the table is in step with its data, and taps
\* open what is shown.
SearchInv == SearchTypeOK /\ RowsMatchData /\ OpensWhatIsShown

\* The accounts a configuration is for: none for .followers, misspelt.
Listed(c) ==
    CASE c = "followers" -> {}
      [] c \in {"following", "likes"} -> Members \cap Registered
      [] c \in {"all", "messages"} -> Registered

\* In the end all of these are listed, each once, however the answers are
\* ordered; unless a read failed, which is not repeated.
EventuallyComplete ==
    <>[](failed \/ \A d \in Devices :
            Range(users[d]) = Listed(config[d]) /\ IsInjective(users[d]))
=============================================================================
