------------------------------ MODULE Messages ------------------------------
(***************************************************************************)
(* Direct messages between two accounts: ChatController,                   *)
(* ConversationsController and MessagingService.                           *)
(*                                                                         *)
(* A message is stored four times: a copy for each account and, for each,  *)
(* the most recent message of the conversation.  The sender's copy is      *)
(* written first, the others when the server has answered.                 *)
(* (FeedController.showMessages, which leads to these screens, is bound to *)
(* no button at present.)                                                  *)
(***************************************************************************)
EXTENDS Firestore, Loader, FiniteSets

CONSTANTS Users,
          UidOf,        \* device -> the account signed in there
          Partner,      \* account -> the other account of the conversation
          NoMessage,
          MaxMessages,  \* bound: taps on Send
          MaxTexts,     \* bound: texts typed
          MaxChats,     \* bound: taps that open the chat
          MaxCrashes    \* bound: times an app is killed

ASSUME MessagesAssumption ==
    /\ UidOf \in [Devices -> Users] /\ Partner \in [Users -> Users]
    /\ \A u \in Users : Partner[u] # u /\ Partner[Partner[u]] = u
    /\ MaxMessages \in Nat /\ MaxTexts \in Nat /\ MaxChats \in Nat /\ MaxCrashes \in Nat
    /\ Failures \in BOOLEAN
    /\ NoDoc \notin 1..MaxMessages /\ NoDoc \notin [fromId : Users, text : 0..MaxTexts]
    /\ NoThen \notin [kind : {"sentCopy"}, m : 1..MaxMessages, t : 0..MaxTexts, bar : 0..MaxChats]
    /\ NoThen \notin [kind : {"delivered"}, m : 1..MaxMessages, bar : 0..MaxChats]
    /\ NoView # "conversations"

VARIABLES conv,     \* device -> conversationsDictionary[partner]
          chat,     \* device -> the chat screen: "none", "loading", "loaded"
          list,     \* device -> its messages
          heard,    \* device -> the messages in its listener's last snapshot
          bar,      \* device -> the number of that screen's input bar
          draft,    \* device -> the text in it, 0 when empty
          hud,      \* device -> the loader
          sent, typed, chats, crashes,
          hasty     \* was a device ever touched before all was answered?

appVars == <<conv, chat, list, heard, bar, draft, hud, sent, typed, chats, crashes>>
vars == <<docs, queue, gets, mainq, appVars, hasty>>

\* Messages are numbered in the order of the taps, which stands for their
\* timestamps too.
Ids  == 1..MaxMessages
Copy(u, m)  == <<"messages", u, m>>
Recent(u)   == <<"recent-messages", u>>
UserDoc(u)  == <<"users", u>>
Message(u, t) == [fromId |-> u, text |-> t]

Me(d)    == UidOf[d]
Other(d) == Partner[UidOf[d]]

\* The completions capture the input bar b the message was typed into.
SentCopy(m, t, b) == [kind |-> "sentCopy", m |-> m, t |-> t, bar |-> b]
Delivered(m, b)   == [kind |-> "delivered", m |-> m, bar |-> b]
FetchedUser       == [kind |-> "fetchedUser"]

Settled(d) == Quiet(d) /\ ~Animating(hud[d])

-----------------------------------------------------------------------------
\* ConversationsController.fetchConversations: the listener of
\* MessagingService.fetchRecentMessages hears of additions and changes.
fetchConversations(d) ==
    LET r == View(d, Recent(Me(d)))
    IN  /\ r # NoDoc /\ r # conv[d]
        /\ conv' = [conv EXCEPT ![d] = r]
        /\ UNCHANGED <<docs, queue, gets, mainq, chat, list, heard, bar, draft, hud, sent, typed, chats, crashes>>

showChatController(d) ==
    /\ chat' = [chat EXCEPT ![d] = "loading"]
    /\ list' = [list EXCEPT ![d] = <<>>]
    /\ heard' = [heard EXCEPT ![d] = {}]
    /\ bar' = [bar EXCEPT ![d] = @ + 1]
    /\ draft' = [draft EXCEPT ![d] = 0]

\* ConversationsController.tableView(_:didSelectRowAt:)
didSelectRow(d) ==
    /\ chat[d] = "none" /\ conv[d] # NoMessage /\ chats < MaxChats
    /\ ~Blocks(hud[d], "conversations")
    /\ chats' = chats + 1
    /\ hud' = [hud EXCEPT ![d] = show(@, "conversations")]
    /\ Issue(d, <<>>, <<getDocument(UserDoc(Other(d)), FetchedUser)>>)
    /\ UNCHANGED <<conv, chat, list, heard, bar, draft, sent, typed, crashes>>

fetchedUser(d) ==
    /\ Due(d, "fetchedUser")
    /\ Take(d, <<>>, <<>>)
    /\ hud' = [hud EXCEPT ![d] = dismiss(@)]
    /\ showChatController(d)
    /\ UNCHANGED <<conv, sent, typed, chats, crashes>>

\* Chosen among the accounts: controller(_:wantsToStartChatWith:).
wantsToStartChatWith(d) ==
    /\ chat[d] = "none" /\ chats < MaxChats
    /\ chats' = chats + 1
    /\ showChatController(d)
    /\ UNCHANGED <<docs, queue, gets, mainq, conv, hud, sent, typed, crashes>>

goBack(d) ==
    /\ chat[d] # "none"
    /\ chat' = [chat EXCEPT ![d] = "none"]
    /\ UNCHANGED <<docs, queue, gets, mainq, conv, list, heard, bar, draft, hud, sent, typed, chats, crashes>>

-----------------------------------------------------------------------------
\* The copies that device d sees, its queued ones included.
Visible(d) == {m \in Ids : View(d, Copy(Me(d), m)) # NoDoc}

\* Messages in the order of the query, which is by timestamp.
OldestFirst(S) ==
    CHOOSE s \in [1..Cardinality(S) -> S] : \A i, j \in 1..Cardinality(S) : i < j => s[i] < s[j]

\* The listener is called the first time in any case, then when what it sees
\* has changed.  It appends S, oldest first.
appends(d, S) ==
    /\ chat[d] # "none" /\ (chat[d] = "loaded" => Visible(d) # heard[d])
    /\ chat' = [chat EXCEPT ![d] = "loaded"]
    /\ list' = [list EXCEPT ![d] = @ \o OldestFirst(S)]
    /\ heard' = [heard EXCEPT ![d] = Visible(d)]
    /\ UNCHANGED <<docs, queue, gets, mainq, conv, bar, draft, hud, sent, typed, chats, crashes>>

\* Variants with a bug, for the mutation runs: only the first snapshot is
\* appended; every snapshot is appended as a whole.
appendsOnce(d) == appends(d, IF chat[d] = "loading" THEN Visible(d) ELSE {})
appendsAll(d)  == appends(d, Visible(d))

\* ChatController.fetchMessages: the listener of MessagingService.fetchMessages
\* appends every change of type .added, that is a document which the snapshot
\* before did not have, whether it is in the list or not.
fetchMessages(d) == appends(d, Visible(d) \ heard[d])

\* Everything of the app on d is gone.
Killed(d) ==
    /\ Restart(d, <<>>)
    /\ conv' = [conv EXCEPT ![d] = NoMessage]
    /\ chat' = [chat EXCEPT ![d] = "none"]
    /\ list' = [list EXCEPT ![d] = <<>>]
    /\ heard' = [heard EXCEPT ![d] = {}]
    /\ bar' = [bar EXCEPT ![d] = 0]
    /\ draft' = [draft EXCEPT ![d] = 0]
    /\ hud' = [hud EXCEPT ![d] = Hidden]
    /\ UNCHANGED <<sent, typed, chats>>

\* The listener scrolls to the last message: to item -1 if there is none,
\* which UIKit may answer with an exception.
scrollToItem(d) ==
    /\ chat[d] = "loading" /\ Visible(d) = {}
    /\ Killed(d)
    /\ UNCHANGED crashes

Crash(d) ==
    /\ crashes < MaxCrashes
    /\ crashes' = crashes + 1
    /\ Killed(d)

-----------------------------------------------------------------------------
type(d) ==
    /\ chat[d] # "none" /\ typed < MaxTexts
    /\ typed' = typed + 1
    /\ draft' = [draft EXCEPT ![d] = typed + 1]
    /\ UNCHANGED <<docs, queue, gets, mainq, conv, chat, list, heard, bar, hud, sent, chats, crashes>>

\* MessagingService.uploadMessage, called by inputView(_:wantsToUploadComment:).
uploadMessage(d) ==
    LET m == sent + 1
    IN  /\ chat[d] # "none" /\ sent < MaxMessages
        /\ sent' = m
        /\ Issue(d, <<setData(Copy(Me(d), m), Message(Me(d), draft[d]), SentCopy(m, draft[d], bar[d]))>>, <<>>)
        /\ UNCHANGED <<conv, chat, list, heard, bar, draft, hud, typed, chats, crashes>>

\* Variants with a bug, for the mutation runs: the recent messages are written
\* first; the partner's is left out.
recentsFirst(d, m, t, b) ==
    <<setData(Recent(Me(d)), m, NoThen),
      setData(Recent(Other(d)), m, NoThen),
      setData(Copy(Other(d), m), Message(Me(d), t), Delivered(m, b))>>
ownRecentOnly(d, m, t, b) ==
    <<setData(Copy(Other(d), m), Message(Me(d), t), Delivered(m, b)),
      setData(Recent(Me(d)), m, NoThen)>>

\* The writes that follow the sender's copy.
otherCopies(d, m, t, b) ==
    <<setData(Copy(Other(d), m), Message(Me(d), t), Delivered(m, b)),
      setData(Recent(Me(d)), m, NoThen),
      setData(Recent(Other(d)), m, NoThen)>>

\* The completion of the first write, which ignores errors.
sentCopy(d) ==
    /\ Due(d, "sentCopy")
    /\ Take(d, otherCopies(d, Block(d).m, Block(d).t, Block(d).bar), <<>>)
    /\ UNCHANGED appVars

\* The partner's copy is stored: the input bar it came from is cleared, the
\* user sees it if it is still the one on screen.
delivered(d) ==
    /\ Due(d, "delivered")
    /\ draft' = IF Result(d) /\ Block(d).bar = bar[d] THEN [draft EXCEPT ![d] = 0] ELSE draft
    /\ Take(d, <<>>, <<>>)
    /\ UNCHANGED <<conv, chat, list, heard, bar, hud, sent, typed, chats, crashes>>

MainQueue(d) == fetchedUser(d) \/ sentCopy(d) \/ delivered(d)

Animate(d) ==
    /\ Animating(hud[d])
    /\ hud' = [hud EXCEPT ![d] = animated(@)]
    /\ UNCHANGED <<docs, queue, gets, mainq, conv, chat, list, heard, bar, draft, sent, typed, chats, crashes>>

Deliver(d) == Network(d) /\ UNCHANGED appVars

-----------------------------------------------------------------------------
Init ==
    /\ docs = [x \in {Copy(u, m) : u \in Users, m \in Ids}
                     \cup {Recent(u) : u \in Users} \cup {UserDoc(u) : u \in Users} |->
                 IF x[1] = "users" THEN 0 ELSE NoDoc]
    /\ queue = [d \in Devices |-> <<>>]
    /\ gets  = [d \in Devices |-> <<>>]
    /\ mainq = [d \in Devices |-> <<>>]
    /\ conv  = [d \in Devices |-> NoMessage]
    /\ chat  = [d \in Devices |-> "none"]
    /\ list  = [d \in Devices |-> <<>>]
    /\ heard = [d \in Devices |-> {}]
    /\ bar   = [d \in Devices |-> 0]
    /\ draft = [d \in Devices |-> 0]
    /\ hud   = [d \in Devices |-> Hidden]
    /\ sent = 0 /\ typed = 0 /\ chats = 0 /\ crashes = 0
    /\ hasty = FALSE

Touch(d) ==
    /\ hasty' = (hasty \/ \E e \in Devices : ~Settled(e))
    /\ didSelectRow(d) \/ wantsToStartChatWith(d) \/ goBack(d) \/ type(d) \/ uploadMessage(d)

Step(d) ==
    \/ Deliver(d) \/ MainQueue(d) \/ Animate(d)
    \/ fetchConversations(d) \/ fetchMessages(d) \/ scrollToItem(d) \/ Crash(d)

Next == \E d \in Devices : Touch(d) \/ (Step(d) /\ UNCHANGED hasty)

Spec == Init /\ [][Next]_vars

(***************************************************************************)
(* Fairness: writes and reads are answered, the main queue runs, listeners *)
(* are called and animations end.  Nothing is assumed of the user.         *)
(***************************************************************************)
OldestRead(d) == gets[d] # <<>> /\ Resolve(d, 1) /\ UNCHANGED <<appVars, hasty>>

Fairness ==
    \A d \in Devices :
        /\ WF_vars(Commit(d) /\ UNCHANGED <<appVars, hasty>>)
        /\ WF_vars(OldestRead(d))
        /\ WF_vars(MainQueue(d) /\ UNCHANGED hasty)
        /\ WF_vars(fetchConversations(d) /\ UNCHANGED hasty)
        /\ WF_vars(fetchMessages(d) /\ UNCHANGED hasty)
        /\ WF_vars(Animate(d) /\ UNCHANGED hasty)

FairSpec == Spec /\ Fairness

-----------------------------------------------------------------------------
Has(u, m) == docs[Copy(u, m)] # NoDoc

\* Typing of the variables.
MessagesTypeOK ==
    /\ \A u \in Users :
          /\ \A m \in Ids : docs[Copy(u, m)] \in [fromId : Users, text : 0..MaxTexts] \cup {NoDoc}
          /\ docs[Recent(u)] \in Ids \cup {NoDoc}
    /\ \A d \in Devices :
          /\ conv[d] \in Ids \cup {NoMessage}
          /\ chat[d] \in {"none", "loading", "loaded"}
          /\ list[d] \in Seq(Ids)
          /\ heard[d] \in SUBSET Ids
          /\ bar[d] \in 0..MaxChats
          /\ draft[d] \in 0..MaxTexts
          /\ hud[d] \in Huds({"conversations"})
    /\ hasty \in BOOLEAN

\* The most recent message of either account is one both have a copy of, at
\* every moment and wherever the app is killed.  (Not after a refused write:
\* the completion of the first one ignores errors.)
RecentIsStored ==
    \A u \in Users : docs[Recent(u)] # NoDoc =>
        Has(u, docs[Recent(u)]) /\ Has(Partner[u], docs[Recent(u)])

\* Once the services are idle the accounts have the same messages, however
\* the conversation overlaps.  (Not after a kill between the writes, or
\* a refused one.)
MessagesArePaired ==
    Quiescent /\ crashes = 0 => \A u \in Users, m \in Ids : Has(u, m) <=> Has(Partner[u], m)

\* No message is listed twice, although every .added change is appended: what
\* the listener has told of is still there in the next snapshot, also when the
\* server takes over from the device's own queue or the app is killed meanwhile,
\* and a message that the server refused does not come back.
NoMessageTwice == \A d \in Devices : IsInjective(list[d])

\* The variables keep their types, lists have no duplicates and a most recent
\* message both copies.
MessagesInv == MessagesTypeOK /\ NoMessageTwice /\ RecentIsStored

\* Users who wait for the answers have the same most recent message.  (When
\* messages cross, each account may keep the other's; nor after a kill or a
\* refused write.)
RecentsAgree ==
    Quiescent /\ ~hasty /\ crashes = 0 => \A u \in Users : docs[Recent(u)] = docs[Recent(Partner[u])]

\* Both accounts keep the same conversation, as claimed above.
CopiesAgree == MessagesArePaired /\ RecentsAgree

\* Once the touches stop, an open chat comes to list all messages stored for
\* its account, and the list of conversations to show the most recent one.
MessagesAppear ==
    <>[](\A d \in Devices :
           /\ chat[d] # "none" => {m \in Ids : Has(Me(d), m)} \subseteq Range(list[d])
           /\ docs[Recent(Me(d))] # NoDoc => conv[d] = docs[Recent(Me(d))])
=============================================================================
