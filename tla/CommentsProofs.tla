--------------------------- MODULE CommentsProofs ---------------------------
(***************************************************************************)
(* Proofs about Comments, for every set of devices and accounts and every  *)
(* bound.  What needs the server to accept every write says so.            *)
(***************************************************************************)
EXTENDS Comments, FirestoreProofs

-----------------------------------------------------------------------------
(* What may be stored and in flight.                                       *)

Data == [uid : Users, comment : Texts]
Bars == 0..MaxScreens

Paths == {CommentDoc(c) : c \in Ids} \cup {NoteDoc(c) : c \in Ids}

CommentWritesOf(c) ==
    [paths : {{CommentDoc(c)}}, data : Data, upd : {FALSE},
     then : {NoThen} \cup {Posted(c, b) : b \in Bars}]

CommentWrites == UNION {CommentWritesOf(c) : c \in Ids}

NoteWrites ==
    UNION {[paths : {{NoteDoc(c)}}, data : Users, upd : {FALSE}, then : {NoThen}] : c \in Ids}

PostedBlocks == [then : {Posted(c, b) : c \in Ids, b \in Bars}, res : BOOLEAN]

FlightOK ==
    /\ queue \in QueuesOf(CommentWrites \cup NoteWrites)
    /\ gets \in QueuesOf({})
    /\ mainq \in QueuesOf(PostedBlocks)

StateOK ==
    /\ docs \in [Paths -> Data \cup Users \cup {NoDoc}]
    /\ hud \in [Devices -> Huds({"comments"})]
    /\ sent \in 0..MaxComments /\ typed \in 0..MaxTexts
    /\ screens \in 0..MaxScreens /\ crashes \in 0..MaxCrashes
    /\ \A d \in Devices : bar[d] <= screens

-----------------------------------------------------------------------------
(* Whose comments and notifications, and which.                            *)

\* The write w stores the comment c, or its notification.
Stores(w, c)   == w \in CommentWrites /\ w.paths = {CommentDoc(c)}
Notifies(w, c) == w \in NoteWrites /\ w.paths = {NoteDoc(c)}

\* The comment c is stored, and u wrote it.
By(c, u) == docs[CommentDoc(c)] # NoDoc /\ docs[CommentDoc(c)].uid = u

\* A device writes for the account signed in there.
WritesOwn ==
    \A d \in Devices : \A w \in Range(queue[d]) :
        /\ w \in CommentWrites => w.data.uid = UidOf[d]
        /\ w \in NoteWrites => w.data = UidOf[d] /\ UidOf[d] # Owner

\* A number is used for one comment only.
Numbered ==
    \A c \in Ids :
        /\ docs[CommentDoc(c)] # NoDoc => c <= sent
        /\ \A d \in Devices : \A w \in Range(queue[d]) : Stores(w, c) => c <= sent

OneText ==
    \A c \in Ids, d \in Devices : \A w \in Range(queue[d]) : Stores(w, c) =>
        /\ docs[CommentDoc(c)] # NoDoc => docs[CommentDoc(c)] = w.data
        /\ \A e \in Devices : \A x \in Range(queue[e]) : Stores(x, c) => x.data = w.data

\* Before any crash every comment on its way is answered to its screen.
AllAnswered ==
    crashes = 0 => \A d \in Devices : \A w \in Range(queue[d]) : w \in CommentWrites => w.then # NoThen

-----------------------------------------------------------------------------
(* What the listeners have told of.                                        *)

\* The write of comment c is on its way from d.
Brings(d, c) == \E w \in Range(queue[d]) : Stores(w, c)

OneWriter == \A c \in Ids : \A d, e \in Devices : Brings(d, c) /\ Brings(e, c) => d = e

\* A comment that is listed, or was in the last snapshot, is stored, or it is
\* the device's own, or refused; one that is listed and has gone from the
\* snapshots was refused.
ListsHeard ==
    \A d \in Devices, c \in Ids :
        /\ c \in Range(list[d]) \/ c \in heard[d] =>
              /\ c <= sent
              /\ docs[CommentDoc(c)] # NoDoc \/ \A e \in Devices : e # d => ~Brings(e, c)
        /\ c \in Range(list[d]) /\ c \notin heard[d] =>
              /\ docs[CommentDoc(c)] = NoDoc
              /\ \A e \in Devices : ~Brings(e, c)

-----------------------------------------------------------------------------
(* Without refused writes: a completion block runs, and a notification is  *)
(* sent, for a comment that is stored, and none is forgotten.              *)

PostedStored ==
    \A d \in Devices : \A b \in Range(mainq[d]) : By(b.then.c, UidOf[d])

NotesStored ==
    \A c \in Ids :
        /\ \A d \in Devices : \A w \in Range(queue[d]) : Notifies(w, c) => By(c, UidOf[d])
        /\ docs[NoteDoc(c)] # NoDoc => docs[CommentDoc(c)] # NoDoc /\ docs[CommentDoc(c)].uid # Owner

\* The notification for c will come.
NoteComing(d, c) ==
    \/ \E w \in Range(queue[d]) : Notifies(w, c)
    \/ \E b \in Range(mainq[d]) : b.then.c = c

NotesDue ==
    crashes = 0 => \A c \in Ids : docs[CommentDoc(c)] # NoDoc =>
        \/ docs[CommentDoc(c)].uid = Owner
        \/ docs[NoteDoc(c)] # NoDoc
        \/ \E d \in Devices : NoteComing(d, c)

\* Users who wait: one thing is in flight, after which the input bar holds
\* what was sent.
Lone(d) ==
    \/ mainq[d] = <<>> /\ \A w \in Range(queue[d]) : w.then = NoThen
    \/ mainq[d] = <<>> /\ \E w \in CommentWrites : queue[d] = <<w>>
    \/ queue[d] = <<>> /\ \E b \in PostedBlocks : mainq[d] = <<b>>

InBar(d) ==
    /\ \A w \in Range(queue[d]) :
          w.then # NoThen /\ w.then.bar = bar[d] => w.data = Comment(UidOf[d], draft[d])
    /\ \A b \in Range(mainq[d]) :
          b.then.bar = bar[d] => docs[CommentDoc(b.then.c)] = Comment(UidOf[d], draft[d])

Waiting == ~hasty => \A d \in Devices : Lone(d) /\ InBar(d)

(***************************************************************************)
(* The inductive invariants: with refused writes, and without.             *)
(***************************************************************************)
ListsInv ==
    /\ CommentsTypeOK /\ NoCommentTwice
    /\ FlightOK /\ StateOK
    /\ WritesOwn /\ Numbered /\ OneText /\ AllAnswered
    /\ OneWriter /\ ListsHeard

AcceptedInv == PostedStored /\ NotesStored /\ NotesDue /\ Waiting

CommentsIndInv == ListsInv /\ (~Failures => AcceptedInv)

-----------------------------------------------------------------------------
(* Shapes of writes, blocks and documents.                                 *)

LEMMA PathFacts ==
    /\ \A c \in Ids : CommentDoc(c) \in Paths /\ NoteDoc(c) \in Paths
    /\ \A a, c \in Ids : /\ CommentDoc(a) # NoteDoc(c)
                         /\ CommentDoc(a) = CommentDoc(c) => a = c
                         /\ NoteDoc(a) = NoteDoc(c) => a = c
  BY DEF Paths, CommentDoc, NoteDoc

LEMMA CommentWriteFacts ==
    ASSUME NEW w \in CommentWrites
    PROVE  /\ w.data \in Data /\ w.data # NoDoc /\ ~w.upd
           /\ w \notin NoteWrites
           /\ \E c \in Ids : /\ w.paths = {CommentDoc(c)} /\ Stores(w, c)
                             /\ w.then # NoThen => \E b \in Bars : w.then = Posted(c, b)
           /\ [w EXCEPT !.then = NoThen] \in CommentWrites
           /\ [w EXCEPT !.then = NoThen].then = NoThen
           /\ [w EXCEPT !.then = NoThen].paths = w.paths
           /\ [w EXCEPT !.then = NoThen].data = w.data
  <1>1. PICK c \in Ids : w \in CommentWritesOf(c)
    BY DEF CommentWrites
  <1>2. w.data \in Data /\ w.paths = {CommentDoc(c)} /\ ~w.upd /\ w.then \in {NoThen} \cup {Posted(c, b) : b \in Bars}
    BY <1>1 DEF CommentWritesOf
  <1>3. w.data # NoDoc
    BY <1>2, CommentsAssumption DEF Data, Texts
  <1>4. Stores(w, c)
    BY <1>2 DEF Stores
  <1>5. w \notin NoteWrites
    <2> SUFFICES ASSUME w \in NoteWrites PROVE FALSE
      OBVIOUS
    <2>1. PICK a \in Ids : w \in [paths : {{NoteDoc(a)}}, data : Users, upd : {FALSE}, then : {NoThen}]
      BY DEF NoteWrites
    <2>2. w.paths = {NoteDoc(a)}
      BY <2>1
    <2> QED BY <2>2, <1>2, PathFacts
  <1>6. /\ [w EXCEPT !.then = NoThen] \in CommentWritesOf(c)
        /\ [w EXCEPT !.then = NoThen].then = NoThen
        /\ [w EXCEPT !.then = NoThen].paths = w.paths
        /\ [w EXCEPT !.then = NoThen].data = w.data
    BY <1>1 DEF CommentWritesOf
  <1>7. [w EXCEPT !.then = NoThen] \in CommentWrites
    BY <1>6 DEF CommentWrites
  <1> QED BY <1>2, <1>3, <1>4, <1>5, <1>6, <1>7

LEMMA NoteWriteFacts ==
    ASSUME NEW w \in NoteWrites
    PROVE  /\ w.data \in Users /\ w.data # NoDoc /\ ~w.upd /\ w.then = NoThen
           /\ w \notin CommentWrites
           /\ \E c \in Ids : w.paths = {NoteDoc(c)} /\ Notifies(w, c)
           /\ [w EXCEPT !.then = NoThen] = w
  <1>1. PICK c \in Ids : w \in [paths : {{NoteDoc(c)}}, data : Users, upd : {FALSE}, then : {NoThen}]
    BY DEF NoteWrites
  <1>2. /\ w.data \in Users /\ w.paths = {NoteDoc(c)} /\ ~w.upd /\ w.then = NoThen
        /\ [w EXCEPT !.then = NoThen] = w
    BY <1>1
  <1> QED BY <1>2, CommentWriteFacts, CommentsAssumption DEF Notifies

\* What a write stores is told by its path.
LEMMA Apart ==
    /\ \A w : \A a, c \in Ids : Stores(w, a) /\ Stores(w, c) => a = c
    /\ \A w : \A a, c \in Ids : Notifies(w, a) /\ Notifies(w, c) => a = c
    /\ \A w : \A a, c \in Ids : ~(Stores(w, a) /\ Notifies(w, c))
  BY PathFacts DEF Stores, Notifies

LEMMA PostedFacts ==
    /\ \A b \in PostedBlocks : b.then.c \in Ids /\ b.then.bar \in Bars /\ b.then.kind = "posted"
    /\ \A c \in Ids, k \in Bars : /\ Posted(c, k) # NoThen
                                  /\ Posted(c, k).c = c /\ Posted(c, k).bar = k
                                  /\ \A r \in BOOLEAN : [then |-> Posted(c, k), res |-> r] \in PostedBlocks
  <1>1. \A c \in Ids, k \in Bars : Posted(c, k) # NoThen
    BY CommentsAssumption DEF Posted, Ids, Bars
  <1>2. \A c, k : Posted(c, k).c = c /\ Posted(c, k).bar = k /\ Posted(c, k).kind = "posted"
    BY DEF Posted
  <1>3. ASSUME NEW b \in PostedBlocks
        PROVE  b.then.c \in Ids /\ b.then.bar \in Bars /\ b.then.kind = "posted"
    <2>1. PICK c \in Ids, k \in Bars : b.then = Posted(c, k)
      BY DEF PostedBlocks
    <2> QED BY <2>1, <1>2
  <1>4. \A c \in Ids, k \in Bars : \A r \in BOOLEAN : [then |-> Posted(c, k), res |-> r] \in PostedBlocks
    BY DEF PostedBlocks
  <1> QED BY <1>1, <1>2, <1>3, <1>4

LEMMA WriteFacts ==
    ASSUME NEW w \in CommentWrites \cup NoteWrites
    PROVE  /\ OneDocument(w) /\ Tells(w, PostedBlocks) /\ ~w.upd /\ w.data # NoDoc
           /\ [w EXCEPT !.then = NoThen] \in CommentWrites \cup NoteWrites
  <1>1. CASE w \in CommentWrites
    <2>1. PICK c \in Ids : /\ w.paths = {CommentDoc(c)}
                           /\ w.then # NoThen => \E b \in Bars : w.then = Posted(c, b)
      BY <1>1, CommentWriteFacts
    <2>2. Tells(w, PostedBlocks)
      BY <2>1, PostedFacts DEF Tells
    <2> QED BY <1>1, <2>1, <2>2, CommentWriteFacts DEF OneDocument
  <1>2. CASE w \in NoteWrites
    BY <1>2, NoteWriteFacts DEF OneDocument, Tells
  <1> QED BY <1>1, <1>2

LEMMA HudFacts ==
    /\ Hidden \in Huds({"comments"})
    /\ \A h \in Huds({"comments"}) :
          /\ show(h, "comments") \in Huds({"comments"})
          /\ dismiss(h) \in Huds({"comments"})
          /\ Animating(h) => animated(h) \in Huds({"comments"})
  <1>1. Hidden \in Huds({"comments"})
    BY DEF Hidden, Huds, Phases
  <1>2. ASSUME NEW h \in Huds({"comments"}) PROVE show(h, "comments") \in Huds({"comments"})
    BY CommentsAssumption DEF show, Huds, Phases
  <1>3. ASSUME NEW h \in Huds({"comments"}) PROVE dismiss(h) \in Huds({"comments"})
    BY DEF dismiss, Huds, Phases
  <1>4. ASSUME NEW h \in Huds({"comments"}), Animating(h) PROVE animated(h) \in Huds({"comments"})
    BY <1>1, <1>4 DEF animated, Animating, Huds, Phases
  <1> QED BY <1>1, <1>2, <1>3, <1>4

\* One document is written.
LEMMA StoreOne ==
    ASSUME docs \in [Paths -> Data \cup Users \cup {NoDoc}],
           NEW path \in Paths, NEW x \in Data \cup Users,
           docs' = [docs EXCEPT ![path] = x]
    PROVE  /\ docs' \in [Paths -> Data \cup Users \cup {NoDoc}]
           /\ docs'[path] = x
           /\ \A p \in Paths \ {path} : docs'[p] = docs[p]
  OBVIOUS

-----------------------------------------------------------------------------
(* What a step keeps.                                                      *)

\* Comments are not overwritten.
CommentsKept == \A c \in Ids : docs[CommentDoc(c)] # NoDoc => docs'[CommentDoc(c)] = docs[CommentDoc(c)]

\* The other devices are left alone.
OthersKeep(d) ==
    \A e \in Devices \ {d} :
        queue'[e] = queue[e] /\ mainq'[e] = mainq[e] /\ bar'[e] = bar[e] /\ draft'[e] = draft[e]

\* What a listener has told of stays so: its screen is kept or closed, the
\* documents change only as queued writes say, and only d sends, something new.
LEMMA HeardKept ==
    ASSUME OneWriter, ListsHeard, Numbered, NEW d \in Devices,
           \A e \in Devices : \/ list'[e] = list[e] /\ heard'[e] = heard[e]
                              \/ list'[e] = <<>> /\ heard'[e] = {},
           \A c \in Ids :
              /\ c <= sent => c <= sent'
              /\ docs[CommentDoc(c)] # NoDoc => docs'[CommentDoc(c)] # NoDoc
              /\ (\A e \in Devices : ~Brings(e, c)) => docs'[CommentDoc(c)] = docs[CommentDoc(c)]
              /\ \A e \in Devices : Brings(e, c)' => Brings(e, c) \/ (e = d /\ ~(c <= sent))
    PROVE  OneWriter' /\ ListsHeard'
  <1>1. \A c \in Ids : \A e \in Devices : Brings(e, c) => c <= sent
    BY DEF Numbered, Brings
  <1>2. OneWriter'
    <2> SUFFICES ASSUME NEW c \in Ids, NEW a \in Devices, NEW b \in Devices, Brings(a, c)', Brings(b, c)'
                 PROVE  a = b
      BY DEF OneWriter
    <2>1. /\ Brings(a, c) \/ (a = d /\ ~(c <= sent))
          /\ Brings(b, c) \/ (b = d /\ ~(c <= sent))
      OBVIOUS
    <2> QED BY <2>1, <1>1 DEF OneWriter
  <1>3. ListsHeard'
    <2> SUFFICES ASSUME NEW a \in Devices, NEW c \in Ids, c \in Range(list'[a]) \/ c \in heard'[a]
                 PROVE  /\ c <= sent'
                        /\ docs'[CommentDoc(c)] # NoDoc \/ \A e \in Devices : e # a => ~Brings(e, c)'
                        /\ c \in Range(list'[a]) /\ c \notin heard'[a] =>
                              /\ docs'[CommentDoc(c)] = NoDoc
                              /\ \A e \in Devices : ~Brings(e, c)'
      BY DEF ListsHeard
    <2>1. list'[a] = list[a] /\ heard'[a] = heard[a]
      BY RangeOfEmpty
    <2>2. c <= sent
      BY <2>1 DEF ListsHeard
    <2>3. \A e \in Devices : Brings(e, c)' => Brings(e, c)
      BY <2>2
    <2> QED BY <2>1, <2>2, <2>3 DEF ListsHeard
  <1> QED BY <1>2, <1>3

\* When nothing is sent and no answer comes in.
LEMMA HeardStill ==
    ASSUME ListsHeard, docs' = docs, queue' = queue, sent' = sent,
           \A e \in Devices : \/ list'[e] = list[e] /\ heard'[e] = heard[e]
                              \/ list'[e] = <<>> /\ heard'[e] = {}
    PROVE  ListsHeard'
  <1>1. \A e \in Devices, c \in Ids : Brings(e, c)' <=> Brings(e, c)
    BY DEF Brings
  <1> SUFFICES ASSUME NEW a \in Devices, NEW c \in Ids, c \in Range(list'[a]) \/ c \in heard'[a]
               PROVE  /\ c <= sent'
                      /\ docs'[CommentDoc(c)] # NoDoc \/ \A e \in Devices : e # a => ~Brings(e, c)'
                      /\ c \in Range(list'[a]) /\ c \notin heard'[a] =>
                            /\ docs'[CommentDoc(c)] = NoDoc
                            /\ \A e \in Devices : ~Brings(e, c)'
    BY DEF ListsHeard
  <1>2. list'[a] = list[a] /\ heard'[a] = heard[a]
    BY RangeOfEmpty
  <1> QED BY <1>1, <1>2 DEF ListsHeard

\* Nothing is sent and no answer comes in.
LEMMA NothingSent ==
    ASSUME docs' = docs, queue' = queue, gets' = gets, mainq' = mainq, sent' = sent, crashes' = crashes
    PROVE  /\ FlightOK => FlightOK'
           /\ WritesOwn => WritesOwn'
           /\ Numbered => Numbered'
           /\ OneText => OneText'
           /\ OneWriter => OneWriter'
           /\ AllAnswered => AllAnswered'
           /\ PostedStored => PostedStored'
           /\ NotesStored => NotesStored'
           /\ NotesDue => NotesDue'
  <1>1. FlightOK => FlightOK'
    BY DEF FlightOK
  <1>2. (WritesOwn => WritesOwn') /\ (Numbered => Numbered') /\ (AllAnswered => AllAnswered')
    BY DEF WritesOwn, Numbered, AllAnswered
  <1>3. (OneText => OneText') /\ (OneWriter => OneWriter')
    BY DEF OneText, OneWriter, Brings
  <1>4. (PostedStored => PostedStored') /\ (NotesStored => NotesStored')
    BY DEF PostedStored, NotesStored, By
  <1>5. NotesDue => NotesDue'
    BY DEF NotesDue, NoteComing
  <1> QED BY <1>1, <1>2, <1>3, <1>4, <1>5

\* Users who wait on the other devices.
LEMMA OthersWait ==
    ASSUME NEW d \in Devices, FlightOK, PostedStored, Waiting, CommentsKept, OthersKeep(d),
           ~hasty' => ~hasty, ~hasty' => Lone(d)' /\ InBar(d)'
    PROVE  Waiting'
  <1> SUFFICES ASSUME ~hasty', NEW e \in Devices \ {d} PROVE Lone(e)' /\ InBar(e)'
    BY DEF Waiting
  <1>1. Lone(e) /\ InBar(e)
    BY DEF Waiting
  <1>2. queue'[e] = queue[e] /\ mainq'[e] = mainq[e] /\ bar'[e] = bar[e] /\ draft'[e] = draft[e]
    BY DEF OthersKeep
  <1>3. Lone(e)'
    BY <1>1, <1>2 DEF Lone
  <1>4. ASSUME NEW b \in Range(mainq[e])
        PROVE  docs'[CommentDoc(b.then.c)] = docs[CommentDoc(b.then.c)]
    <2>1. b \in PostedBlocks
      BY InQueue DEF FlightOK
    <2>2. b.then.c \in Ids /\ docs[CommentDoc(b.then.c)] # NoDoc
      BY <2>1, PostedFacts DEF PostedStored, By
    <2> QED BY <2>2 DEF CommentsKept
  <1>5. InBar(e)'
    BY <1>1, <1>2, <1>4 DEF InBar
  <1> QED BY <1>3, <1>5

\* A touch of a user who waits.
LEMMA TouchWaits ==
    ASSUME NEW d \in Devices, FlightOK, PostedStored, Waiting,
           docs' = docs, queue' = queue, mainq' = mainq,
           \A e \in Devices \ {d} : bar'[e] = bar[e] /\ draft'[e] = draft[e],
           hasty' = (hasty \/ ~Settled(d)), hasty \in BOOLEAN
    PROVE  Waiting'
  <1>1. CommentsKept /\ OthersKeep(d)
    BY DEF CommentsKept, OthersKeep
  <1>2. ASSUME ~hasty' PROVE ~hasty /\ Lone(d)' /\ InBar(d)'
    <2>1. ~hasty /\ Settled(d)
      BY <1>2
    <2>2. Range(queue[d]) = {} /\ Range(mainq[d]) = {}
      BY <2>1, QuietRanges DEF Settled
    <2>3. mainq[d] = <<>>
      BY <2>1 DEF Settled, Quiet
    <2> QED BY <2>1, <2>2, <2>3 DEF Lone, InBar
  <1> QED BY <1>1, <1>2, OthersWait

-----------------------------------------------------------------------------
(* The screen.                                                             *)

\* What is left to show of a step that sends nothing.
ScreenOK == CommentsTypeOK' /\ NoCommentTwice' /\ StateOK' /\ ListsHeard'

LEMMA ScreenStep ==
    ASSUME CommentsIndInv, ScreenOK, ~Failures => Waiting',
           docs' = docs, queue' = queue, gets' = gets, mainq' = mainq, sent' = sent, crashes' = crashes
    PROVE  CommentsIndInv'
  BY NothingSent DEF CommentsIndInv, ListsInv, AcceptedInv, ScreenOK

LEMMA ShowCommentsOK ==
    ASSUME CommentsIndInv, NEW d \in Devices, showComments(d), hasty' = (hasty \/ ~Settled(d))
    PROVE  CommentsIndInv'
  <1>1. /\ open' = [open EXCEPT ![d] = TRUE] /\ list' = [list EXCEPT ![d] = <<>>]
        /\ heard' = [heard EXCEPT ![d] = {}]
        /\ bar' = [bar EXCEPT ![d] = bar[d] + 1] /\ draft' = [draft EXCEPT ![d] = 0]
        /\ screens < MaxScreens /\ screens' = screens + 1
        /\ docs' = docs /\ queue' = queue /\ gets' = gets /\ mainq' = mainq
        /\ hud' = hud /\ sent' = sent /\ typed' = typed /\ crashes' = crashes
    BY DEF showComments
  <1>2. CommentsTypeOK /\ StateOK /\ NoCommentTwice /\ hasty \in BOOLEAN
    BY DEF CommentsIndInv, ListsInv, CommentsTypeOK
  <1>3. StateOK'
    <2>1. screens' \in 0..MaxScreens
      BY <1>1, <1>2, CommentsAssumption DEF StateOK
    <2>2. \A e \in Devices : bar'[e] <= screens'
      BY <1>1, <1>2, CommentsAssumption DEF StateOK, CommentsTypeOK
    <2> QED BY <1>1, <1>2, <2>1, <2>2 DEF StateOK
  <1>4. CommentsTypeOK'
    <2>1. bar' \in [Devices -> 0..MaxScreens]
      <3>1. bar[d] + 1 \in 0..MaxScreens
        BY <1>1, <1>2, CommentsAssumption DEF StateOK, CommentsTypeOK
      <3> QED BY <1>1, <1>2, <3>1 DEF CommentsTypeOK
    <2>2. draft' \in [Devices -> Texts]
      BY <1>1, <1>2, CommentsAssumption DEF CommentsTypeOK, Texts
    <2>3. open' \in [Devices -> BOOLEAN] /\ list' \in [Devices -> Seq(Ids)] /\ heard' \in [Devices -> SUBSET Ids]
      BY <1>1, <1>2 DEF CommentsTypeOK
    <2>4. hasty' \in BOOLEAN
      OBVIOUS
    <2> QED BY <1>1, <1>2, <2>1, <2>2, <2>3, <2>4 DEF CommentsTypeOK
  <1>5. NoCommentTwice'
    <2>1. ASSUME NEW e \in Devices PROVE list'[e] = list[e] \/ list'[e] = <<>>
      BY <1>1, <1>2 DEF CommentsTypeOK
    <2>2. IsInjective(<<>>)
      BY DEF IsInjective
    <2> QED BY <2>1, <2>2, <1>2 DEF NoCommentTwice
  <1>6. ASSUME ~Failures PROVE Waiting'
    <2>1. \A e \in Devices \ {d} : bar'[e] = bar[e] /\ draft'[e] = draft[e]
      BY <1>1, <1>2 DEF CommentsTypeOK
    <2>2. FlightOK /\ PostedStored /\ Waiting
      BY <1>6 DEF CommentsIndInv, ListsInv, AcceptedInv
    <2> QED BY <1>1, <1>2, <2>1, <2>2, TouchWaits
  <1>7. ListsHeard'
    <2>1. \A e \in Devices : \/ list'[e] = list[e] /\ heard'[e] = heard[e]
                             \/ list'[e] = <<>> /\ heard'[e] = {}
      BY <1>1, <1>2 DEF CommentsTypeOK
    <2> QED BY <2>1, <1>1, HeardStill DEF CommentsIndInv, ListsInv
  <1> QED BY <1>1, <1>3, <1>4, <1>5, <1>6, <1>7, ScreenStep DEF ScreenOK

LEMMA GoBackOK ==
    ASSUME CommentsIndInv, NEW d \in Devices, goBack(d), hasty' = (hasty \/ ~Settled(d))
    PROVE  CommentsIndInv'
  <1>1. /\ open' = [open EXCEPT ![d] = FALSE] /\ list' = list /\ heard' = heard /\ bar' = bar /\ draft' = draft
        /\ screens' = screens
        /\ docs' = docs /\ queue' = queue /\ gets' = gets /\ mainq' = mainq
        /\ hud' = hud /\ sent' = sent /\ typed' = typed /\ crashes' = crashes
    BY DEF goBack
  <1>2. CommentsTypeOK /\ StateOK /\ NoCommentTwice /\ hasty \in BOOLEAN
    BY DEF CommentsIndInv, ListsInv, CommentsTypeOK
  <1>3. StateOK'
    BY <1>1, <1>2 DEF StateOK
  <1>4. CommentsTypeOK'
    <2>1. open' \in [Devices -> BOOLEAN] /\ hasty' \in BOOLEAN
      BY <1>1, <1>2 DEF CommentsTypeOK
    <2> QED BY <1>1, <1>2, <2>1 DEF CommentsTypeOK
  <1>5. NoCommentTwice'
    BY <1>1, <1>2 DEF NoCommentTwice
  <1>6. ASSUME ~Failures PROVE Waiting'
    <2>1. FlightOK /\ PostedStored /\ Waiting
      BY <1>6 DEF CommentsIndInv, ListsInv, AcceptedInv
    <2> QED BY <1>1, <1>2, <2>1, TouchWaits
  <1>7. ListsHeard'
    BY <1>1, HeardStill DEF CommentsIndInv, ListsInv
  <1> QED BY <1>1, <1>3, <1>4, <1>5, <1>6, <1>7, ScreenStep DEF ScreenOK

LEMMA TypeOK ==
    ASSUME CommentsIndInv, NEW d \in Devices, type(d), hasty' = (hasty \/ ~Settled(d))
    PROVE  CommentsIndInv'
  <1>1. /\ typed < MaxTexts /\ typed' = typed + 1 /\ draft' = [draft EXCEPT ![d] = typed + 1]
        /\ open' = open /\ list' = list /\ heard' = heard /\ bar' = bar /\ screens' = screens
        /\ docs' = docs /\ queue' = queue /\ gets' = gets /\ mainq' = mainq
        /\ hud' = hud /\ sent' = sent /\ crashes' = crashes
    BY DEF type
  <1>2. CommentsTypeOK /\ StateOK /\ NoCommentTwice /\ hasty \in BOOLEAN
    BY DEF CommentsIndInv, ListsInv, CommentsTypeOK
  <1>3. typed + 1 \in 0..MaxTexts
    BY <1>1, <1>2, CommentsAssumption DEF StateOK
  <1>4. StateOK'
    BY <1>1, <1>2, <1>3 DEF StateOK
  <1>5. CommentsTypeOK'
    <2>1. draft' \in [Devices -> Texts] /\ hasty' \in BOOLEAN
      BY <1>1, <1>2, <1>3 DEF CommentsTypeOK, Texts
    <2> QED BY <1>1, <1>2, <2>1 DEF CommentsTypeOK
  <1>6. NoCommentTwice'
    BY <1>1, <1>2 DEF NoCommentTwice
  <1>7. ASSUME ~Failures PROVE Waiting'
    <2>1. FlightOK /\ PostedStored /\ Waiting
      BY <1>7 DEF CommentsIndInv, ListsInv, AcceptedInv
    <2>2. \A e \in Devices \ {d} : bar'[e] = bar[e] /\ draft'[e] = draft[e]
      BY <1>1, <1>2 DEF CommentsTypeOK
    <2> QED BY <1>1, <1>2, <2>1, <2>2, TouchWaits
  <1>8. ListsHeard'
    BY <1>1, HeardStill DEF CommentsIndInv, ListsInv
  <1> QED BY <1>1, <1>4, <1>5, <1>6, <1>7, <1>8, ScreenStep DEF ScreenOK

\* What d sees is stored or on its way from d.
LEMMA VisibleFacts ==
    ASSUME FlightOK, NEW d \in Devices, NEW c \in Ids
    PROVE  c \in Visible(d) <=> docs[CommentDoc(c)] # NoDoc \/ Brings(d, c)
  <1> DEFINE WS == CommentWrites \cup NoteWrites
  <1>1. queue \in QueuesOf(WS) /\ \A w \in WS : w.data # NoDoc /\ ~w.upd
    BY WriteFacts DEF FlightOK
  <1>2. \A w \in Range(queue[d]) : w \in WS
    BY <1>1, InQueue
  <1>3. \A w \in WS : CommentDoc(c) \in w.paths <=> Stores(w, c)
    <2> SUFFICES ASSUME NEW w \in WS PROVE CommentDoc(c) \in w.paths <=> Stores(w, c)
      OBVIOUS
    <2>1. CASE w \in CommentWrites
      <3>1. PICK a \in Ids : w.paths = {CommentDoc(a)}
        BY <2>1, CommentWriteFacts
      <3> QED BY <2>1, <3>1, PathFacts DEF Stores
    <2>2. CASE w \in NoteWrites
      <3>1. PICK a \in Ids : w.paths = {NoteDoc(a)}
        BY <2>2, NoteWriteFacts
      <3> QED BY <2>2, <3>1, PathFacts, NoteWriteFacts DEF Stores
    <2> QED BY <2>1, <2>2
  <1> HIDE DEF WS
  <1>4. View(d, CommentDoc(c)) # NoDoc <=>
            docs[CommentDoc(c)] # NoDoc \/ \E w \in Range(queue[d]) : CommentDoc(c) \in w.paths
    BY <1>1, ViewOfSets
  <1> QED BY <1>2, <1>3, <1>4 DEF Visible, Brings

\* The listener appends comments that are not in the list: those that have
\* gone from the snapshots do not come back.
LEMMA FetchCommentsOK ==
    ASSUME CommentsIndInv, NEW d \in Devices, fetchComments(d), hasty' = hasty
    PROVE  CommentsIndInv'
  <1>1. PICK added : added = Visible(d) \ heard[d]
    OBVIOUS
  <1>2. /\ list' = [list EXCEPT ![d] = list[d] \o NewestFirst(added)]
        /\ heard' = [heard EXCEPT ![d] = Visible(d)]
        /\ open' = open /\ bar' = bar /\ draft' = draft /\ screens' = screens
        /\ docs' = docs /\ queue' = queue /\ gets' = gets /\ mainq' = mainq
        /\ hud' = hud /\ sent' = sent /\ typed' = typed /\ crashes' = crashes
    BY <1>1 DEF fetchComments, appends
  <1>3. CommentsTypeOK /\ StateOK /\ NoCommentTwice /\ list \in [Devices -> Seq(Ids)]
        /\ heard \in [Devices -> SUBSET Ids] /\ ListsHeard /\ OneWriter /\ Numbered /\ FlightOK
    BY DEF CommentsIndInv, ListsInv, CommentsTypeOK
  <1>4. PICK s : s = NewestFirst(added)
    OBVIOUS
  <1>5. MaxComments \in Nat /\ added \in SUBSET (1..MaxComments)
    BY <1>1, CommentsAssumption DEF Visible, Ids
  <1>6. Falling(s, added)
    <2>1. \E t : Falling(t, added)
      BY <1>5, FallingExists
    <2>2. \E t \in [1..Cardinality(added) -> added] :
              \A i, j \in 1..Cardinality(added) : i < j => t[i] > t[j]
      BY <2>1 DEF Falling
    <2> QED BY <2>2, <1>4 DEF Falling, NewestFirst
  <1>7. s \in Seq(added) /\ IsInjective(s)
    BY <1>5, <1>6, FallingIsSeq
  <1>8. Range(s) \subseteq added /\ s \in Seq(Ids)
    <2>1. Range(s) \subseteq added
      BY <1>7, RangeOfSeq
    <2>2. added \subseteq Ids
      BY <1>5 DEF Ids
    <2>3. s \in Seq(Ids)
      BY <1>7, <2>2
    <2> QED BY <2>1, <2>3
  <1>9. list[d] \in Seq(Ids) /\ IsInjective(list[d])
    BY <1>3 DEF NoCommentTwice
  <1>10. list[d] \o s \in Seq(Ids) /\ IsInjective(list[d] \o s)
    <2>1. Range(list[d]) \cap Range(s) = {}
      <3> SUFFICES ASSUME NEW c \in Ids, c \in Range(list[d]), c \in added PROVE FALSE
        BY <1>5, <1>8 DEF Ids
      <3>1. docs[CommentDoc(c)] = NoDoc /\ ~Brings(d, c)
        BY <1>1, <1>3 DEF ListsHeard
      <3> QED BY <3>1, <1>1, <1>3, VisibleFacts
    <2> QED BY <2>1, <1>7, <1>8, <1>9, InjectiveConcat, ConcatProperties
  <1>11. /\ list' \in [Devices -> Seq(Ids)] /\ list'[d] = list[d] \o s
         /\ \A e \in Devices \ {d} : list'[e] = list[e]
         /\ heard' \in [Devices -> SUBSET Ids] /\ heard'[d] = Visible(d)
         /\ \A e \in Devices \ {d} : heard'[e] = heard[e]
    <2>1. Visible(d) \in SUBSET Ids
      BY DEF Visible
    <2>2. PICK V \in SUBSET Ids : V = Visible(d)
      BY <2>1
    <2> QED BY <2>2, <1>2, <1>3, <1>4, <1>10
  <1>12. NoCommentTwice'
    BY <1>3, <1>10, <1>11 DEF NoCommentTwice
  <1>13. CommentsTypeOK' /\ StateOK'
    BY <1>2, <1>3, <1>11 DEF CommentsTypeOK, StateOK
  <1>14. ASSUME ~Failures PROVE Waiting'
    BY <1>2, <1>14 DEF CommentsIndInv, AcceptedInv, Waiting, Lone, InBar
  <1>15. ListsHeard'
    <2>1. \A e \in Devices, c \in Ids : Brings(e, c)' <=> Brings(e, c)
      BY <1>2 DEF Brings
    <2> SUFFICES ASSUME NEW a \in Devices, NEW c \in Ids, c \in Range(list'[a]) \/ c \in heard'[a]
                 PROVE  /\ c <= sent
                        /\ docs[CommentDoc(c)] # NoDoc \/ \A e \in Devices : e # a => ~Brings(e, c)
                        /\ c \in Range(list'[a]) /\ c \notin heard'[a] =>
                              /\ docs[CommentDoc(c)] = NoDoc
                              /\ \A e \in Devices : ~Brings(e, c)
      BY <2>1, <1>2 DEF ListsHeard
    <2>2. CASE a # d
      BY <2>2, <1>3, <1>11 DEF ListsHeard
    <2>3. CASE a = d /\ c \in Visible(d)
      <3>1. docs[CommentDoc(c)] # NoDoc \/ Brings(d, c)
        BY <2>3, <1>3, VisibleFacts
      <3>2. c <= sent
        BY <3>1, <1>3 DEF Numbered, Brings
      <3>3. Brings(d, c) => \A e \in Devices : e # d => ~Brings(e, c)
        BY <1>3 DEF OneWriter
      <3> QED BY <3>1, <3>2, <3>3, <2>3, <1>11
    <2>4. CASE a = d /\ c \notin Visible(d)
      <3>1. docs[CommentDoc(c)] = NoDoc /\ ~Brings(d, c)
        BY <2>4, <1>3, VisibleFacts
      <3>2. c \in Range(list[d]) \/ c \in Range(s)
        <4>1. Range(list[d] \o s) = Range(list[d]) \cup Range(s)
          BY <1>8, <1>9, RangeOfConcat
        <4> QED BY <4>1, <2>4, <1>11
      <3>3. c \in Range(list[d])
        BY <3>2, <2>4, <1>1, <1>8
      <3>4. c <= sent /\ \A e \in Devices : e # d => ~Brings(e, c)
        BY <3>1, <3>3, <1>3 DEF ListsHeard
      <3>5. \A e \in Devices : ~Brings(e, c)
        BY <3>1, <3>4
      <3> QED BY <3>1, <3>4, <3>5, <2>4
    <2> QED BY <2>2, <2>3, <2>4
  <1> QED BY <1>2, <1>12, <1>13, <1>14, <1>15, ScreenStep DEF ScreenOK

LEMMA AnimateOK ==
    ASSUME CommentsIndInv, NEW d \in Devices, Animate(d), hasty' = hasty
    PROVE  CommentsIndInv'
  <1>1. /\ hud' = [hud EXCEPT ![d] = animated(hud[d])] /\ Animating(hud[d])
        /\ open' = open /\ list' = list /\ heard' = heard /\ bar' = bar /\ draft' = draft /\ screens' = screens
        /\ docs' = docs /\ queue' = queue /\ gets' = gets /\ mainq' = mainq
        /\ sent' = sent /\ typed' = typed /\ crashes' = crashes
    BY DEF Animate
  <1>2. CommentsTypeOK /\ StateOK /\ NoCommentTwice
    BY DEF CommentsIndInv, ListsInv
  <1>3. hud' \in [Devices -> Huds({"comments"})]
    <2>1. hud \in [Devices -> Huds({"comments"})]
      BY <1>2 DEF StateOK
    <2>2. animated(hud[d]) \in Huds({"comments"})
      BY <2>1, <1>1, HudFacts
    <2> QED BY <2>1, <2>2, <1>1
  <1>4. StateOK' /\ NoCommentTwice'
    BY <1>1, <1>2, <1>3 DEF StateOK, NoCommentTwice
  <1>5. CommentsTypeOK'
    <2>1. \A e \in Devices : hud'[e] \in Huds({"comments"})
      BY <1>3
    <2> QED BY <2>1, <1>1, <1>2 DEF CommentsTypeOK
  <1>6. ASSUME ~Failures PROVE Waiting'
    BY <1>1, <1>6 DEF CommentsIndInv, AcceptedInv, Waiting, Lone, InBar
  <1>7. ListsHeard'
    BY <1>1, HeardStill DEF CommentsIndInv, ListsInv
  <1> QED BY <1>1, <1>4, <1>5, <1>6, <1>7, ScreenStep DEF ScreenOK

-----------------------------------------------------------------------------
(* The server answers.                                                     *)

\* Nothing but the server's documents, the writes and the blocks changes.
AppKept ==
    /\ open' = open /\ list' = list /\ heard' = heard /\ bar' = bar /\ draft' = draft /\ hud' = hud
    /\ sent' = sent /\ typed' = typed /\ screens' = screens /\ crashes' = crashes /\ hasty' = hasty

\* What the types say of the documents.
DocsOK ==
    /\ docs \in [Paths -> Data \cup Users \cup {NoDoc}]
    /\ \A c \in Ids : docs[CommentDoc(c)] \in Data \cup {NoDoc} /\ docs[NoteDoc(c)] \in Users \cup {NoDoc}

LEMMA AppKeptOK ==
    ASSUME ListsInv, AppKept, DocsOK'
    PROVE  CommentsTypeOK' /\ NoCommentTwice' /\ StateOK'
  <1>1. CommentsTypeOK /\ NoCommentTwice /\ StateOK
    BY DEF ListsInv
  <1>2. CommentsTypeOK'
    BY <1>1 DEF AppKept, CommentsTypeOK, DocsOK, Data
  <1> QED BY <1>1, <1>2 DEF AppKept, StateOK, NoCommentTwice, DocsOK

\* The answered write w leaves the queue of d: what is left are writes and
\* blocks from before, and the block of w.
AnsweredWrite(d, done, w) ==
    /\ w \in Range(queue[d])
    /\ \E path \in w.paths :
          /\ w.paths = {path}
          /\ docs' = IF done THEN [docs EXCEPT ![path] = w.data] ELSE docs
    /\ \A e \in Devices : \A v \in Range(queue'[e]) : v \in Range(queue[e])
    /\ \A e \in Devices : \A v \in Range(queue[e]) : v = w \/ v \in Range(queue'[e])
    /\ \A e \in Devices : \A b \in Range(mainq[e]) : b \in Range(mainq'[e])
    /\ \A e \in Devices : \A b \in Range(mainq'[e]) :
          \/ b \in Range(mainq[e])
          \/ e = d /\ w.then # NoThen /\ b = [then |-> w.then, res |-> done]
    /\ w.then # NoThen => [then |-> w.then, res |-> done] \in Range(mainq'[d])
    /\ \A e \in Devices \ {d} : queue'[e] = queue[e] /\ mainq'[e] = mainq[e]

LEMMA AnswerFacts ==
    ASSUME ListsInv, NEW d \in Devices, NEW done \in BOOLEAN, Answer(d, done)
    PROVE  /\ FlightOK'
           /\ \E w \in CommentWrites \cup NoteWrites : AnsweredWrite(d, done, w)
  <1> DEFINE WS == CommentWrites \cup NoteWrites
  <1>1. queue \in QueuesOf(WS) /\ mainq \in QueuesOf(PostedBlocks) /\ gets \in QueuesOf({})
    BY DEF ListsInv, FlightOK
  <1>2. \A w \in WS : OneDocument(w) /\ Tells(w, PostedBlocks) /\ ~w.upd
    BY WriteFacts
  <1> HIDE DEF WS
  <1>3. /\ queue' \in QueuesOf(WS) /\ mainq' \in QueuesOf(PostedBlocks)
        /\ \E w \in WS : \E path \in w.paths : w.paths = {path} /\ Answered(d, done, w, path)
    BY <1>1, <1>2, AnswerOne
  <1>4. PICK w \in WS : \E path \in w.paths : w.paths = {path} /\ Answered(d, done, w, path)
    BY <1>3
  <1>5. PICK path \in w.paths : w.paths = {path} /\ Answered(d, done, w, path)
    BY <1>4
  <1>6. Accepts(w, path) = TRUE
    BY <1>2 DEF Accepts
  <1>7. /\ docs' = IF done THEN [docs EXCEPT ![path] = w.data] ELSE docs
        /\ gets' = gets
        /\ \A e \in Devices \ {d} : queue'[e] = queue[e] /\ mainq'[e] = mainq[e]
        /\ Range(queue[d]) = {w} \cup Range(queue'[d])
        /\ Range(mainq'[d]) = Range(mainq[d]) \cup
              (IF w.then = NoThen THEN {} ELSE {[then |-> w.then, res |-> done]})
    BY <1>5, <1>6 DEF Answered
  <1>8. FlightOK'
    BY <1>1, <1>3, <1>7 DEF FlightOK, WS
  <1>9. w \in Range(queue[d])
    BY <1>7
  <1>10. \A e \in Devices :
            /\ \A v \in Range(queue'[e]) : v \in Range(queue[e])
            /\ \A v \in Range(queue[e]) : v = w \/ v \in Range(queue'[e])
            /\ \A b \in Range(mainq[e]) : b \in Range(mainq'[e])
            /\ \A b \in Range(mainq'[e]) :
                      \/ b \in Range(mainq[e])
                      \/ e = d /\ w.then # NoThen /\ b = [then |-> w.then, res |-> done]
    BY <1>7
  <1>11. w.then # NoThen => [then |-> w.then, res |-> done] \in Range(mainq'[d])
    BY <1>7
  <1>12. w \in CommentWrites \cup NoteWrites
    BY DEF WS
  <1>13. AnsweredWrite(d, done, w)
    BY <1>5, <1>7, <1>9, <1>10, <1>11 DEF AnsweredWrite
  <1> QED BY <1>8, <1>12, <1>13

\* The documents after the answer to w.
LEMMA AnswerDocs ==
    ASSUME ListsInv, NEW d \in Devices, NEW w \in Range(queue[d]), w \in CommentWrites \cup NoteWrites,
           NEW done \in BOOLEAN, NEW path, w.paths = {path},
           docs' = IF done THEN [docs EXCEPT ![path] = w.data] ELSE docs
    PROVE  /\ DocsOK' /\ CommentsKept
           /\ \A c \in Ids : Stores(w, c) /\ done => docs'[CommentDoc(c)] = w.data
           /\ \A c \in Ids : ~Stores(w, c) => docs'[CommentDoc(c)] = docs[CommentDoc(c)]
           /\ \A c \in Ids : Notifies(w, c) /\ done => docs'[NoteDoc(c)] = w.data
           /\ \A c \in Ids : ~Notifies(w, c) => docs'[NoteDoc(c)] = docs[NoteDoc(c)]
           /\ ~done => docs' = docs
  <1>1. DocsOK
    BY DEF ListsInv, StateOK, CommentsTypeOK, DocsOK, Data
  <1>2. CASE ~done
    BY <1>1, <1>2 DEF DocsOK, CommentsKept
  <1>3. CASE done /\ w \in CommentWrites
    <2>1. PICK c \in Ids : w.paths = {CommentDoc(c)} /\ Stores(w, c)
      BY <1>3, CommentWriteFacts
    <2>2. w.data \in Data /\ w.data # NoDoc
      BY <1>3, CommentWriteFacts
    <2>3. path = CommentDoc(c) /\ path \in Paths
      BY <2>1, PathFacts
    <2>4. docs' = [docs EXCEPT ![path] = w.data]
      BY <1>3
    <2>5. /\ docs' \in [Paths -> Data \cup Users \cup {NoDoc}]
          /\ docs'[path] = w.data
          /\ \A p \in Paths \ {path} : docs'[p] = docs[p]
      <3>1. w.data \in Data \cup Users
        BY <2>2
      <3> QED BY <3>1, <1>1, <2>3, <2>4, StoreOne DEF DocsOK
    <2>6. \A a \in Ids : a # c => docs'[CommentDoc(a)] = docs[CommentDoc(a)]
      BY <2>3, <2>5, PathFacts
    <2>7. \A a \in Ids : docs'[NoteDoc(a)] = docs[NoteDoc(a)]
      BY <2>3, <2>5, PathFacts
    <2>8. docs'[CommentDoc(c)] = w.data
      BY <2>3, <2>5
    <2>9. docs[CommentDoc(c)] # NoDoc => docs[CommentDoc(c)] = w.data
      BY <2>1 DEF ListsInv, OneText
    <2>10. CommentsKept
      BY <2>6, <2>8, <2>9 DEF CommentsKept
    <2>11. DocsOK'
      BY <1>1, <2>2, <2>5, <2>6, <2>7, <2>8 DEF DocsOK
    <2>12. \A a \in Ids : (Stores(w, a) <=> a = c) /\ ~Notifies(w, a)
      BY <2>1, Apart
    <2> QED BY <1>3, <2>6, <2>7, <2>8, <2>10, <2>11, <2>12
  <1>4. CASE done /\ w \in NoteWrites
    <2>1. PICK c \in Ids : w.paths = {NoteDoc(c)} /\ Notifies(w, c)
      BY <1>4, NoteWriteFacts
    <2>2. w.data \in Users /\ w.data # NoDoc
      BY <1>4, NoteWriteFacts
    <2>3. path = NoteDoc(c) /\ path \in Paths
      BY <2>1, PathFacts
    <2>4. docs' = [docs EXCEPT ![path] = w.data]
      BY <1>4
    <2>5. /\ docs' \in [Paths -> Data \cup Users \cup {NoDoc}]
          /\ docs'[path] = w.data
          /\ \A p \in Paths \ {path} : docs'[p] = docs[p]
      <3>1. w.data \in Data \cup Users
        BY <2>2
      <3> QED BY <3>1, <1>1, <2>3, <2>4, StoreOne DEF DocsOK
    <2>6. \A a \in Ids : a # c => docs'[NoteDoc(a)] = docs[NoteDoc(a)]
      BY <2>3, <2>5, PathFacts
    <2>7. \A a \in Ids : docs'[CommentDoc(a)] = docs[CommentDoc(a)]
      BY <2>3, <2>5, PathFacts
    <2>8. docs'[NoteDoc(c)] = w.data
      BY <2>3, <2>5
    <2>9. CommentsKept
      BY <2>7 DEF CommentsKept
    <2>10. DocsOK'
      BY <1>1, <2>2, <2>5, <2>6, <2>7, <2>8 DEF DocsOK
    <2>11. \A a \in Ids : (Notifies(w, a) <=> a = c) /\ ~Stores(w, a)
      BY <2>1, Apart
    <2> QED BY <1>4, <2>6, <2>7, <2>8, <2>9, <2>10, <2>11
  <1> QED BY <1>2, <1>3, <1>4

\* The answer when one thing is in flight.
LEMMA AnswerLone ==
    ASSUME ListsInv, NEW d \in Devices, NEW done \in BOOLEAN, Answer(d, done), Lone(d)
    PROVE  Lone(d)'
  <1>1. queue[d] # <<>> /\ queue \in QueuesOf(CommentWrites \cup NoteWrites) /\ mainq \in QueuesOf(PostedBlocks)
    BY DEF Answer, ListsInv, FlightOK
  <1>2. PICK w : w = Head(queue[d])
    OBVIOUS
  <1>3. PICK path \in w.paths :
          /\ queue' = [queue EXCEPT ![d] =
                 IF w.paths = {path} THEN Tail(@)
                 ELSE <<[w EXCEPT !.paths = @ \ {path}]>> \o Tail(@)]
          /\ mainq' = IF w.then = NoThen THEN mainq
                      ELSE [mainq EXCEPT ![d] = Append(@, [then |-> w.then, res |-> done /\ Accepts(w, path)])]
    BY <1>2 DEF Answer
  <1>4. queue[d] \in Seq(CommentWrites \cup NoteWrites)
    BY <1>1 DEF QueuesOf
  <1>5. /\ w \in CommentWrites \cup NoteWrites
        /\ Range(queue[d]) = {w} \cup Range(Tail(queue[d]))
    BY <1>1, <1>2, <1>4, RangeOfTail
  <1>6. w.paths = {path} /\ ~w.upd /\ Tells(w, PostedBlocks)
    BY <1>3, <1>5, WriteFacts DEF OneDocument
  <1>7. queue'[d] = Tail(queue[d])
    BY <1>1, <1>3, <1>6 DEF QueuesOf
  <1>8. CASE mainq[d] = <<>> /\ \A v \in Range(queue[d]) : v.then = NoThen
    <2>1. w.then = NoThen
      BY <1>5, <1>8
    <2>2. mainq'[d] = <<>>
      BY <2>1, <1>3, <1>8
    <2> QED BY <2>2, <1>5, <1>7, <1>8 DEF Lone
  <1>9. CASE mainq[d] = <<>> /\ \E v \in CommentWrites : queue[d] = <<v>>
    <2>1. Tail(queue[d]) = <<>>
      BY <1>9
    <2>2. queue'[d] = <<>> /\ Range(queue'[d]) = {}
      BY <2>1, <1>7, RangeOfEmpty
    <2>3. CASE w.then = NoThen
      BY <2>2, <2>3, <1>3, <1>9 DEF Lone
    <2>4. CASE w.then # NoThen
      <3>1. PICK b : b = [then |-> w.then, res |-> done /\ Accepts(w, path)]
        OBVIOUS
      <3>2. b \in PostedBlocks
        BY <3>1, <2>4, <1>6 DEF Tells, Accepts
      <3>3. mainq' = [mainq EXCEPT ![d] = Append(mainq[d], b)]
        BY <1>3, <2>4, <3>1
      <3>4. mainq'[d] = <<b>>
        BY <3>3, <1>1, <1>9 DEF QueuesOf
      <3> QED BY <2>2, <3>2, <3>4 DEF Lone
    <2> QED BY <2>3, <2>4
  <1>10. CASE queue[d] = <<>>
    BY <1>1, <1>10
  <1> QED BY <1>8, <1>9, <1>10 DEF Lone

\* The server answers the oldest write of d.
LEMMA AnswerOK ==
    ASSUME CommentsIndInv, NEW d \in Devices, NEW done \in BOOLEAN, Answer(d, done),
           AppKept, ~Failures => done
    PROVE  CommentsIndInv'
  <1>1. ListsInv
    BY DEF CommentsIndInv
  <1>2. FlightOK'
    BY <1>1, AnswerFacts
  <1>3. PICK w \in CommentWrites \cup NoteWrites : AnsweredWrite(d, done, w)
    BY <1>1, AnswerFacts
  <1> USE DEF AnsweredWrite
  <1>4. PICK path \in w.paths :
            /\ w.paths = {path}
            /\ docs' = IF done THEN [docs EXCEPT ![path] = w.data] ELSE docs
    BY <1>3
  <1>5. /\ DocsOK' /\ CommentsKept
        /\ \A c \in Ids : Stores(w, c) /\ done => docs'[CommentDoc(c)] = w.data
        /\ \A c \in Ids : ~Stores(w, c) => docs'[CommentDoc(c)] = docs[CommentDoc(c)]
        /\ \A c \in Ids : Notifies(w, c) /\ done => docs'[NoteDoc(c)] = w.data
        /\ \A c \in Ids : ~Notifies(w, c) => docs'[NoteDoc(c)] = docs[NoteDoc(c)]
        /\ ~done => docs' = docs
    BY <1>1, <1>3, <1>4, AnswerDocs
  <1>6. CommentsTypeOK' /\ NoCommentTwice' /\ StateOK'
    BY <1>1, <1>5, AppKeptOK
  <1>7. WritesOwn' /\ AllAnswered'
    BY <1>1, <1>3 DEF ListsInv, WritesOwn, AllAnswered, AppKept
  <1>8. Numbered'
    <2>1. ASSUME NEW c \in Ids, docs'[CommentDoc(c)] # NoDoc PROVE c <= sent
      <3>1. CASE Stores(w, c)
        BY <3>1, <1>1, <1>3 DEF ListsInv, Numbered
      <3>2. CASE ~Stores(w, c)
        BY <3>2, <2>1, <1>1, <1>5 DEF ListsInv, Numbered
      <3> QED BY <3>1, <3>2
    <2>2. \A c \in Ids : \A e \in Devices : \A v \in Range(queue'[e]) : Stores(v, c) => c <= sent
      BY <1>1, <1>3 DEF ListsInv, Numbered
    <2>3. sent' = sent
      BY DEF AppKept
    <2> QED BY <2>1, <2>2, <2>3 DEF Numbered
  <1>9. OneText'
    <2> SUFFICES ASSUME NEW c \in Ids, NEW e \in Devices, NEW v \in Range(queue'[e]), Stores(v, c)
                 PROVE  /\ docs'[CommentDoc(c)] # NoDoc => docs'[CommentDoc(c)] = v.data
                        /\ \A f \in Devices : \A x \in Range(queue'[f]) : Stores(x, c) => x.data = v.data
      BY DEF OneText
    <2>1. OneText /\ v \in Range(queue[e])
      BY <1>1, <1>3 DEF ListsInv
    <2>2. \A f \in Devices : \A x \in Range(queue[f]) : Stores(x, c) => x.data = v.data
      BY <2>1 DEF OneText
    <2>3. docs[CommentDoc(c)] # NoDoc => docs[CommentDoc(c)] = v.data
      BY <2>1 DEF OneText
    <2>4. docs'[CommentDoc(c)] \in {docs[CommentDoc(c)], v.data}
      <3>1. CASE Stores(w, c) /\ done
        BY <3>1, <2>2, <1>3, <1>5
      <3>2. CASE ~(Stores(w, c) /\ done)
        BY <3>2, <1>5
      <3> QED BY <3>1, <3>2
    <2> QED BY <2>2, <2>3, <2>4, <1>3
  <1>12. OneWriter' /\ ListsHeard'
    <2>1. OneWriter /\ ListsHeard /\ Numbered
      BY <1>1 DEF ListsInv
    <2>2. ASSUME NEW c \in Ids
          PROVE  /\ c <= sent => c <= sent'
                 /\ docs[CommentDoc(c)] # NoDoc => docs'[CommentDoc(c)] # NoDoc
                 /\ (\A e \in Devices : ~Brings(e, c)) => docs'[CommentDoc(c)] = docs[CommentDoc(c)]
                 /\ \A e \in Devices : Brings(e, c)' => Brings(e, c)
      BY <1>3, <1>5 DEF AppKept, CommentsKept, Brings
    <2>3. \A e \in Devices : list'[e] = list[e] /\ heard'[e] = heard[e]
      BY DEF AppKept
    <2> QED BY <2>1, <2>2, <2>3, HeardKept
  <1>10. ListsInv'
    BY <1>2, <1>6, <1>7, <1>8, <1>9, <1>12 DEF ListsInv
  <1>11. ASSUME ~Failures PROVE AcceptedInv'
    <2>1. done /\ PostedStored /\ NotesStored /\ NotesDue /\ Waiting /\ FlightOK
      BY <1>1, <1>11 DEF CommentsIndInv, AcceptedInv, ListsInv
    <2>2. ASSUME NEW c \in Ids, NEW u, By(c, u) PROVE By(c, u)'
      BY <2>2, <1>5 DEF By, CommentsKept
    <2>3. ASSUME NEW b, b = [then |-> w.then, res |-> done], w.then # NoThen
          PROVE  \E c \in Ids : Stores(w, c) /\ b.then.c = c /\ docs'[CommentDoc(c)] = w.data /\ By(c, UidOf[d])'
      <3>1. w \in CommentWrites
        BY <2>3, NoteWriteFacts
      <3>2. PICK c \in Ids : Stores(w, c) /\ \E k \in Bars : w.then = Posted(c, k)
        BY <2>3, <3>1, CommentWriteFacts
      <3>3. b.then.c = c
        BY <2>3, <3>2, PostedFacts
      <3>4. docs'[CommentDoc(c)] = w.data /\ w.data # NoDoc
        BY <2>1, <3>1, <3>2, <1>5, CommentWriteFacts
      <3>5. w.data.uid = UidOf[d]
        BY <3>1, <1>1, <1>3 DEF ListsInv, WritesOwn
      <3> QED BY <3>2, <3>3, <3>4, <3>5 DEF By
    <2>4. PostedStored'
      <3> SUFFICES ASSUME NEW e \in Devices, NEW b \in Range(mainq'[e]) PROVE By(b.then.c, UidOf[e])'
        BY DEF PostedStored
      <3>1. CASE b \in Range(mainq[e])
        <4>1. b \in PostedBlocks
          BY <2>1, <3>1, InQueue DEF FlightOK
        <4>2. b.then.c \in Ids /\ By(b.then.c, UidOf[e])
          BY <2>1, <3>1, <4>1, PostedFacts DEF PostedStored
        <4> QED BY <4>2, <2>2
      <3>2. CASE e = d /\ w.then # NoThen /\ b = [then |-> w.then, res |-> done]
        BY <2>3, <3>2
      <3> QED BY <3>1, <3>2, <1>3
    <2>5. NotesStored'
      <3>1. ASSUME NEW c \in Ids, NEW e \in Devices, NEW v \in Range(queue'[e]), Notifies(v, c)
            PROVE  By(c, UidOf[e])'
        BY <3>1, <2>1, <2>2, <1>3 DEF NotesStored
      <3>2. ASSUME NEW c \in Ids, docs'[NoteDoc(c)] # NoDoc
            PROVE  docs'[CommentDoc(c)] # NoDoc /\ docs'[CommentDoc(c)].uid # Owner
        <4>1. CASE Notifies(w, c)
          <5>1. By(c, UidOf[d])'
            BY <4>1, <2>1, <2>2, <1>3 DEF NotesStored
          <5>2. UidOf[d] # Owner
            BY <4>1, <1>1, <1>3 DEF ListsInv, WritesOwn, Notifies
          <5> QED BY <5>1, <5>2 DEF By
        <4>2. CASE ~Notifies(w, c)
          <5>1. docs[NoteDoc(c)] # NoDoc
            BY <3>2, <4>2, <1>5
          <5>2. docs[CommentDoc(c)] # NoDoc /\ docs[CommentDoc(c)].uid # Owner
            BY <5>1, <2>1 DEF NotesStored
          <5> QED BY <5>2, <1>5 DEF CommentsKept
        <4> QED BY <4>1, <4>2
      <3> QED BY <3>1, <3>2 DEF NotesStored
    <2>6. NotesDue'
      <3> SUFFICES ASSUME crashes' = 0, NEW c \in Ids, docs'[CommentDoc(c)] # NoDoc,
                          docs'[CommentDoc(c)].uid # Owner, docs'[NoteDoc(c)] = NoDoc
                   PROVE  \E e \in Devices : NoteComing(e, c)'
        BY DEF NotesDue
      <3>1. crashes = 0
        BY DEF AppKept
      <3>2. ASSUME Stores(w, c) PROVE NoteComing(d, c)'
        <4>1. w.then # NoThen
          BY <3>1, <3>2, <1>1, <1>3 DEF ListsInv, AllAnswered, Stores
        <4>2. PICK b : b = [then |-> w.then, res |-> done]
          OBVIOUS
        <4>3. b.then.c = c
          BY <4>1, <4>2, <2>3, <3>2, Apart
        <4> QED BY <4>1, <4>2, <4>3, <1>3 DEF NoteComing
      <3>3. ASSUME ~Stores(w, c) PROVE \E e \in Devices : NoteComing(e, c)'
        <4>1. ~Notifies(w, c)
          <5> SUFFICES ASSUME Notifies(w, c) PROVE FALSE
            OBVIOUS
          <5>1. w.data # NoDoc
            BY NoteWriteFacts DEF Notifies
          <5> QED BY <5>1, <2>1, <1>5
        <4>2. docs[CommentDoc(c)] # NoDoc /\ docs[CommentDoc(c)].uid # Owner /\ docs[NoteDoc(c)] = NoDoc
          BY <3>3, <4>1, <1>5
        <4>3. PICK e \in Devices : NoteComing(e, c)
          BY <4>2, <3>1, <2>1 DEF NotesDue
        <4>4. NoteComing(e, c)'
          <5>1. ASSUME NEW v \in Range(queue[e]), Notifies(v, c) PROVE v \in Range(queue'[e])
            BY <5>1, <4>1, <1>3
          <5> QED BY <5>1, <4>3, <1>3 DEF NoteComing
        <4> QED BY <4>4
      <3> QED BY <3>2, <3>3
    <2>7. Waiting'
      <3>1. OthersKeep(d)
        BY <1>3 DEF OthersKeep, AppKept
      <3>2. ASSUME ~hasty' PROVE ~hasty /\ Lone(d)' /\ InBar(d)'
        <4>1. ~hasty /\ bar' = bar /\ draft' = draft
          BY <3>2 DEF AppKept
        <4>2. Lone(d) /\ InBar(d)
          BY <4>1, <2>1 DEF Waiting
        <4>3. Lone(d)'
          BY <4>2, <1>1, AnswerLone
        <4>4. ASSUME NEW v \in Range(queue'[d]), v.then # NoThen, v.then.bar = bar[d]
              PROVE  v.data = Comment(UidOf[d], draft[d])
          BY <4>4, <4>2, <1>3 DEF InBar
        <4>5. ASSUME NEW b \in Range(mainq'[d]), b.then.bar = bar[d]
              PROVE  docs'[CommentDoc(b.then.c)] = Comment(UidOf[d], draft[d])
          <5>1. CASE b \in Range(mainq[d])
            <6>1. b \in PostedBlocks
              BY <2>1, <5>1, InQueue DEF FlightOK
            <6>2. b.then.c \in Ids /\ docs[CommentDoc(b.then.c)] # NoDoc
              BY <2>1, <5>1, <6>1, PostedFacts DEF PostedStored, By
            <6>3. docs'[CommentDoc(b.then.c)] = docs[CommentDoc(b.then.c)]
              BY <6>2, <1>5 DEF CommentsKept
            <6> QED BY <6>3, <5>1, <4>5, <4>2 DEF InBar
          <5>2. CASE w.then # NoThen /\ b = [then |-> w.then, res |-> done]
            <6>1. docs'[CommentDoc(b.then.c)] = w.data
              BY <5>2, <2>3
            <6>2. w.then.bar = bar[d]
              BY <5>2, <4>5
            <6> QED BY <6>1, <6>2, <5>2, <4>2, <1>3 DEF InBar
          <5> QED BY <5>1, <5>2, <1>3
        <4>6. InBar(d)'
          BY <4>1, <4>4, <4>5 DEF InBar
        <4> QED BY <4>1, <4>3, <4>6
      <3> QED BY <2>1, <3>1, <3>2, <1>5, OthersWait
    <2> QED BY <2>4, <2>5, <2>6, <2>7 DEF AcceptedInv
  <1> QED BY <1>10, <1>11 DEF CommentsIndInv

\* Nothing is read: the server can only answer writes.
LEMMA DeliverOK ==
    ASSUME CommentsIndInv, NEW d \in Devices, Deliver(d), hasty' = hasty
    PROVE  CommentsIndInv'
  <1>1. AppKept
    BY DEF Deliver, appVars, AppKept
  <1>2. DOMAIN gets[d] = {}
    <2>1. gets[d] \in Seq({})
      BY DEF CommentsIndInv, ListsInv, FlightOK, QueuesOf
    <2> QED BY <2>1
  <1>3. Answer(d, TRUE) \/ (Failures /\ Answer(d, FALSE))
    BY <1>2 DEF Deliver, Network, Serve, Fail, Commit, Refuse
  <1> QED BY <1>1, <1>3, AnswerOK

-----------------------------------------------------------------------------
(* A comment is sent, and the completion block runs.                       *)

LEMMA UploadFacts ==
    ASSUME CommentsTypeOK, NEW d \in Devices, NEW c \in Ids
    PROVE  \E w \in CommentWrites :
              /\ uploadComment(d, c) = <<w>>
              /\ Stores(w, c) /\ w.then # NoThen
              /\ w.data = Comment(UidOf[d], draft[d]) /\ w.data.uid = UidOf[d]
  <1>1. PICK w : w = setData(CommentDoc(c), Comment(UidOf[d], draft[d]), Posted(c, bar[d]))
    OBVIOUS
  <1>2. /\ w.paths = {CommentDoc(c)} /\ w.data = Comment(UidOf[d], draft[d])
        /\ w.then = Posted(c, bar[d])
    BY <1>1 DEF setData, Write
  <1>3. bar[d] \in Bars /\ Comment(UidOf[d], draft[d]) \in Data
    BY CommentsAssumption DEF CommentsTypeOK, Bars, Comment, Data
  <1>4. w \in CommentWritesOf(c)
    BY <1>1, <1>3 DEF CommentWritesOf, setData, Write
  <1>5. w \in CommentWrites
    BY <1>4 DEF CommentWrites
  <1>6. w.data.uid = UidOf[d]
    BY <1>2 DEF Comment
  <1>7. w.then # NoThen
    BY <1>2, <1>3, PostedFacts
  <1> QED BY <1>1, <1>2, <1>5, <1>6, <1>7 DEF uploadComment, Stores

LEMMA UploadOK ==
    ASSUME CommentsIndInv, NEW d \in Devices, wantsToUploadComment(d), hasty' = (hasty \/ ~Settled(d))
    PROVE  CommentsIndInv'
  <1>1. /\ sent < MaxComments /\ sent' = sent + 1
        /\ hud' = [hud EXCEPT ![d] = show(hud[d], "comments")]
        /\ Issue(d, uploadComment(d, sent + 1), <<>>)
        /\ open' = open /\ list' = list /\ heard' = heard /\ bar' = bar /\ draft' = draft
        /\ typed' = typed /\ screens' = screens /\ crashes' = crashes
    BY DEF wantsToUploadComment
  <1>2. ListsInv /\ CommentsTypeOK /\ StateOK /\ NoCommentTwice /\ FlightOK /\ hasty \in BOOLEAN
    BY DEF CommentsIndInv, ListsInv, CommentsTypeOK
  <1>3. PICK c : c = sent + 1
    OBVIOUS
  <1>4. c \in Ids /\ sent \in Nat /\ ~(c <= sent) /\ sent' \in 0..MaxComments
    BY <1>1, <1>2, <1>3, CommentsAssumption DEF StateOK, Ids
  <1>5. PICK w \in CommentWrites :
              /\ uploadComment(d, c) = <<w>>
              /\ Stores(w, c) /\ w.then # NoThen
              /\ w.data = Comment(UidOf[d], draft[d]) /\ w.data.uid = UidOf[d]
    BY <1>2, <1>4, UploadFacts
  <1> DEFINE WS == CommentWrites \cup NoteWrites
  <1>6. /\ queue' \in QueuesOf(WS) /\ gets' \in QueuesOf({})
        /\ Issued(d, <<w>>, <<>>)
    <2>1. queue \in QueuesOf(WS) /\ gets \in QueuesOf({}) /\ Issue(d, <<w>>, <<>>)
      BY <1>1, <1>2, <1>3, <1>5 DEF FlightOK
    <2>2. <<w>> \in Seq(WS) /\ <<>> \in Seq({})
      OBVIOUS
    <2> HIDE DEF WS
    <2> QED BY <2>1, <2>2, IssueOne
  <1>7. /\ docs' = docs /\ mainq' = mainq
        /\ \A e \in Devices \ {d} : queue'[e] = queue[e]
        /\ Range(queue'[d]) = Range(queue[d]) \cup {w}
    BY <1>6, RangeOfOne DEF Issued
  <1>8. \A e \in Devices : \A v \in Range(queue'[e]) : v \in Range(queue[e]) \/ (e = d /\ v = w)
    BY <1>7
  <1>9. \A e \in Devices : \A v \in Range(queue[e]) : v \in Range(queue'[e])
    BY <1>7
  <1>10. FlightOK'
    BY <1>2, <1>6, <1>7 DEF FlightOK
  <1>11. hud' \in [Devices -> Huds({"comments"})]
    <2>1. hud \in [Devices -> Huds({"comments"})]
      BY <1>2 DEF StateOK
    <2>2. show(hud[d], "comments") \in Huds({"comments"})
      BY <2>1, HudFacts
    <2> QED BY <2>1, <2>2, <1>1
  <1>12. StateOK' /\ NoCommentTwice'
    BY <1>1, <1>2, <1>4, <1>7, <1>11 DEF StateOK, NoCommentTwice
  <1>13. CommentsTypeOK'
    <2>1. \A e \in Devices : hud'[e] \in Huds({"comments"})
      BY <1>11
    <2> QED BY <2>1, <1>1, <1>2, <1>7 DEF CommentsTypeOK
  <1>14. WritesOwn' /\ AllAnswered'
    BY <1>1, <1>2, <1>5, <1>8, CommentWriteFacts DEF ListsInv, WritesOwn, AllAnswered
  <1>15. Numbered'
    <2>1. ASSUME NEW a \in Ids, NEW e \in Devices, NEW v \in Range(queue'[e]), Stores(v, a)
          PROVE  a <= sent'
      <3>1. CASE v \in Range(queue[e])
        <4>1. a <= sent
          BY <2>1, <3>1, <1>2 DEF ListsInv, Numbered
        <4> QED BY <4>1, <1>1, <1>4 DEF Ids
      <3>2. CASE v = w
        <4>1. a = c
          BY <2>1, <3>2, <1>4, <1>5, Apart
        <4> QED BY <4>1, <1>1, <1>3, <1>4 DEF Ids
      <3> QED BY <3>1, <3>2, <1>8
    <2>2. ASSUME NEW a \in Ids, docs[CommentDoc(a)] # NoDoc PROVE a <= sent'
      <3>1. a <= sent
        BY <2>2, <1>2 DEF ListsInv, Numbered
      <3> QED BY <3>1, <1>1, <1>4 DEF Ids
    <2> QED BY <2>1, <2>2, <1>7 DEF Numbered
  <1>16. OneText'
    <2>1. /\ docs[CommentDoc(c)] = NoDoc
          /\ \A e \in Devices : \A v \in Range(queue[e]) : ~Stores(v, c)
      BY <1>2, <1>4 DEF ListsInv, Numbered
    <2> SUFFICES ASSUME NEW a \in Ids, NEW e \in Devices, NEW v \in Range(queue'[e]), Stores(v, a)
                 PROVE  /\ docs[CommentDoc(a)] # NoDoc => docs[CommentDoc(a)] = v.data
                        /\ \A f \in Devices : \A x \in Range(queue'[f]) : Stores(x, a) => x.data = v.data
      BY <1>7 DEF OneText
    <2>2. CASE a = c
      <3>1. \A f \in Devices : \A x \in Range(queue'[f]) : Stores(x, a) => x = w
        BY <2>1, <2>2, <1>8
      <3> QED BY <3>1, <2>1, <2>2
    <2>3. CASE a # c
      <3>1. ~Stores(w, a)
        BY <2>3, <1>4, <1>5, Apart
      <3>2. \A f \in Devices : \A x \in Range(queue'[f]) : Stores(x, a) => x \in Range(queue[f])
        BY <3>1, <1>8
      <3> QED BY <3>2, <1>2 DEF ListsInv, OneText
    <2> QED BY <2>2, <2>3
  <1>19. OneWriter' /\ ListsHeard'
    <2>1. OneWriter /\ ListsHeard /\ Numbered
      BY <1>2 DEF ListsInv
    <2>2. ASSUME NEW a \in Ids PROVE a <= sent => a <= sent'
      BY <1>1, <1>4 DEF Ids
    <2>3. ASSUME NEW a \in Ids, NEW e \in Devices, Brings(e, a)'
          PROVE  Brings(e, a) \/ (e = d /\ ~(a <= sent))
      <3>1. PICK v \in Range(queue'[e]) : Stores(v, a)
        BY <2>3 DEF Brings
      <3>2. CASE v \in Range(queue[e])
        BY <3>1, <3>2 DEF Brings
      <3>3. CASE e = d /\ v = w
        BY <3>1, <3>3, <1>4, <1>5, Apart
      <3> QED BY <3>2, <3>3, <1>8
    <2> QED BY <2>1, <2>2, <2>3, <1>1, <1>7, HeardKept
  <1>17. ListsInv'
    BY <1>10, <1>12, <1>13, <1>14, <1>15, <1>16, <1>19 DEF ListsInv
  <1>18. ASSUME ~Failures PROVE AcceptedInv'
    <2>1. PostedStored /\ NotesStored /\ NotesDue /\ Waiting
      BY <1>18 DEF CommentsIndInv, AcceptedInv
    <2>2. PostedStored'
      BY <2>1, <1>7 DEF PostedStored, By
    <2>3. NotesStored'
      <3>1. \A a \in Ids : ~Notifies(w, a)
        BY <1>4, <1>5, Apart
      <3> QED BY <3>1, <2>1, <1>7, <1>8 DEF NotesStored, By
    <2>4. NotesDue'
      BY <2>1, <1>1, <1>7, <1>9 DEF NotesDue, NoteComing
    <2>5. Waiting'
      <3>1. CommentsKept /\ OthersKeep(d)
        BY <1>1, <1>7 DEF CommentsKept, OthersKeep
      <3>2. ASSUME ~hasty' PROVE ~hasty /\ Lone(d)' /\ InBar(d)'
        <4>1. ~hasty /\ Quiet(d)
          BY <3>2 DEF Settled
        <4>2. queue[d] = <<>> /\ mainq[d] = <<>> /\ Range(queue[d]) = {} /\ Range(mainq[d]) = {}
          BY <4>1, QuietRanges DEF Quiet
        <4>3. queue'[d] = <<w>>
          <5>1. queue' = [queue EXCEPT ![d] = queue[d] \o <<w>>]
            BY <1>1, <1>3, <1>5 DEF Issue
          <5>2. queue \in [Devices -> Seq(WS)]
            BY <1>2 DEF FlightOK, QueuesOf
          <5>3. <<>> \o <<w>> = <<w>>
            OBVIOUS
          <5> QED BY <5>1, <5>2, <5>3, <4>2
        <4>4. Lone(d)'
          BY <4>2, <4>3, <1>7 DEF Lone
        <4>5. \A v \in Range(queue'[d]) : v.data = Comment(UidOf[d], draft[d])
          BY <4>2, <1>5, <1>7
        <4>6. InBar(d)'
          BY <4>2, <4>5, <1>1, <1>7 DEF InBar
        <4> QED BY <4>1, <4>4, <4>6
      <3> QED BY <2>1, <3>1, <3>2, <1>2, OthersWait
    <2> QED BY <2>2, <2>3, <2>4, <2>5 DEF AcceptedInv
  <1> QED BY <1>17, <1>18 DEF CommentsIndInv

LEMMA NotificationFacts ==
    ASSUME NEW d \in Devices, NEW c \in Ids
    PROVE  /\ uploadNotification(d, c) \in Seq(NoteWrites)
           /\ \A w \in Range(uploadNotification(d, c)) :
                 Notifies(w, c) /\ w.data = UidOf[d] /\ UidOf[d] # Owner
           /\ UidOf[d] # Owner => \E w \in Range(uploadNotification(d, c)) : Notifies(w, c)
  <1>1. CASE Owner = UidOf[d]
    BY <1>1, RangeOfEmpty DEF uploadNotification
  <1>2. CASE Owner # UidOf[d]
    <2>1. PICK w : w = setData(NoteDoc(c), UidOf[d], NoThen)
      OBVIOUS
    <2>2. w \in [paths : {{NoteDoc(c)}}, data : Users, upd : {FALSE}, then : {NoThen}]
      BY <2>1, CommentsAssumption DEF setData, Write
    <2>3. w \in NoteWrites
      BY <2>2 DEF NoteWrites
    <2>4. w.paths = {NoteDoc(c)} /\ w.data = UidOf[d]
      BY <2>1 DEF setData, Write
    <2>5. uploadNotification(d, c) = <<w>> /\ Range(<<w>>) = {w}
      BY <1>2, <2>1, RangeOfOne DEF uploadNotification
    <2> QED BY <1>2, <2>3, <2>4, <2>5 DEF Notifies
  <1> QED BY <1>1, <1>2

LEMMA PostedOK ==
    ASSUME CommentsIndInv, NEW d \in Devices, posted(d), hasty' = hasty
    PROVE  CommentsIndInv'
  <1>1. /\ mainq[d] # <<>>
        /\ hud' = [hud EXCEPT ![d] = dismiss(hud[d])]
        /\ clearCommentTextView(d, Block(d).bar)
        /\ Take(d, uploadNotification(d, Block(d).c), <<>>)
        /\ open' = open /\ list' = list /\ heard' = heard /\ bar' = bar /\ sent' = sent
        /\ typed' = typed /\ screens' = screens /\ crashes' = crashes
    BY DEF posted, Due
  <1>2. ListsInv /\ CommentsTypeOK /\ StateOK /\ NoCommentTwice /\ FlightOK
    BY DEF CommentsIndInv, ListsInv
  <1> DEFINE WS == CommentWrites \cup NoteWrites
  <1>3. queue \in QueuesOf(WS) /\ gets \in QueuesOf({}) /\ mainq \in QueuesOf(PostedBlocks)
    BY <1>2 DEF FlightOK
  <1>4. PICK h : h = Head(mainq[d])
    OBVIOUS
  <1>5. h \in PostedBlocks
    <2>1. mainq[d] \in Seq(PostedBlocks)
      BY <1>3 DEF QueuesOf
    <2> QED BY <2>1, <1>1, <1>4, RangeOfTail
  <1>6. PICK c \in Ids : c = h.then.c
    BY <1>5, PostedFacts
  <1>7. PICK ws : ws = uploadNotification(d, c)
    OBVIOUS
  <1>8. /\ ws \in Seq(NoteWrites)
        /\ \A w \in Range(ws) : Notifies(w, c) /\ w.data = UidOf[d] /\ UidOf[d] # Owner
        /\ UidOf[d] # Owner => \E w \in Range(ws) : Notifies(w, c)
    BY <1>7, NotificationFacts
  <1>9. /\ queue' \in QueuesOf(WS) /\ gets' \in QueuesOf({}) /\ mainq' \in QueuesOf(PostedBlocks)
        /\ Taken(d, h, ws, <<>>)
    <2>1. Take(d, ws, <<>>)
      BY <1>1, <1>4, <1>6, <1>7 DEF Block
    <2>2. ws \in Seq(WS) /\ <<>> \in Seq({})
      BY <1>8
    <2> HIDE DEF WS
    <2> QED BY <2>1, <2>2, <1>1, <1>3, <1>4, TakeOne
  <1>10. /\ docs' = docs
         /\ \A e \in Devices \ {d} : queue'[e] = queue[e] /\ mainq'[e] = mainq[e]
         /\ Range(mainq[d]) = {h} \cup Range(mainq'[d])
         /\ Range(queue'[d]) = Range(queue[d]) \cup Range(ws)
    BY <1>9 DEF Taken
  <1>11. \A e \in Devices : \A v \in Range(queue'[e]) :
            v \in Range(queue[e]) \/ (e = d /\ Notifies(v, c) /\ v.data = UidOf[d] /\ UidOf[d] # Owner)
    BY <1>8, <1>10
  <1>12. \A e \in Devices : /\ \A v \in Range(queue[e]) : v \in Range(queue'[e])
                            /\ \A b \in Range(mainq'[e]) : b \in Range(mainq[e])
                            /\ \A b \in Range(mainq[e]) : b = h \/ b \in Range(mainq'[e])
    BY <1>10
  <1>13. FlightOK'
    BY <1>9 DEF FlightOK
  <1>14. hud' \in [Devices -> Huds({"comments"})]
    <2>1. hud \in [Devices -> Huds({"comments"})]
      BY <1>2 DEF StateOK
    <2>2. dismiss(hud[d]) \in Huds({"comments"})
      BY <2>1, HudFacts
    <2> QED BY <2>1, <2>2, <1>1
  <1>15. StateOK' /\ NoCommentTwice'
    BY <1>1, <1>2, <1>10, <1>14 DEF StateOK, NoCommentTwice
  <1>16. /\ draft' \in [Devices -> Texts]
         /\ \A e \in Devices \ {d} : draft'[e] = draft[e]
    BY <1>1, <1>2, CommentsAssumption DEF clearCommentTextView, CommentsTypeOK, Texts
  <1>17. CommentsTypeOK'
    <2>1. \A e \in Devices : hud'[e] \in Huds({"comments"})
      BY <1>14
    <2> QED BY <2>1, <1>1, <1>2, <1>10, <1>16 DEF CommentsTypeOK
  <1>18. \A v : \A a \in Ids : Notifies(v, c) => ~Stores(v, a) /\ v \notin CommentWrites
    BY Apart, NoteWriteFacts DEF Notifies
  <1>19. WritesOwn' /\ AllAnswered'
    BY <1>1, <1>2, <1>11, <1>18 DEF ListsInv, WritesOwn, AllAnswered
  <1>20. Numbered' /\ OneText'
    <2>1. \A a \in Ids : \A e \in Devices : \A v \in Range(queue'[e]) :
              Stores(v, a) => v \in Range(queue[e])
      BY <1>11, <1>18
    <2>2. Numbered'
      BY <2>1, <1>1, <1>2, <1>10 DEF ListsInv, Numbered
    <2>3. OneText'
      BY <2>1, <1>2, <1>10 DEF ListsInv, OneText
    <2> QED BY <2>2, <2>3
  <1>23. OneWriter' /\ ListsHeard'
    <2>1. OneWriter /\ ListsHeard /\ Numbered
      BY <1>2 DEF ListsInv
    <2>2. \A a \in Ids : \A e \in Devices : Brings(e, a)' => Brings(e, a)
      BY <1>11, <1>18 DEF Brings
    <2> QED BY <2>1, <2>2, <1>1, <1>10, HeardKept
  <1>21. ListsInv'
    BY <1>13, <1>15, <1>17, <1>19, <1>20, <1>23 DEF ListsInv
  <1>22. ASSUME ~Failures PROVE AcceptedInv'
    <2>1. PostedStored /\ NotesStored /\ NotesDue /\ Waiting
      BY <1>22 DEF CommentsIndInv, AcceptedInv
    <2>2. By(c, UidOf[d])
      BY <2>1, <1>6, <1>10 DEF PostedStored
    <2>3. PostedStored'
      BY <2>1, <1>10, <1>12 DEF PostedStored, By
    <2>4. NotesStored'
      <3>1. ASSUME NEW a \in Ids, NEW e \in Devices, NEW v \in Range(queue'[e]), Notifies(v, a)
            PROVE  By(a, UidOf[e])
        <4>1. CASE v \in Range(queue[e])
          BY <3>1, <4>1, <2>1 DEF NotesStored
        <4>2. CASE e = d /\ Notifies(v, c)
          <5>1. a = c
            BY <3>1, <4>2, Apart
          <5> QED BY <5>1, <4>2, <2>2
        <4> QED BY <4>1, <4>2, <1>11
      <3> QED BY <3>1, <2>1, <1>10 DEF NotesStored, By
    <2>5. NotesDue'
      <3> SUFFICES ASSUME crashes' = 0, NEW a \in Ids, docs'[CommentDoc(a)] # NoDoc,
                          docs'[CommentDoc(a)].uid # Owner, docs'[NoteDoc(a)] = NoDoc
                   PROVE  \E e \in Devices : NoteComing(e, a)'
        BY DEF NotesDue
      <3>1. CASE a = c
        <4>1. UidOf[d] # Owner
          BY <3>1, <2>2, <1>10 DEF By
        <4>2. \E w \in Range(queue'[d]) : Notifies(w, a)
          BY <4>1, <3>1, <1>8, <1>10
        <4> QED BY <4>2 DEF NoteComing
      <3>2. CASE a # c
        <4>1. PICK e \in Devices : NoteComing(e, a)
          BY <2>1, <1>1, <1>10 DEF NotesDue
        <4>2. NoteComing(e, a)'
          BY <4>1, <3>2, <1>6, <1>12 DEF NoteComing
        <4> QED BY <4>2
      <3> QED BY <3>1, <3>2
    <2>6. Waiting'
      <3>1. CommentsKept /\ OthersKeep(d)
        BY <1>1, <1>10, <1>16 DEF CommentsKept, OthersKeep
      <3>2. ASSUME ~hasty' PROVE ~hasty /\ Lone(d)' /\ InBar(d)'
        <4>1. ~hasty /\ Lone(d)
          BY <3>2, <2>1 DEF Waiting
        <4>2. queue[d] = <<>> /\ \E b \in PostedBlocks : mainq[d] = <<b>>
          BY <4>1, <1>1 DEF Lone
        <4>3. mainq'[d] = <<>>
          <5>1. mainq' = [mainq EXCEPT ![d] = Tail(mainq[d])]
            BY <1>1 DEF Take
          <5>2. Tail(mainq[d]) = <<>>
            BY <4>2
          <5> QED BY <5>1, <5>2, <1>3 DEF QueuesOf
        <4>4. Range(queue[d]) = {}
          BY <4>2, RangeOfEmpty
        <4>5. \A w \in Range(queue'[d]) : w.then = NoThen
          BY <4>4, <1>8, <1>10, NoteWriteFacts DEF Notifies
        <4>6. Range(mainq'[d]) = {}
          BY <4>3, RangeOfEmpty
        <4> QED BY <4>1, <4>3, <4>5, <4>6 DEF Lone, InBar
      <3> QED BY <2>1, <3>1, <3>2, <1>2, OthersWait
    <2> QED BY <2>3, <2>4, <2>5, <2>6 DEF AcceptedInv
  <1> QED BY <1>21, <1>22 DEF CommentsIndInv

-----------------------------------------------------------------------------
(* The app is killed.                                                      *)

LEMMA CrashOK ==
    ASSUME CommentsIndInv, NEW d \in Devices, Crash(d), hasty' = hasty
    PROVE  CommentsIndInv'
  <1>1. /\ crashes < MaxCrashes /\ crashes' = crashes + 1
        /\ Restart(d, <<>>)
        /\ open' = [open EXCEPT ![d] = FALSE] /\ list' = [list EXCEPT ![d] = <<>>]
        /\ heard' = [heard EXCEPT ![d] = {}]
        /\ draft' = [draft EXCEPT ![d] = 0] /\ hud' = [hud EXCEPT ![d] = Hidden]
        /\ bar' = bar /\ sent' = sent /\ typed' = typed /\ screens' = screens
    BY DEF Crash
  <1>2. ListsInv /\ CommentsTypeOK /\ StateOK /\ NoCommentTwice /\ FlightOK
    BY DEF CommentsIndInv, ListsInv
  <1> DEFINE WS == CommentWrites \cup NoteWrites
  <1>3. queue \in QueuesOf(WS) /\ gets \in QueuesOf({}) /\ mainq \in QueuesOf(PostedBlocks)
    BY <1>2 DEF FlightOK
  <1>4. /\ queue' \in QueuesOf(WS) /\ gets' \in QueuesOf({}) /\ mainq' \in QueuesOf(PostedBlocks)
        /\ Restarted(d, <<>>)
    <2>1. \A w \in WS : [w EXCEPT !.then = NoThen] \in WS
      BY WriteFacts
    <2>2. <<>> \in Seq({})
      OBVIOUS
    <2> HIDE DEF WS
    <2> QED BY <2>1, <2>2, <1>1, <1>3, RestartOne
  <1>5. /\ docs' = docs
        /\ \A e \in Devices \ {d} : queue'[e] = queue[e] /\ mainq'[e] = mainq[e]
        /\ mainq'[d] = <<>>
        /\ Range(queue'[d]) = {[w EXCEPT !.then = NoThen] : w \in Range(queue[d])}
    BY <1>4 DEF Restarted
  <1>6. ASSUME NEW v \in Range(queue'[d])
        PROVE  /\ v.then = NoThen
               /\ \E w \in Range(queue[d]) :
                     /\ v.data = w.data /\ (v \in CommentWrites <=> w \in CommentWrites)
                     /\ v \in NoteWrites <=> w \in NoteWrites
                     /\ \A c \in Ids : (Stores(v, c) <=> Stores(w, c)) /\ (Notifies(v, c) <=> Notifies(w, c))
    <2>1. PICK w \in Range(queue[d]) : v = [w EXCEPT !.then = NoThen]
      BY <1>5
    <2>2. w \in CommentWrites \cup NoteWrites
      BY <1>3, InQueue
    <2>3. CASE w \in CommentWrites
      <3>1. v \in CommentWrites /\ v.then = NoThen /\ v.paths = w.paths /\ v.data = w.data
        BY <2>1, <2>3, CommentWriteFacts
      <3>2. v \notin NoteWrites /\ w \notin NoteWrites
        BY <3>1, <2>3, CommentWriteFacts
      <3> QED BY <3>1, <3>2, <2>3 DEF Stores, Notifies
    <2>4. CASE w \in NoteWrites
      BY <2>1, <2>4, NoteWriteFacts
    <2> QED BY <2>2, <2>3, <2>4
  <1>7. FlightOK'
    BY <1>4 DEF FlightOK
  <1>8. crashes' \in 0..MaxCrashes /\ crashes' # 0
    BY <1>1, <1>2, CommentsAssumption DEF StateOK
  <1>9. hud' \in [Devices -> Huds({"comments"})]
    BY <1>1, <1>2, HudFacts DEF StateOK
  <1>10. StateOK'
    BY <1>1, <1>2, <1>5, <1>8, <1>9 DEF StateOK
  <1>11. CommentsTypeOK'
    <2>1. \A e \in Devices : hud'[e] \in Huds({"comments"})
      BY <1>9
    <2>2. open' \in [Devices -> BOOLEAN] /\ list' \in [Devices -> Seq(Ids)] /\ heard' \in [Devices -> SUBSET Ids]
      BY <1>1, <1>2 DEF CommentsTypeOK
    <2>3. draft' \in [Devices -> Texts]
      BY <1>1, <1>2, CommentsAssumption DEF CommentsTypeOK, Texts
    <2> QED BY <2>1, <2>2, <2>3, <1>1, <1>2, <1>5 DEF CommentsTypeOK
  <1>12. NoCommentTwice'
    <2>1. ASSUME NEW e \in Devices PROVE list'[e] = list[e] \/ list'[e] = <<>>
      BY <1>1, <1>2 DEF CommentsTypeOK
    <2>2. IsInjective(<<>>)
      BY DEF IsInjective
    <2> QED BY <2>1, <2>2, <1>2 DEF NoCommentTwice
  <1>13. WritesOwn'
    <2>1. ASSUME NEW e \in Devices, NEW v \in Range(queue'[e])
          PROVE  /\ v \in CommentWrites => v.data.uid = UidOf[e]
                 /\ v \in NoteWrites => v.data = UidOf[e] /\ UidOf[e] # Owner
      <3>1. CASE e = d
        BY <3>1, <1>2, <1>6 DEF ListsInv, WritesOwn
      <3>2. CASE e # d
        BY <3>2, <1>2, <1>5 DEF ListsInv, WritesOwn
      <3> QED BY <3>1, <3>2
    <2> QED BY <2>1 DEF WritesOwn
  <1>14. AllAnswered'
    BY <1>8 DEF AllAnswered
  <1>15. \A e \in Devices : \A v \in Range(queue'[e]) : \E w \in Range(queue[e]) :
            /\ v.data = w.data
            /\ \A c \in Ids : (Stores(v, c) <=> Stores(w, c)) /\ (Notifies(v, c) <=> Notifies(w, c))
    BY <1>5, <1>6
  <1>16. Numbered'
    BY <1>1, <1>2, <1>5, <1>15 DEF ListsInv, Numbered
  <1>17. OneText'
    <2>1. OneText
      BY <1>2 DEF ListsInv
    <2> SUFFICES ASSUME NEW c \in Ids, NEW e \in Devices, NEW v \in Range(queue'[e]), Stores(v, c)
                 PROVE  /\ docs[CommentDoc(c)] # NoDoc => docs[CommentDoc(c)] = v.data
                        /\ \A f \in Devices : \A x \in Range(queue'[f]) : Stores(x, c) => x.data = v.data
      BY <1>5 DEF OneText
    <2>2. PICK w \in Range(queue[e]) : v.data = w.data /\ Stores(w, c)
      BY <1>15
    <2>3. ASSUME NEW f \in Devices, NEW x \in Range(queue'[f]), Stores(x, c) PROVE x.data = v.data
      <3>1. PICK y \in Range(queue[f]) : x.data = y.data /\ Stores(y, c)
        BY <2>3, <1>15
      <3> QED BY <3>1, <2>1, <2>2 DEF OneText
    <2> QED BY <2>1, <2>2, <2>3 DEF OneText
  <1>20. OneWriter' /\ ListsHeard'
    <2>1. OneWriter /\ ListsHeard /\ Numbered
      BY <1>2 DEF ListsInv
    <2>2. \A c \in Ids : \A e \in Devices : Brings(e, c)' => Brings(e, c)
      BY <1>15 DEF Brings
    <2>3. \A e \in Devices : \/ list'[e] = list[e] /\ heard'[e] = heard[e]
                             \/ list'[e] = <<>> /\ heard'[e] = {}
      BY <1>1, <1>2 DEF CommentsTypeOK
    <2> QED BY <2>1, <2>2, <2>3, <1>1, <1>5, HeardKept
  <1>18. ListsInv'
    BY <1>7, <1>10, <1>11, <1>12, <1>13, <1>14, <1>16, <1>17, <1>20 DEF ListsInv
  <1>19. ASSUME ~Failures PROVE AcceptedInv'
    <2>1. PostedStored /\ NotesStored /\ NotesDue /\ Waiting
      BY <1>19 DEF CommentsIndInv, AcceptedInv
    <2>2. Range(mainq'[d]) = {}
      BY <1>5, RangeOfEmpty
    <2>3. PostedStored'
      BY <2>1, <2>2, <1>5 DEF PostedStored, By
    <2>4. NotesStored'
      BY <2>1, <1>5, <1>15 DEF NotesStored, By
    <2>5. NotesDue'
      BY <1>8 DEF NotesDue
    <2>6. Waiting'
      <3>1. \A e \in Devices \ {d} : draft'[e] = draft[e]
        BY <1>1, <1>2 DEF CommentsTypeOK
      <3>2. CommentsKept /\ OthersKeep(d)
        BY <3>1, <1>1, <1>5 DEF CommentsKept, OthersKeep
      <3>3. Lone(d)' /\ InBar(d)'
        BY <2>2, <1>5, <1>6 DEF Lone, InBar
      <3> QED BY <2>1, <3>2, <3>3, <1>2, OthersWait
    <2> QED BY <2>3, <2>4, <2>5, <2>6 DEF AcceptedInv
  <1> QED BY <1>18, <1>19 DEF CommentsIndInv

-----------------------------------------------------------------------------
(* The initial state, and all together.                                    *)

LEMMA InitOK == Init => CommentsIndInv
  <1> SUFFICES ASSUME Init PROVE CommentsIndInv
    OBVIOUS
  <1>1. /\ docs  = [x \in Paths |-> NoDoc]
        /\ queue = [d \in Devices |-> <<>>] /\ gets  = [d \in Devices |-> <<>>]
        /\ mainq = [d \in Devices |-> <<>>] /\ open  = [d \in Devices |-> FALSE]
        /\ list  = [d \in Devices |-> <<>>] /\ heard = [d \in Devices |-> {}]
        /\ bar   = [d \in Devices |-> 0]
        /\ draft = [d \in Devices |-> 0] /\ hud   = [d \in Devices |-> Hidden]
        /\ sent = 0 /\ typed = 0 /\ screens = 0 /\ crashes = 0
        /\ hasty = FALSE
    BY DEF Init, Paths
  <1>2. \A c \in Ids : docs[CommentDoc(c)] = NoDoc /\ docs[NoteDoc(c)] = NoDoc
    BY <1>1, PathFacts
  <1>3. \A d \in Devices : /\ Range(queue[d]) = {} /\ Range(mainq[d]) = {} /\ mainq[d] = <<>>
                           /\ IsInjective(list[d]) /\ Range(list[d]) = {} /\ heard[d] = {}
    BY <1>1, RangeOfEmpty DEF IsInjective
  <1>4. CommentsTypeOK /\ NoCommentTwice
    <2>1. open \in [Devices -> BOOLEAN] /\ list \in [Devices -> Seq(Ids)] /\ heard \in [Devices -> SUBSET Ids]
      BY <1>1
    <2>2. bar \in [Devices -> 0..MaxScreens] /\ draft \in [Devices -> Texts]
      BY <1>1, CommentsAssumption DEF Texts
    <2>3. \A d \in Devices : hud[d] \in Huds({"comments"})
      BY <1>1, HudFacts
    <2> QED BY <1>1, <1>2, <1>3, <2>1, <2>2, <2>3 DEF CommentsTypeOK, NoCommentTwice
  <1>5. FlightOK
    BY <1>1 DEF FlightOK, QueuesOf
  <1>6. StateOK
    <2>1. hud \in [Devices -> Huds({"comments"})]
      BY <1>1, HudFacts
    <2>2. docs \in [Paths -> Data \cup Users \cup {NoDoc}]
      BY <1>1
    <2>3. /\ sent \in 0..MaxComments /\ typed \in 0..MaxTexts
          /\ screens \in 0..MaxScreens /\ crashes \in 0..MaxCrashes
          /\ \A d \in Devices : bar[d] <= screens
      BY <1>1, CommentsAssumption
    <2> QED BY <2>1, <2>2, <2>3 DEF StateOK
  <1>7. WritesOwn /\ Numbered /\ OneText /\ AllAnswered /\ OneWriter /\ ListsHeard
    BY <1>2, <1>3 DEF WritesOwn, Numbered, OneText, AllAnswered, OneWriter, ListsHeard, Brings
  <1>8. PostedStored /\ NotesStored /\ NotesDue
    BY <1>2, <1>3 DEF PostedStored, NotesStored, NotesDue
  <1>9. Waiting
    BY <1>3 DEF Waiting, Lone, InBar
  <1> QED BY <1>4, <1>5, <1>6, <1>7, <1>8, <1>9 DEF CommentsIndInv, ListsInv, AcceptedInv

LEMMA NextOK == CommentsIndInv /\ [Next]_vars => CommentsIndInv'
  <1> SUFFICES ASSUME CommentsIndInv, [Next]_vars PROVE CommentsIndInv'
    OBVIOUS
  <1>1. ASSUME NEW d \in Devices, Touch(d) PROVE CommentsIndInv'
    <2>1. hasty' = (hasty \/ ~Settled(d))
      BY <1>1 DEF Touch
    <2>2. CASE showComments(d)
      BY <2>1, <2>2, ShowCommentsOK
    <2>3. CASE goBack(d)
      BY <2>1, <2>3, GoBackOK
    <2>4. CASE type(d)
      BY <2>1, <2>4, TypeOK
    <2>5. CASE handlePostTapped(d)
      BY <2>1, <2>5, UploadOK DEF handlePostTapped
    <2> QED BY <1>1, <2>2, <2>3, <2>4, <2>5 DEF Touch
  <1>2. ASSUME NEW d \in Devices, Step(d), hasty' = hasty PROVE CommentsIndInv'
    BY <1>2, DeliverOK, PostedOK, FetchCommentsOK, AnimateOK, CrashOK DEF Step
  <1>3. CASE UNCHANGED vars
    <2>1. /\ docs' = docs /\ queue' = queue /\ gets' = gets /\ mainq' = mainq
          /\ open' = open /\ list' = list /\ heard' = heard /\ bar' = bar /\ draft' = draft /\ hud' = hud
          /\ sent' = sent /\ typed' = typed /\ screens' = screens /\ crashes' = crashes
          /\ hasty' = hasty
      BY <1>3 DEF vars, appVars
    <2>2. ScreenOK
      <3>1. ListsHeard'
        BY <2>1, HeardStill DEF CommentsIndInv, ListsInv
      <3> QED BY <2>1, <3>1 DEF CommentsIndInv, ListsInv, ScreenOK, CommentsTypeOK, StateOK, NoCommentTwice
    <2>3. ~Failures => Waiting'
      BY <2>1 DEF CommentsIndInv, AcceptedInv, Waiting, Lone, InBar
    <2> QED BY <2>1, <2>2, <2>3, ScreenStep
  <1> QED BY <1>1, <1>2, <1>3 DEF Next

-----------------------------------------------------------------------------
(* The theorems.                                                           *)

\* Every step of the screens, of Firestore and of a relaunch keeps the inductive
\* invariant: comments have one author and one text, and without refused writes
\* completion blocks and notifications are for comments that are stored.
THEOREM CommentsInvariant == Spec => []CommentsIndInv
  BY InitOK, NextOK, PTL DEF Spec

\* CommentService.fetchComments never lists a comment twice, also when writes
\* are refused and apps are killed, although it appends every .added change: a
\* listed comment that has gone from the listener's snapshots was refused, and
\* nobody sends it again.
THEOREM ListsHaveNoDuplicates == Spec => [](CommentsTypeOK /\ NoCommentTwice)
  <1>1. CommentsIndInv => CommentsTypeOK /\ NoCommentTwice
    BY DEF CommentsIndInv, ListsInv
  <1> QED BY <1>1, CommentsInvariant, PTL

\* If the server accepts every write, the owner is never notified of a comment
\* that is not stored: CommentController sends the notification in the
\* completion of uploadComment.
THEOREM CommentsCorrect == ASSUME ~Failures PROVE Spec => []CommentsInv
  <1>1. CommentsIndInv => CommentsInv
    BY DEF CommentsIndInv, ListsInv, AcceptedInv, NotesStored, CommentsInv, NoEarlyNote, Stored
  <1> QED BY <1>1, CommentsInvariant, PTL

\* If the server accepts every write and no app was killed, then once nothing is
\* in flight the owner has a notification for each comment of somebody else and
\* for no other, however the devices interleaved.
THEOREM OwnerIsNotified == ASSUME ~Failures PROVE Spec => []OwnerNotified
  <1>1. CommentsIndInv => OwnerNotified
    <2> SUFFICES ASSUME CommentsIndInv, Quiescent, crashes = 0, NEW c \in Ids
                 PROVE  docs[NoteDoc(c)] # NoDoc <=>
                            docs[CommentDoc(c)] # NoDoc /\ docs[CommentDoc(c)].uid # Owner
      BY DEF OwnerNotified, Stored
    <2>1. NotesStored /\ NotesDue
      BY DEF CommentsIndInv, AcceptedInv
    <2>2. \A d \in Devices : ~NoteComing(d, c)
      BY QuietRanges DEF Quiescent, NoteComing
    <2> QED BY <2>1, <2>2 DEF NotesStored, NotesDue
  <1> QED BY <1>1, CommentsInvariant, PTL

\* If the server accepts every write, a user who waits loses no text: when the
\* completion of uploadComment clears the input bar, what is in it is stored.
THEOREM TextsAreKept == ASSUME ~Failures PROVE Spec => NoTextLost
  <1> DEFINE Kept(d) == ~hasty /\ draft[d] # 0 /\ draft'[d] = 0 /\ open[d] /\ open'[d] =>
                 \E c \in Stored : docs[CommentDoc(c)] = Comment(UidOf[d], draft[d])
  <1>1. CommentsIndInv /\ [Next]_vars => [\A d \in Devices : Kept(d)]_vars
    <2> SUFFICES ASSUME CommentsIndInv, Next, NEW d \in Devices, ~hasty, draft[d] # 0, draft'[d] = 0,
                        open[d], open'[d]
                 PROVE  \E c \in Stored : docs[CommentDoc(c)] = Comment(UidOf[d], draft[d])
      OBVIOUS
    <2>1. CommentsTypeOK /\ FlightOK /\ StateOK /\ PostedStored /\ InBar(d)
      BY DEF CommentsIndInv, ListsInv, AcceptedInv, Waiting
    <2>2. posted(d)
      <3>1. PICK e \in Devices : Touch(e) \/ Step(e)
        BY DEF Next
      <3>2. ~showComments(e)
        <4> SUFFICES ASSUME showComments(e) PROVE FALSE
          OBVIOUS
        <4>1. ~open[e] /\ draft' = [draft EXCEPT ![e] = 0]
          BY DEF showComments
        <4> QED BY <4>1, <2>1 DEF CommentsTypeOK
      <3>3. ~type(e)
        <4> SUFFICES ASSUME type(e) PROVE FALSE
          OBVIOUS
        <4>1. draft' = [draft EXCEPT ![e] = typed + 1] /\ typed \in Nat
          BY <2>1, CommentsAssumption DEF type, StateOK
        <4> QED BY <4>1, <2>1 DEF CommentsTypeOK
      <3>4. ~Crash(e)
        <4> SUFFICES ASSUME Crash(e) PROVE FALSE
          OBVIOUS
        <4>1. draft' = [draft EXCEPT ![e] = 0] /\ open' = [open EXCEPT ![e] = FALSE]
          BY DEF Crash
        <4> QED BY <4>1, <2>1 DEF CommentsTypeOK
      <3>5. ~(goBack(e) \/ handlePostTapped(e) \/ Deliver(e) \/ fetchComments(e) \/ Animate(e))
        BY DEF goBack, handlePostTapped, wantsToUploadComment, Deliver, appVars, fetchComments, appends, Animate
      <3>6. posted(e)
        BY <3>1, <3>2, <3>3, <3>4, <3>5 DEF Touch, Step
      <3>7. e = d
        BY <3>6, <2>1 DEF posted, clearCommentTextView, CommentsTypeOK
      <3> QED BY <3>6, <3>7
    <2>3. PICK h : h = Head(mainq[d])
      OBVIOUS
    <2>4. h \in PostedBlocks /\ h \in Range(mainq[d])
      <3>1. mainq[d] \in Seq(PostedBlocks)
        BY <2>1 DEF FlightOK, QueuesOf
      <3>2. mainq[d] # <<>>
        BY <2>2 DEF posted, Due
      <3> QED BY <3>1, <3>2, <2>3, RangeOfTail
    <2>5. h.then.bar = bar[d]
      BY <2>2, <2>3 DEF posted, clearCommentTextView, Block
    <2>6. h.then.c \in Ids /\ docs[CommentDoc(h.then.c)] = Comment(UidOf[d], draft[d])
      BY <2>1, <2>4, <2>5, PostedFacts DEF InBar
    <2>7. docs[CommentDoc(h.then.c)] # NoDoc
      BY <2>1, <2>4 DEF PostedStored, By
    <2> QED BY <2>6, <2>7 DEF Stored
  <1>2. Spec => [][\A d \in Devices : Kept(d)]_vars
    BY <1>1, CommentsInvariant, PTL DEF Spec
  <1> QED BY <1>2 DEF NoTextLost
=============================================================================
