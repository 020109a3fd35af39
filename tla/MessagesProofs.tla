--------------------------- MODULE MessagesProofs ---------------------------
(***************************************************************************)
(* Proofs about Messages, for every set of devices, any pairs of accounts  *)
(* and every bound.  What needs the server to accept every write says so.  *)
(***************************************************************************)
EXTENDS Messages, FirestoreProofs

-----------------------------------------------------------------------------
(* What may be stored and in flight.                                       *)

Texts == 0..MaxTexts
Data  == [fromId : Users, text : Texts]
Bars  == 0..MaxChats

Paths == {Copy(u, m) : u \in Users, m \in Ids}
         \cup {Recent(u) : u \in Users} \cup {UserDoc(u) : u \in Users}

Contents == Data \cup Ids \cup {NoDoc, 0}

SentThens      == {SentCopy(m, t, b) : m \in Ids, t \in Texts, b \in Bars}
DeliveredThens == {Delivered(m, b) : m \in Ids, b \in Bars}

CopyWritesOf(u, m) ==
    [paths : {{Copy(u, m)}}, data : Data, upd : {FALSE}, then : {NoThen} \cup SentThens \cup DeliveredThens]

RecentWritesOf(u) == [paths : {{Recent(u)}}, data : Ids, upd : {FALSE}, then : {NoThen}]

CopyWrites    == UNION {CopyWritesOf(u, m) : u \in Users, m \in Ids}
RecentWrites  == UNION {RecentWritesOf(u) : u \in Users}
MessageWrites == CopyWrites \cup RecentWrites

UserReads == [paths : {{UserDoc(u)} : u \in Users}, each : {FALSE}, then : {FetchedUser}]

WriteBlocks   == [then : SentThens \cup DeliveredThens, res : BOOLEAN]
Fetched(u, x) == [then |-> FetchedUser, res |-> [path \in {UserDoc(u)} |-> x]]
FetchedBlocks == {Fetched(u, x) : u \in Users, x \in Contents}
MessageBlocks == WriteBlocks \cup FetchedBlocks

FlightOK ==
    /\ queue \in QueuesOf(MessageWrites)
    /\ gets \in QueuesOf(UserReads)
    /\ mainq \in QueuesOf(MessageBlocks)

StateOK ==
    /\ docs \in [Paths -> Contents] /\ hasty \in BOOLEAN
    /\ \A u \in Users : docs[Recent(u)] \in Ids \cup {NoDoc}
    /\ \A u \in Users, m \in Ids : docs[Copy(u, m)] \in Data \cup {NoDoc}
    /\ conv \in [Devices -> Ids \cup {NoMessage}]
    /\ chat \in [Devices -> {"none", "loading", "loaded"}]
    /\ list \in [Devices -> Seq(Ids)]
    /\ heard \in [Devices -> SUBSET Ids]
    /\ bar \in [Devices -> Nat]
    /\ draft \in [Devices -> Texts]
    /\ hud \in [Devices -> Huds({"conversations"})]
    /\ sent \in 0..MaxMessages /\ typed \in 0..MaxTexts
    /\ chats \in 0..MaxChats /\ crashes \in 0..MaxCrashes

\* Every chat screen was asked for: by one that was opened at once, or by a read that
\* is in flight or whose block is to run.
FetchedIn(q) == {i \in DOMAIN q : q[i].then.kind = "fetchedUser"}
Asked(d)     == Len(gets[d]) + Cardinality(FetchedIn(mainq[d]))
BarsCounted  == \A d \in Devices : bar[d] + Asked(d) <= chats

\* A device writes to the conversation of its account, and asks to be told of
\* its own copy.
OwnWrite(d, w) ==
    /\ \A u \in Users, m \in Ids : w.paths = {Copy(u, m)} => u \in {Me(d), Other(d)}
    /\ \A u \in Users : w.paths = {Recent(u)} => u \in {Me(d), Other(d)}
    /\ w.then \in SentThens => w.paths = {Copy(Me(d), w.then.m)}

OwnWrites == \A d \in Devices : \A w \in Range(queue[d]) : OwnWrite(d, w)

\* The blocks that send the other copies.
SentBlocks(d) == {b \in Range(mainq[d]) : b.then.kind = "sentCopy"}

-----------------------------------------------------------------------------
(* What the listeners have told of.                                        *)

\* The copy of m for u is on its way from d, or will be sent once the server
\* has answered to the first copy.
Brings(d, u, m) ==
    \/ \E w \in Range(queue[d]) : w.paths = {Copy(u, m)}
    \/ u = Other(d) /\ \/ \E b \in SentBlocks(d) : b.then.m = m
                       \/ \E w \in Range(queue[d]) : w.then \in SentThens /\ w.then.m = m

Numbered ==
    \A u \in Users, m \in Ids :
        /\ docs[Copy(u, m)] # NoDoc => m <= sent
        /\ \A d \in Devices : Brings(d, u, m) => m <= sent

OneSource ==
    \A u \in Users, m \in Ids : \A d, e \in Devices : Brings(d, u, m) /\ Brings(e, u, m) => d = e

\* A message that is listed, or was in the last snapshot, is stored, or it was
\* sent on this device, or it was refused; one that is listed and has gone from
\* the snapshots was refused, and nobody sends it again.
ListsHeard ==
    \A d \in Devices, m \in Ids :
        /\ m \in Range(list[d]) \/ m \in heard[d] =>
              /\ m <= sent
              /\ docs[Copy(Me(d), m)] # NoDoc \/ \A e \in Devices : e # d => ~Brings(e, Me(d), m)
        /\ m \in Range(list[d]) /\ m \notin heard[d] =>
              /\ docs[Copy(Me(d), m)] = NoDoc
              /\ \A e \in Devices : ~Brings(e, Me(d), m)

HeardInv == Numbered /\ OneSource /\ ListsHeard

-----------------------------------------------------------------------------
(* Without refused writes: a document comes after the ones it depends on.  *)

\* The blocks that send the other copies run once the sender's copy is stored,
\* and the partner's is sent then.
SentStored ==
    \A d \in Devices :
        /\ \A b \in SentBlocks(d) : Has(Me(d), b.then.m)
        /\ \A w \in Range(queue[d]), m \in Ids : w.paths = {Copy(Other(d), m)} => Has(Me(d), m)

\* The copy of m for u is stored, or d sends it before its i-th write.
Before(d, i, u, m) ==
    Has(u, m) \/ \E j \in DOMAIN queue[d] : j < i /\ queue[d][j].paths = {Copy(u, m)}

\* A most recent message is sent behind its two copies.
RecentsBehind ==
    \A d \in Devices : \A i \in DOMAIN queue[d] : \A u \in Users :
        queue[d][i].paths = {Recent(u)} =>
            Before(d, i, u, queue[d][i].data) /\ Before(d, i, Partner[u], queue[d][i].data)

\* The partner's copy of m will come from d.
CopyComing(d, m) ==
    \/ \E w \in Range(queue[d]) : w.paths = {Copy(Other(d), m)}
    \/ \E b \in SentBlocks(d) : b.then.m = m

\* Before any crash, a message that one account has is on its way to the other,
\* and every first copy is answered to the app.
CopiesDue ==
    crashes = 0 =>
        /\ \A u \in Users, m \in Ids : Has(u, m) =>
              Has(Partner[u], m) \/ \E d \in Devices : Me(d) = u /\ CopyComing(d, m)
        /\ \A d \in Devices : \A w \in Range(queue[d]) : \A m \in Ids :
              w.paths = {Copy(Me(d), m)} => w.then \in SentThens

-----------------------------------------------------------------------------
(* Users who wait: at most one message is on its way.                      *)

Agree == \A u \in Users : docs[Recent(u)] = docs[Recent(Partner[u])]

NothingOnItsWay(d) == queue[d] = <<>> /\ SentBlocks(d) = {}

\* The steps of a message sent on d: its own copy, the block that sends the rest,
\* the partner's copy, the two most recent messages.
Storing(d) ==
    /\ \E w \in MessageWrites, m \in Ids : queue[d] = <<w>> /\ w.paths = {Copy(Me(d), m)}
    /\ mainq[d] = <<>> /\ gets[d] = <<>> /\ Agree
Telling(d) ==
    /\ queue[d] = <<>> /\ gets[d] = <<>>
    /\ \E b \in MessageBlocks : mainq[d] = <<b>> /\ b.then.kind = "sentCopy"
    /\ Agree
Copying(d) ==
    /\ SentBlocks(d) = {} /\ Agree
    /\ \E w \in MessageWrites, m \in Ids :
          /\ queue[d] = <<w, setData(Recent(Me(d)), m, NoThen), setData(Recent(Other(d)), m, NoThen)>>
          /\ w.paths = {Copy(Other(d), m)}
Naming(d) ==
    /\ SentBlocks(d) = {} /\ Agree
    /\ \E m \in Ids :
          queue[d] = <<setData(Recent(Me(d)), m, NoThen), setData(Recent(Other(d)), m, NoThen)>>
Closing(d) ==
    /\ SentBlocks(d) = {}
    /\ \E m \in Ids : queue[d] = <<setData(Recent(Other(d)), m, NoThen)>> /\ docs[Recent(Me(d))] = m
    /\ \A u \in Users \ {Me(d), Other(d)} : docs[Recent(u)] = docs[Recent(Partner[u])]

Sending(d) == Storing(d) \/ Telling(d) \/ Copying(d) \/ Naming(d) \/ Closing(d)

OneAtATime ==
    \/ Agree /\ \A d \in Devices : NothingOnItsWay(d)
    \/ \E d \in Devices : Sending(d) /\ \A e \in Devices \ {d} : NothingOnItsWay(e)

Waiting == ~hasty /\ crashes = 0 => OneAtATime

(***************************************************************************)
(* The inductive invariants: with refused writes, and without.             *)
(***************************************************************************)
ListsInv ==
    /\ FlightOK /\ StateOK /\ BarsCounted /\ OwnWrites
    /\ HeardInv /\ NoMessageTwice

AcceptedInv == SentStored /\ RecentsBehind /\ RecentIsStored /\ CopiesDue /\ Waiting

MessagesIndInv == ListsInv /\ (~Failures => AcceptedInv)

-----------------------------------------------------------------------------
(* Shapes of writes, blocks and documents.                                 *)

LEMMA PathFacts ==
    /\ \A u \in Users, m \in Ids : Copy(u, m) \in Paths
    /\ \A u \in Users : Recent(u) \in Paths /\ UserDoc(u) \in Paths
    /\ \A u, v \in Users : \A m \in Ids :
          Copy(u, m) # Recent(v) /\ Copy(u, m) # UserDoc(v) /\ Recent(u) # UserDoc(v)
    /\ \A u, v \in Users : \A m, n \in Ids : Copy(u, m) = Copy(v, n) => u = v /\ m = n
    /\ \A u, v \in Users : Recent(u) = Recent(v) => u = v
  <1>1. \A u \in Users, m \in Ids : Copy(u, m) \in Paths
    BY DEF Paths
  <1>2. \A u \in Users : Recent(u) \in Paths /\ UserDoc(u) \in Paths
    BY DEF Paths
  <1>3. \A u, v \in Users : \A m \in Ids :
          Copy(u, m) # Recent(v) /\ Copy(u, m) # UserDoc(v) /\ Recent(u) # UserDoc(v)
    BY DEF Copy, Recent, UserDoc
  <1>4. \A u, v \in Users : \A m, n \in Ids : Copy(u, m) = Copy(v, n) => u = v /\ m = n
    BY DEF Copy
  <1>5. \A u, v \in Users : Recent(u) = Recent(v) => u = v
    BY DEF Recent
  <1> QED BY <1>1, <1>2, <1>3, <1>4, <1>5

LEMMA SinglePaths ==
    /\ \A u, v \in Users : \A m, n \in Ids : {Copy(u, m)} = {Copy(v, n)} => u = v /\ m = n
    /\ \A u, v \in Users : \A m \in Ids : {Copy(u, m)} # {Recent(v)}
    /\ \A u, v \in Users : {Recent(u)} = {Recent(v)} => u = v
  <1>1. \A x, y : {x} = {y} => x = y
    OBVIOUS
  <1> QED BY <1>1, PathFacts

LEMMA PartnerFacts ==
    /\ \A u \in Users : Partner[u] \in Users /\ Partner[u] # u /\ Partner[Partner[u]] = u
    /\ \A d \in Devices : /\ Me(d) \in Users /\ Other(d) \in Users /\ Me(d) # Other(d)
                          /\ Partner[Me(d)] = Other(d) /\ Partner[Other(d)] = Me(d)
  BY MessagesAssumption DEF Me, Other

LEMMA ThenFacts ==
    /\ \A x \in SentThens : /\ x.kind = "sentCopy" /\ x.m \in Ids /\ x.t \in Texts /\ x.bar \in Bars
                            /\ x # NoThen
    /\ \A x \in DeliveredThens : x.kind = "delivered" /\ x # NoThen
    /\ FetchedUser.kind = "fetchedUser"
  <1>1. ASSUME NEW x \in SentThens
        PROVE  x.kind = "sentCopy" /\ x.m \in Ids /\ x.t \in Texts /\ x.bar \in Bars /\ x # NoThen
    <2>1. PICK m \in Ids, t \in Texts, b \in Bars : x = SentCopy(m, t, b)
      BY DEF SentThens
    <2>2. x \in [kind : {"sentCopy"}, m : 1..MaxMessages, t : 0..MaxTexts, bar : 0..MaxChats]
      BY <2>1 DEF SentCopy, Ids, Texts, Bars
    <2> QED BY <2>2, MessagesAssumption DEF Ids, Texts, Bars
  <1>2. ASSUME NEW x \in DeliveredThens
        PROVE  x.kind = "delivered" /\ x # NoThen
    <2>1. PICK m \in Ids, b \in Bars : x = Delivered(m, b)
      BY DEF DeliveredThens
    <2>2. x \in [kind : {"delivered"}, m : 1..MaxMessages, bar : 0..MaxChats]
      BY <2>1 DEF Delivered, Ids, Bars
    <2> QED BY <2>2, MessagesAssumption
  <1>3. FetchedUser.kind = "fetchedUser"
    BY DEF FetchedUser
  <1> QED BY <1>1, <1>2, <1>3

LEMMA CopyWriteFacts ==
    ASSUME NEW w \in CopyWrites
    PROVE  /\ w.data \in Data /\ w.data # NoDoc /\ ~w.upd
           /\ \E u \in Users, m \in Ids : w.paths = {Copy(u, m)}
           /\ w.then \in {NoThen} \cup SentThens \cup DeliveredThens
           /\ [w EXCEPT !.then = NoThen] \in CopyWrites
           /\ [w EXCEPT !.then = NoThen].then = NoThen
           /\ [w EXCEPT !.then = NoThen].paths = w.paths
           /\ [w EXCEPT !.then = NoThen].data = w.data
  <1>1. PICK u \in Users, m \in Ids : w \in CopyWritesOf(u, m)
    BY DEF CopyWrites
  <1>2. /\ w.data \in Data /\ w.paths = {Copy(u, m)} /\ ~w.upd
        /\ w.then \in {NoThen} \cup SentThens \cup DeliveredThens
    BY <1>1 DEF CopyWritesOf
  <1>3. w.data # NoDoc
    BY <1>2, MessagesAssumption DEF Data, Texts
  <1>4. /\ [w EXCEPT !.then = NoThen] \in CopyWritesOf(u, m)
        /\ [w EXCEPT !.then = NoThen].then = NoThen
        /\ [w EXCEPT !.then = NoThen].paths = w.paths
        /\ [w EXCEPT !.then = NoThen].data = w.data
    BY <1>1 DEF CopyWritesOf
  <1>5. [w EXCEPT !.then = NoThen] \in CopyWrites
    BY <1>4 DEF CopyWrites
  <1> QED BY <1>2, <1>3, <1>4, <1>5

LEMMA RecentWriteFacts ==
    ASSUME NEW w \in RecentWrites
    PROVE  /\ w.data \in Ids /\ w.data # NoDoc /\ ~w.upd /\ w.then = NoThen
           /\ \E u \in Users : w.paths = {Recent(u)}
           /\ [w EXCEPT !.then = NoThen] = w
  <1>1. PICK u \in Users : w \in RecentWritesOf(u)
    BY DEF RecentWrites
  <1>2. /\ w.data \in Ids /\ w.paths = {Recent(u)} /\ ~w.upd /\ w.then = NoThen
        /\ [w EXCEPT !.then = NoThen] = w
    BY <1>1 DEF RecentWritesOf
  <1> QED BY <1>2, MessagesAssumption DEF Ids

LEMMA BlockFacts ==
    /\ \A b \in WriteBlocks : b.then \in SentThens \cup DeliveredThens /\ b.res \in BOOLEAN
    /\ \A b \in FetchedBlocks : b.then.kind = "fetchedUser"
    /\ \A b \in MessageBlocks : b.then.kind = "sentCopy" => b.then \in SentThens
    /\ \A b \in MessageBlocks : b.then.kind = "delivered" => b \in WriteBlocks
  <1>1. \A b \in WriteBlocks : b.then \in SentThens \cup DeliveredThens /\ b.res \in BOOLEAN
    BY DEF WriteBlocks
  <1>2. ASSUME NEW b \in FetchedBlocks PROVE b.then.kind = "fetchedUser"
    <2>1. PICK u \in Users, x \in Contents : b = Fetched(u, x)
      BY DEF FetchedBlocks
    <2>2. b.then = FetchedUser
      BY <2>1 DEF Fetched
    <2> QED BY <2>2 DEF FetchedUser
  <1> QED BY <1>1, <1>2, ThenFacts DEF MessageBlocks

\* Every write is of one document and tells one of the blocks.
LEMMA WriteFacts ==
    ASSUME NEW w \in MessageWrites
    PROVE  /\ OneDocument(w) /\ Tells(w, MessageBlocks) /\ ~w.upd /\ w.data # NoDoc
           /\ [w EXCEPT !.then = NoThen] \in MessageWrites
           /\ [w EXCEPT !.then = NoThen].then = NoThen
           /\ [w EXCEPT !.then = NoThen].paths = w.paths
           /\ [w EXCEPT !.then = NoThen].data = w.data
           /\ w.then \in {NoThen} \cup SentThens \cup DeliveredThens
           /\ \A u \in Users, m \in Ids : w.paths = {Copy(u, m)} => w.data \in Data
           /\ \A u \in Users : w.paths = {Recent(u)} => w.data \in Ids /\ w.then = NoThen
           /\ \/ \E u \in Users, m \in Ids : w.paths = {Copy(u, m)}
              \/ \E u \in Users : w.paths = {Recent(u)}
  <1>1. CASE w \in CopyWrites
    <2>1. PICK u \in Users, m \in Ids : w.paths = {Copy(u, m)}
      BY <1>1, CopyWriteFacts
    <2>2. Tells(w, MessageBlocks)
      BY <1>1, CopyWriteFacts DEF Tells, MessageBlocks, WriteBlocks
    <2>3. \A v \in Users : w.paths # {Recent(v)}
      BY <2>1, PathFacts
    <2> QED BY <1>1, <2>1, <2>2, <2>3, CopyWriteFacts DEF OneDocument, MessageWrites
  <1>2. CASE w \in RecentWrites
    <2>1. PICK u \in Users : w.paths = {Recent(u)}
      BY <1>2, RecentWriteFacts
    <2>2. \A v \in Users, m \in Ids : w.paths # {Copy(v, m)}
      BY <2>1, PathFacts
    <2> QED BY <1>2, <2>1, <2>2, RecentWriteFacts DEF OneDocument, Tells, MessageWrites
  <1> QED BY <1>1, <1>2 DEF MessageWrites

LEMMA HudFacts ==
    /\ Hidden \in Huds({"conversations"})
    /\ \A h \in Huds({"conversations"}) :
          /\ show(h, "conversations") \in Huds({"conversations"})
          /\ dismiss(h) \in Huds({"conversations"})
          /\ Animating(h) => animated(h) \in Huds({"conversations"})
  <1>1. Hidden \in Huds({"conversations"})
    BY DEF Hidden, Huds, Phases
  <1>2. ASSUME NEW h \in Huds({"conversations"}) PROVE show(h, "conversations") \in Huds({"conversations"})
    BY MessagesAssumption DEF show, Huds, Phases
  <1>3. ASSUME NEW h \in Huds({"conversations"}) PROVE dismiss(h) \in Huds({"conversations"})
    BY DEF dismiss, Huds, Phases
  <1>4. ASSUME NEW h \in Huds({"conversations"}), Animating(h) PROVE animated(h) \in Huds({"conversations"})
    BY <1>1, <1>4 DEF animated, Animating, Huds, Phases
  <1> QED BY <1>1, <1>2, <1>3, <1>4

-----------------------------------------------------------------------------
(* Counting the blocks that open a chat.                                   *)

LEMMA CountIsNat ==
    ASSUME NEW S, NEW q \in Seq(S)
    PROVE  IsFiniteSet(FetchedIn(q)) /\ Cardinality(FetchedIn(q)) \in Nat
  <1>1. FetchedIn(q) \in SUBSET (1..Len(q)) /\ Len(q) \in Nat
    BY DEF FetchedIn
  <1>2. IsFiniteSet(1..Len(q))
    BY <1>1, FS_Interval
  <1>3. IsFiniteSet(FetchedIn(q))
    BY <1>1, <1>2, FS_Subset
  <1> QED BY <1>3, FS_CardinalityType

LEMMA CountOfEmpty == Cardinality(FetchedIn(<<>>)) = 0
  <1>1. FetchedIn(<<>>) = {}
    BY DEF FetchedIn
  <1> QED BY <1>1, FS_EmptySet

LEMMA CountOfAppend ==
    ASSUME NEW S, NEW q \in Seq(S), NEW b \in S
    PROVE  Cardinality(FetchedIn(Append(q, b))) =
              Cardinality(FetchedIn(q)) + (IF b.then.kind = "fetchedUser" THEN 1 ELSE 0)
  <1>1. PICK n \in Nat : n = Len(q)
    OBVIOUS
  <1>2. /\ DOMAIN q = 1..n /\ DOMAIN Append(q, b) = 1..(n + 1)
        /\ Append(q, b)[n + 1] = b
        /\ \A i \in 1..n : Append(q, b)[i] = q[i]
    BY <1>1, AppendProperties
  <1>3. /\ IsFiniteSet(FetchedIn(q)) /\ Cardinality(FetchedIn(q)) \in Nat
        /\ n + 1 \notin FetchedIn(q)
    BY <1>2, CountIsNat DEF FetchedIn
  <1>4. CASE b.then.kind = "fetchedUser"
    <2>1. FetchedIn(Append(q, b)) = FetchedIn(q) \cup {n + 1}
      BY <1>2, <1>4 DEF FetchedIn
    <2> QED BY <2>1, <1>3, <1>4, FS_AddElement
  <1>5. CASE b.then.kind # "fetchedUser"
    <2>1. FetchedIn(Append(q, b)) = FetchedIn(q)
      BY <1>2, <1>5 DEF FetchedIn
    <2> QED BY <2>1, <1>3, <1>5
  <1> QED BY <1>4, <1>5

LEMMA CountOfTail ==
    ASSUME NEW S, NEW q \in Seq(S), q # <<>>
    PROVE  Cardinality(FetchedIn(q)) =
              Cardinality(FetchedIn(Tail(q))) + (IF Head(q).then.kind = "fetchedUser" THEN 1 ELSE 0)
  <1> DEFINE F == FetchedIn(Tail(q))
             G == FetchedIn(q) \ {1}
  <1>1. PICK n \in Nat : n = Len(q)
    OBVIOUS
  <1>2. /\ n > 0 /\ DOMAIN q = 1..n /\ DOMAIN Tail(q) = 1..(n - 1)
        /\ Head(q) = q[1] /\ Tail(q) \in Seq(S)
        /\ \A i \in 1..(n - 1) : Tail(q)[i] = q[i + 1]
    <2>1. Len(q) > 0
      BY <1>1, EmptySeq
    <2> QED BY <2>1, <1>1, HeadTailProperties
  <1>3. /\ IsFiniteSet(FetchedIn(q)) /\ Cardinality(FetchedIn(q)) \in Nat
        /\ IsFiniteSet(F) /\ Cardinality(F) \in Nat
    BY <1>2, CountIsNat
  <1>4. Cardinality(G) = Cardinality(F)
    <2> DEFINE f == [i \in F |-> i + 1]
    <2>1. f \in [F -> G]
      <3> SUFFICES ASSUME NEW i \in F PROVE i + 1 \in G
        OBVIOUS
      <3>1. i \in 1..(n - 1) /\ Tail(q)[i].then.kind = "fetchedUser"
        BY <1>2 DEF FetchedIn
      <3>2. i + 1 \in 1..n /\ i + 1 # 1 /\ q[i + 1] = Tail(q)[i]
        BY <3>1, <1>2
      <3> QED BY <3>1, <3>2, <1>2 DEF FetchedIn
    <2>2. ASSUME NEW a \in F, NEW b \in F, f[a] = f[b] PROVE a = b
      <3>1. a \in Int /\ b \in Int
        BY <1>2 DEF FetchedIn
      <3> QED BY <3>1, <2>2
    <2>3. ASSUME NEW j \in G PROVE \E i \in F : f[i] = j
      <3>1. j \in 1..n /\ j # 1 /\ q[j].then.kind = "fetchedUser"
        BY <1>2 DEF FetchedIn
      <3>2. j - 1 \in 1..(n - 1) /\ (j - 1) + 1 = j
        BY <3>1
      <3>3. Tail(q)[j - 1] = q[j]
        BY <3>2, <1>2
      <3>4. j - 1 \in F
        BY <3>1, <3>2, <3>3, <1>2 DEF FetchedIn
      <3> QED BY <3>2, <3>4
    <2> HIDE DEF f, F, G
    <2>4. f \in Bijection(F, G)
      BY <2>1, <2>2, <2>3 DEF Bijection, Injection, Surjection, IsInjective
    <2>5. ExistsBijection(F, G)
      BY <2>4 DEF ExistsBijection
    <2> QED BY <2>5, <1>3, FS_Bijection
  <1>5. 1 \in FetchedIn(q) <=> Head(q).then.kind = "fetchedUser"
    BY <1>2 DEF FetchedIn
  <1> HIDE DEF F, G
  <1>6. Cardinality(G) = IF 1 \in FetchedIn(q) THEN Cardinality(FetchedIn(q)) - 1 ELSE Cardinality(FetchedIn(q))
    BY <1>3, FS_RemoveElement DEF G
  <1> QED BY <1>3, <1>4, <1>5, <1>6 DEF F

-----------------------------------------------------------------------------
(* What a step keeps.                                                      *)

\* Nothing is sent and nothing stored.
Kept ==
    /\ docs' = docs /\ queue' = queue /\ crashes' = crashes
    /\ \A d \in Devices : SentBlocks(d)' = SentBlocks(d)

LEMMA KeptOK ==
    ASSUME Kept
    PROVE  /\ OwnWrites => OwnWrites'
           /\ SentStored => SentStored'
           /\ RecentsBehind => RecentsBehind'
           /\ RecentIsStored => RecentIsStored'
           /\ CopiesDue => CopiesDue'
  <1>1. docs' = docs /\ queue' = queue /\ crashes' = crashes
    BY DEF Kept
  <1>2. \A d \in Devices : SentBlocks(d)' = SentBlocks(d)
    BY DEF Kept
  <1>3. OwnWrites => OwnWrites'
    BY <1>1 DEF OwnWrites
  <1>4. SentStored => SentStored'
    BY <1>1, <1>2 DEF SentStored, Has
  <1>5. RecentsBehind => RecentsBehind'
    <2>1. \A d, i, u, m : Before(d, i, u, m) => Before(d, i, u, m)'
      BY <1>1 DEF Before, Has
    <2> QED BY <2>1, <1>1 DEF RecentsBehind
  <1>6. RecentIsStored => RecentIsStored'
    BY <1>1 DEF RecentIsStored, Has
  <1>7. CopiesDue => CopiesDue'
    BY <1>1, <1>2 DEF CopiesDue, CopyComing, Has
  <1> QED BY <1>3, <1>4, <1>5, <1>6, <1>7

\* What a listener has told of stays so: its screen is kept or left, the
\* documents change only as queued writes say, and only d sends, something new.
LEMMA HeardKept ==
    ASSUME HeardInv, NEW d \in Devices,
           \A e \in Devices : \/ list'[e] = list[e] /\ heard'[e] = heard[e]
                              \/ list'[e] = <<>> /\ heard'[e] = {},
           \A u \in Users, m \in Ids :
              /\ m <= sent => m <= sent'
              /\ docs[Copy(u, m)] # NoDoc => docs'[Copy(u, m)] # NoDoc
              /\ (\A e \in Devices : ~Brings(e, u, m)) => docs'[Copy(u, m)] = docs[Copy(u, m)]
              /\ \A e \in Devices :
                    Brings(e, u, m)' => Brings(e, u, m) \/ (e = d /\ ~(m <= sent) /\ m <= sent')
    PROVE  HeardInv'
  <1>1. Numbered /\ OneSource /\ ListsHeard
    BY DEF HeardInv
  <1>2. \A u \in Users, m \in Ids : \A e \in Devices : Brings(e, u, m) => m <= sent
    BY <1>1 DEF Numbered
  <1>3. Numbered'
    <2> SUFFICES ASSUME NEW u \in Users, NEW m \in Ids
                 PROVE  /\ docs'[Copy(u, m)] # NoDoc => m <= sent'
                        /\ \A e \in Devices : Brings(e, u, m)' => m <= sent'
      BY DEF Numbered
    <2>1. \A e \in Devices : Brings(e, u, m)' => m <= sent'
      BY <1>2
    <2>2. docs[Copy(u, m)] # NoDoc => m <= sent
      BY <1>1 DEF Numbered
    <2>3. CASE \E e \in Devices : Brings(e, u, m)
      BY <2>1, <2>3, <1>2
    <2>4. CASE \A e \in Devices : ~Brings(e, u, m)
      BY <2>1, <2>2, <2>4
    <2> QED BY <2>3, <2>4
  <1>4. OneSource'
    <2> SUFFICES ASSUME NEW u \in Users, NEW m \in Ids, NEW a \in Devices, NEW b \in Devices,
                        Brings(a, u, m)', Brings(b, u, m)'
                 PROVE  a = b
      BY DEF OneSource
    <2>1. /\ Brings(a, u, m) \/ (a = d /\ ~(m <= sent))
          /\ Brings(b, u, m) \/ (b = d /\ ~(m <= sent))
      OBVIOUS
    <2>2. Brings(a, u, m) /\ Brings(b, u, m) => a = b
      BY <1>1 DEF OneSource
    <2> QED BY <2>1, <2>2, <1>2
  <1>5. ListsHeard'
    <2> SUFFICES ASSUME NEW a \in Devices, NEW m \in Ids, m \in Range(list'[a]) \/ m \in heard'[a]
                 PROVE  /\ m <= sent'
                        /\ docs'[Copy(Me(a), m)] # NoDoc \/ \A e \in Devices : e # a => ~Brings(e, Me(a), m)'
                        /\ m \in Range(list'[a]) /\ m \notin heard'[a] =>
                              /\ docs'[Copy(Me(a), m)] = NoDoc
                              /\ \A e \in Devices : ~Brings(e, Me(a), m)'
      BY DEF ListsHeard, Me
    <2>1. list'[a] = list[a] /\ heard'[a] = heard[a]
      BY RangeOfEmpty
    <2>2. Me(a) \in Users /\ m <= sent
      BY <2>1, <1>1, MessagesAssumption DEF ListsHeard, Me
    <2>3. PICK u \in Users : u = Me(a)
      BY <2>2
    <2>4. \A e \in Devices : Brings(e, u, m)' => Brings(e, u, m)
      BY <2>2
    <2>5. /\ docs[Copy(u, m)] # NoDoc \/ \A e \in Devices : e # a => ~Brings(e, u, m)
          /\ m \in Range(list[a]) /\ m \notin heard[a] =>
                docs[Copy(u, m)] = NoDoc /\ \A e \in Devices : ~Brings(e, u, m)
      BY <2>1, <2>3, <1>1 DEF ListsHeard
    <2>6. /\ m <= sent'
          /\ docs'[Copy(u, m)] # NoDoc \/ \A e \in Devices : e # a => ~Brings(e, u, m)'
          /\ m \in Range(list'[a]) /\ m \notin heard'[a] =>
                docs'[Copy(u, m)] = NoDoc /\ \A e \in Devices : ~Brings(e, u, m)'
      BY <2>1, <2>2, <2>4, <2>5
    <2>7. \A e \in Devices : Brings(e, u, m)' <=> Brings(e, Me(a), m)'
      BY <2>3 DEF Brings
    <2> QED BY <2>3, <2>6, <2>7
  <1> QED BY <1>3, <1>4, <1>5 DEF HeardInv

\* No message is sent, and the screens are kept or left.
ListsStill ==
    /\ sent' = sent
    /\ \A e \in Devices : \/ list'[e] = list[e] /\ heard'[e] = heard[e]
                          \/ list'[e] = <<>> /\ heard'[e] = {}

LEMMA HeardStill ==
    ASSUME Kept, ListsStill, HeardInv
    PROVE  HeardInv'
  <1>1. docs' = docs /\ queue' = queue /\ \A d \in Devices : SentBlocks(d)' = SentBlocks(d)
    BY DEF Kept
  <1>2. \A e \in Devices, u \in Users, m \in Ids : Brings(e, u, m)' <=> Brings(e, u, m)
    BY <1>1 DEF Brings
  <1>3. /\ sent' = sent
        /\ \A e \in Devices : \/ list'[e] = list[e] /\ heard'[e] = heard[e]
                              \/ list'[e] = <<>> /\ heard'[e] = {}
    BY DEF ListsStill
  <1>4. CASE \E d \in Devices : TRUE
    BY <1>1, <1>2, <1>3, <1>4, HeardKept
  <1>5. CASE ~\E d \in Devices : TRUE
    BY <1>1, <1>3, <1>5 DEF HeardInv, Numbered, OneSource, ListsHeard
  <1> QED BY <1>4, <1>5

\* What d waits for in Storing and Telling stays.
Undisturbed(d) ==
    \/ mainq'[d] = mainq[d] /\ gets'[d] = gets[d]
    \/ gets[d] # <<>>
    \/ mainq[d] # <<>> /\ Head(mainq[d]).then.kind # "sentCopy"

LEMMA KeptWaits ==
    ASSUME Waiting, Kept, hasty' = hasty, \A d \in Devices : Undisturbed(d)
    PROVE  Waiting'
  <1> SUFFICES ASSUME ~hasty, crashes = 0 PROVE OneAtATime'
    BY DEF Waiting, Kept
  <1>1. OneAtATime
    BY DEF Waiting
  <1>2. docs' = docs /\ queue' = queue /\ \A d \in Devices : SentBlocks(d)' = SentBlocks(d)
    BY DEF Kept
  <1>3. (Agree => Agree') /\ \A d \in Devices : NothingOnItsWay(d) => NothingOnItsWay(d)'
    BY <1>2 DEF Agree, NothingOnItsWay
  <1>4. ASSUME NEW d \in Devices, Sending(d) PROVE Sending(d)'
    <2>1. CASE Storing(d)
      <3>1. mainq'[d] = mainq[d] /\ gets'[d] = gets[d]
        BY <2>1 DEF Storing, Undisturbed
      <3>2. Storing(d)'
        BY <2>1, <3>1, <1>2, <1>3 DEF Storing
      <3> QED BY <3>2 DEF Sending
    <2>2. CASE Telling(d)
      <3>1. PICK b \in MessageBlocks : mainq[d] = <<b>> /\ b.then.kind = "sentCopy"
        BY <2>2 DEF Telling
      <3>2. Head(mainq[d]) = b
        BY <3>1
      <3>3. mainq'[d] = mainq[d] /\ gets'[d] = gets[d]
        BY <2>2, <3>1, <3>2 DEF Telling, Undisturbed
      <3>4. Telling(d)'
        BY <2>2, <3>1, <3>3, <1>2, <1>3 DEF Telling
      <3> QED BY <3>4 DEF Sending
    <2>3. CASE Copying(d)
      <3>1. Copying(d)'
        BY <2>3, <1>2, <1>3 DEF Copying
      <3> QED BY <3>1 DEF Sending
    <2>4. CASE Naming(d)
      <3>1. Naming(d)'
        BY <2>4, <1>2, <1>3 DEF Naming
      <3> QED BY <3>1 DEF Sending
    <2>5. CASE Closing(d)
      <3>1. Closing(d)'
        BY <2>5, <1>2 DEF Closing
      <3> QED BY <3>1 DEF Sending
    <2> QED BY <1>4, <2>1, <2>2, <2>3, <2>4, <2>5 DEF Sending
  <1> QED BY <1>1, <1>3, <1>4 DEF OneAtATime

\* When nothing is in flight the last message has arrived everywhere.
LEMMA QuietAgree ==
    ASSUME OneAtATime, Quiescent
    PROVE  Agree /\ \A d \in Devices : NothingOnItsWay(d)
  <1>1. \A d \in Devices : queue[d] = <<>> /\ mainq[d] = <<>>
    BY DEF Quiescent, Quiet
  <1>2. ASSUME NEW d \in Devices, Sending(d) PROVE FALSE
    <2>1. \A x, y, z : <<x>> # <<>> /\ <<x, y>> # <<>> /\ <<x, y, z>> # <<>>
      OBVIOUS
    <2>2. ~Storing(d) /\ ~Telling(d)
      BY <1>1, <2>1 DEF Storing, Telling
    <2>3. ~Copying(d)
      BY <1>1, <2>1 DEF Copying
    <2>4. ~Naming(d) /\ ~Closing(d)
      BY <1>1, <2>1 DEF Naming, Closing
    <2> QED BY <1>2, <2>2, <2>3, <2>4 DEF Sending
  <1> QED BY <1>2 DEF OneAtATime

\* A touch of a user who waits.
Touched == hasty' = (hasty \/ \E e \in Devices : ~Settled(e))

LEMMA TouchWaits ==
    ASSUME Waiting, Kept, Touched, hasty \in BOOLEAN
    PROVE  Waiting'
  <1> SUFFICES ASSUME ~hasty', crashes' = 0 PROVE OneAtATime'
    BY DEF Waiting
  <1>1. ~hasty /\ crashes = 0 /\ Quiescent
    BY DEF Touched, Kept, Settled, Quiescent
  <1>2. Agree /\ \A d \in Devices : NothingOnItsWay(d)
    BY <1>1, QuietAgree DEF Waiting
  <1>3. Agree' /\ \A d \in Devices : NothingOnItsWay(d)'
    BY <1>2 DEF Kept, Agree, NothingOnItsWay
  <1> QED BY <1>3 DEF OneAtATime

\* What is left to show of a step that sends and stores nothing.
LEMMA KeptStep ==
    ASSUME MessagesIndInv, Kept, FlightOK', StateOK', BarsCounted', NoMessageTwice', ~Failures => Waiting',
           ListsStill \/ HeardInv'
    PROVE  MessagesIndInv'
  <1>1. HeardInv'
    BY HeardStill DEF MessagesIndInv, ListsInv
  <1> QED BY <1>1, KeptOK DEF MessagesIndInv, ListsInv, AcceptedInv

\* Nothing at all is in flight that was not before.
Resting == docs' = docs /\ queue' = queue /\ gets' = gets /\ mainq' = mainq /\ crashes' = crashes

LEMMA RestingKeeps ==
    ASSUME MessagesIndInv, Resting
    PROVE  /\ Kept /\ FlightOK' /\ \A d \in Devices : Undisturbed(d) /\ Asked(d)' = Asked(d)
  <1>1. Kept
    BY DEF Resting, Kept, SentBlocks
  <1>2. FlightOK'
    BY DEF MessagesIndInv, ListsInv, FlightOK, Resting
  <1>3. \A d \in Devices : Undisturbed(d) /\ Asked(d)' = Asked(d)
    BY DEF Resting, Undisturbed, Asked
  <1> QED BY <1>1, <1>2, <1>3

LEMMA RestingStep ==
    ASSUME MessagesIndInv, Resting, hasty' = hasty, StateOK', BarsCounted', NoMessageTwice',
           ListsStill \/ HeardInv'
    PROVE  MessagesIndInv'
  <1>1. ~Failures => Waiting'
    BY RestingKeeps, KeptWaits DEF MessagesIndInv, AcceptedInv
  <1> QED BY <1>1, RestingKeeps, KeptStep

LEMMA RestingTouch ==
    ASSUME MessagesIndInv, Resting, Touched, StateOK', BarsCounted', NoMessageTwice',
           ListsStill \/ HeardInv'
    PROVE  MessagesIndInv'
  <1>1. hasty \in BOOLEAN
    BY DEF MessagesIndInv, ListsInv, StateOK
  <1>2. ~Failures => Waiting'
    BY <1>1, RestingKeeps, TouchWaits DEF MessagesIndInv, AcceptedInv
  <1> QED BY <1>2, RestingKeeps, KeptStep

-----------------------------------------------------------------------------
(* The screens.                                                            *)

\* What a device sees as its most recent message is one.
LEMMA RecentSeen ==
    ASSUME FlightOK, StateOK, NEW d \in Devices
    PROVE  View(d, Recent(Me(d))) \in Ids \cup {NoDoc}
  <1>1. PICK path : path = Recent(Me(d))
    OBVIOUS
  <1>2. \/ View(d, path) = docs[path]
        \/ \E w \in Range(queue[d]) : path \in w.paths /\ View(d, path) = w.data
    BY ViewFrom DEF FlightOK
  <1>3. docs[path] \in Ids \cup {NoDoc}
    BY <1>1, PartnerFacts DEF StateOK
  <1>4. ASSUME NEW w \in Range(queue[d]), path \in w.paths PROVE w.data \in Ids
    <2>1. w \in MessageWrites
      BY InQueue DEF FlightOK
    <2>2. w.paths = {path}
      BY <2>1, <1>4, WriteFacts DEF OneDocument
    <2> QED BY <2>1, <2>2, <1>1, PartnerFacts, WriteFacts
  <1> QED BY <1>1, <1>2, <1>3, <1>4

LEMMA FetchConversationsOK ==
    ASSUME MessagesIndInv, NEW d \in Devices, fetchConversations(d), hasty' = hasty
    PROVE  MessagesIndInv'
  <1>1. ListsInv
    BY DEF MessagesIndInv
  <1>2. PICK r : r = View(d, Recent(Me(d)))
    OBVIOUS
  <1>3. /\ r # NoDoc /\ conv' = [conv EXCEPT ![d] = r]
        /\ docs' = docs /\ queue' = queue /\ gets' = gets /\ mainq' = mainq
        /\ chat' = chat /\ list' = list /\ heard' = heard /\ bar' = bar /\ draft' = draft /\ hud' = hud
        /\ sent' = sent /\ typed' = typed /\ chats' = chats /\ crashes' = crashes
    BY <1>2 DEF fetchConversations
  <1>4. r \in Ids
    BY <1>1, <1>2, <1>3, RecentSeen DEF ListsInv
  <1>5. StateOK'
    BY <1>1, <1>3, <1>4 DEF ListsInv, StateOK
  <1>6. BarsCounted' /\ NoMessageTwice' /\ Resting /\ ListsStill
    BY <1>1, <1>3 DEF ListsInv, BarsCounted, Asked, NoMessageTwice, Resting, ListsStill
  <1> QED BY <1>5, <1>6, RestingStep

LEMMA GoBackOK ==
    ASSUME MessagesIndInv, NEW d \in Devices, goBack(d), Touched
    PROVE  MessagesIndInv'
  <1>1. ListsInv
    BY DEF MessagesIndInv
  <1>2. /\ chat' = [chat EXCEPT ![d] = "none"]
        /\ docs' = docs /\ queue' = queue /\ gets' = gets /\ mainq' = mainq
        /\ conv' = conv /\ list' = list /\ heard' = heard /\ bar' = bar /\ draft' = draft /\ hud' = hud
        /\ sent' = sent /\ typed' = typed /\ chats' = chats /\ crashes' = crashes
    BY DEF goBack
  <1>3. StateOK'
    BY <1>1, <1>2 DEF ListsInv, StateOK, Touched
  <1>4. BarsCounted' /\ NoMessageTwice' /\ Resting /\ ListsStill
    BY <1>1, <1>2 DEF ListsInv, BarsCounted, Asked, NoMessageTwice, Resting, ListsStill
  <1> QED BY <1>3, <1>4, RestingTouch

LEMMA TypeOK ==
    ASSUME MessagesIndInv, NEW d \in Devices, type(d), Touched
    PROVE  MessagesIndInv'
  <1>1. ListsInv
    BY DEF MessagesIndInv
  <1>2. /\ typed < MaxTexts /\ typed' = typed + 1 /\ draft' = [draft EXCEPT ![d] = typed + 1]
        /\ docs' = docs /\ queue' = queue /\ gets' = gets /\ mainq' = mainq
        /\ conv' = conv /\ chat' = chat /\ list' = list /\ heard' = heard /\ bar' = bar /\ hud' = hud
        /\ sent' = sent /\ chats' = chats /\ crashes' = crashes
    BY DEF type
  <1>3. typed + 1 \in 0..MaxTexts
    BY <1>1, <1>2, MessagesAssumption DEF ListsInv, StateOK
  <1>4. draft' \in [Devices -> Texts]
    BY <1>1, <1>2, <1>3 DEF ListsInv, StateOK, Texts
  <1>5. StateOK'
    BY <1>1, <1>2, <1>3, <1>4 DEF ListsInv, StateOK, Touched
  <1>6. BarsCounted' /\ NoMessageTwice' /\ Resting /\ ListsStill
    BY <1>1, <1>2 DEF ListsInv, BarsCounted, Asked, NoMessageTwice, Resting, ListsStill
  <1> QED BY <1>5, <1>6, RestingTouch

LEMMA AnimateOK ==
    ASSUME MessagesIndInv, NEW d \in Devices, Animate(d), hasty' = hasty
    PROVE  MessagesIndInv'
  <1>1. ListsInv
    BY DEF MessagesIndInv
  <1>2. /\ hud' = [hud EXCEPT ![d] = animated(hud[d])] /\ Animating(hud[d])
        /\ docs' = docs /\ queue' = queue /\ gets' = gets /\ mainq' = mainq
        /\ conv' = conv /\ chat' = chat /\ list' = list /\ heard' = heard /\ bar' = bar /\ draft' = draft
        /\ sent' = sent /\ typed' = typed /\ chats' = chats /\ crashes' = crashes
    BY DEF Animate
  <1>3. hud' \in [Devices -> Huds({"conversations"})]
    <2>1. hud \in [Devices -> Huds({"conversations"})]
      BY <1>1 DEF ListsInv, StateOK
    <2>2. animated(hud[d]) \in Huds({"conversations"})
      BY <2>1, <1>2, HudFacts
    <2> QED BY <2>1, <2>2, <1>2
  <1>4. StateOK'
    BY <1>1, <1>2, <1>3 DEF ListsInv, StateOK
  <1>5. BarsCounted' /\ NoMessageTwice' /\ Resting /\ ListsStill
    BY <1>1, <1>2 DEF ListsInv, BarsCounted, Asked, NoMessageTwice, Resting, ListsStill
  <1> QED BY <1>4, <1>5, RestingStep

\* What d sees is stored or on its way from d.
LEMMA VisibleFacts ==
    ASSUME FlightOK, NEW d \in Devices, NEW m \in Ids
    PROVE  m \in Visible(d) <=> docs[Copy(Me(d), m)] # NoDoc \/ Brings(d, Me(d), m)
  <1>1. queue \in QueuesOf(MessageWrites) /\ \A w \in MessageWrites : w.data # NoDoc /\ ~w.upd
    BY WriteFacts DEF FlightOK
  <1>2. Me(d) \in Users /\ Me(d) # Other(d)
    BY PartnerFacts
  <1>3. PICK path : path = Copy(Me(d), m)
    OBVIOUS
  <1>4. \A w \in Range(queue[d]) : path \in w.paths <=> w.paths = {path}
    <2> SUFFICES ASSUME NEW w \in Range(queue[d]), path \in w.paths PROVE w.paths = {path}
      OBVIOUS
    <2>1. w \in MessageWrites
      BY <1>1, InQueue
    <2> QED BY <2>1, WriteFacts DEF OneDocument
  <1>5. View(d, path) # NoDoc <=> docs[path] # NoDoc \/ \E w \in Range(queue[d]) : path \in w.paths
    BY <1>1, ViewOfSets
  <1>6. Brings(d, Me(d), m) <=> \E w \in Range(queue[d]) : w.paths = {path}
    BY <1>2, <1>3 DEF Brings
  <1> QED BY <1>3, <1>4, <1>5, <1>6 DEF Visible

\* The listener appends messages that are not in the list: those that have gone
\* from the snapshots do not come back.
LEMMA FetchMessagesOK ==
    ASSUME MessagesIndInv, NEW d \in Devices, fetchMessages(d), hasty' = hasty
    PROVE  MessagesIndInv'
  <1>1. ListsInv
    BY DEF MessagesIndInv
  <1>2. PICK added : added = Visible(d) \ heard[d]
    OBVIOUS
  <1>3. /\ list' = [list EXCEPT ![d] = list[d] \o OldestFirst(added)]
        /\ heard' = [heard EXCEPT ![d] = Visible(d)]
        /\ chat' = [chat EXCEPT ![d] = "loaded"]
        /\ docs' = docs /\ queue' = queue /\ gets' = gets /\ mainq' = mainq
        /\ conv' = conv /\ bar' = bar /\ draft' = draft /\ hud' = hud
        /\ sent' = sent /\ typed' = typed /\ chats' = chats /\ crashes' = crashes
    BY <1>2 DEF fetchMessages, appends
  <1>4. PICK s : s = OldestFirst(added)
    OBVIOUS
  <1>5. MaxMessages \in Nat /\ added \in SUBSET (1..MaxMessages)
    BY <1>2, MessagesAssumption DEF Visible, Ids
  <1>6. Rising(s, added)
    <2>1. \E t : Rising(t, added)
      BY <1>5, RisingExists
    <2>2. \E t \in [1..Cardinality(added) -> added] :
              \A i, j \in 1..Cardinality(added) : i < j => t[i] < t[j]
      BY <2>1 DEF Rising
    <2> QED BY <2>2, <1>4 DEF Rising, OldestFirst
  <1>7. s \in Seq(added) /\ IsInjective(s)
    BY <1>5, <1>6, RisingIsSeq
  <1>8. Range(s) \subseteq added /\ s \in Seq(Ids)
    <2>1. Range(s) \subseteq added
      BY <1>7, RangeOfSeq
    <2>2. added \subseteq Ids
      BY <1>5 DEF Ids
    <2>3. s \in Seq(Ids)
      BY <1>7, <2>2
    <2> QED BY <2>1, <2>3
  <1>9. /\ list \in [Devices -> Seq(Ids)] /\ list[d] \in Seq(Ids) /\ IsInjective(list[d])
        /\ heard \in [Devices -> SUBSET Ids] /\ FlightOK /\ Numbered /\ OneSource /\ ListsHeard
    BY <1>1 DEF HeardInv, ListsInv, StateOK, NoMessageTwice
  <1>10. list[d] \o s \in Seq(Ids) /\ IsInjective(list[d] \o s)
    <2>1. Range(list[d]) \cap Range(s) = {}
      <3> SUFFICES ASSUME NEW m \in Ids, m \in Range(list[d]), m \in added PROVE FALSE
        BY <1>5, <1>8 DEF Ids
      <3>1. docs[Copy(Me(d), m)] = NoDoc /\ ~Brings(d, Me(d), m)
        BY <1>2, <1>9 DEF ListsHeard
      <3> QED BY <3>1, <1>2, <1>9, VisibleFacts
    <2> QED BY <2>1, <1>7, <1>8, <1>9, InjectiveConcat, ConcatProperties
  <1>11. /\ list' \in [Devices -> Seq(Ids)] /\ list'[d] = list[d] \o s
         /\ \A e \in Devices \ {d} : list'[e] = list[e]
         /\ heard' \in [Devices -> SUBSET Ids] /\ heard'[d] = Visible(d)
         /\ \A e \in Devices \ {d} : heard'[e] = heard[e]
    <2>1. Visible(d) \in SUBSET Ids
      BY DEF Visible
    <2>2. PICK V \in SUBSET Ids : V = Visible(d)
      BY <2>1
    <2> QED BY <2>2, <1>3, <1>4, <1>9, <1>10
  <1>12. NoMessageTwice'
    BY <1>1, <1>10, <1>11 DEF ListsInv, NoMessageTwice
  <1>13. StateOK'
    BY <1>1, <1>3, <1>11 DEF ListsInv, StateOK
  <1>14. BarsCounted' /\ Resting
    BY <1>1, <1>3 DEF ListsInv, BarsCounted, Asked, Resting
  <1>15. \A e \in Devices, u \in Users, m \in Ids : Brings(e, u, m)' <=> Brings(e, u, m)
    BY <1>3 DEF Brings, SentBlocks
  <1>16. Numbered' /\ OneSource'
    BY <1>3, <1>9, <1>15 DEF Numbered, OneSource
  <1>17. ListsHeard'
    <2> SUFFICES ASSUME NEW a \in Devices, NEW m \in Ids, m \in Range(list'[a]) \/ m \in heard'[a]
                 PROVE  /\ m <= sent
                        /\ docs[Copy(Me(a), m)] # NoDoc \/ \A e \in Devices : e # a => ~Brings(e, Me(a), m)
                        /\ m \in Range(list'[a]) /\ m \notin heard'[a] =>
                              /\ docs[Copy(Me(a), m)] = NoDoc
                              /\ \A e \in Devices : ~Brings(e, Me(a), m)
      BY <1>3, <1>15, PartnerFacts DEF ListsHeard
    <2>1. Me(d) \in Users
      BY PartnerFacts
    <2>2. CASE a # d
      BY <2>2, <1>9, <1>11 DEF ListsHeard
    <2>3. CASE a = d /\ m \in Visible(d)
      <3>1. docs[Copy(Me(d), m)] # NoDoc \/ Brings(d, Me(d), m)
        BY <2>3, <1>9, VisibleFacts
      <3>2. m <= sent
        BY <2>1, <3>1, <1>9 DEF Numbered
      <3>3. Brings(d, Me(d), m) => \A e \in Devices : e # d => ~Brings(e, Me(d), m)
        BY <2>1, <1>9 DEF OneSource
      <3> QED BY <3>1, <3>2, <3>3, <2>3, <1>11
    <2>4. CASE a = d /\ m \notin Visible(d)
      <3>1. docs[Copy(Me(d), m)] = NoDoc /\ ~Brings(d, Me(d), m)
        BY <2>4, <1>9, VisibleFacts
      <3>2. m \in Range(list[d]) \/ m \in Range(s)
        <4>1. Range(list[d] \o s) = Range(list[d]) \cup Range(s)
          BY <1>8, <1>9, RangeOfConcat
        <4> QED BY <4>1, <2>4, <1>11
      <3>3. m \in Range(list[d])
        BY <3>2, <2>4, <1>2, <1>8
      <3>4. m <= sent /\ \A e \in Devices : e # d => ~Brings(e, Me(d), m)
        BY <3>1, <3>3, <1>9 DEF ListsHeard
      <3>5. \A e \in Devices : ~Brings(e, Me(d), m)
        BY <3>1, <3>4
      <3> QED BY <3>1, <3>4, <3>5, <2>4
    <2> QED BY <2>2, <2>3, <2>4
  <1>18. HeardInv'
    BY <1>16, <1>17 DEF HeardInv
  <1> QED BY <1>3, <1>12, <1>13, <1>14, <1>18, RestingStep

\* A new chat screen has an input bar of its own and an empty list.
LEMMA ShowChatFacts ==
    ASSUME StateOK, NoMessageTwice, NEW d \in Devices, showChatController(d)
    PROVE  /\ chat' \in [Devices -> {"none", "loading", "loaded"}]
           /\ list' \in [Devices -> Seq(Ids)] /\ NoMessageTwice'
           /\ heard' \in [Devices -> SUBSET Ids]
           /\ sent' = sent => ListsStill
           /\ bar' \in [Devices -> Nat] /\ bar'[d] = bar[d] + 1
           /\ \A e \in Devices \ {d} : bar'[e] = bar[e]
           /\ draft' \in [Devices -> Texts]
  <1>1. /\ chat' = [chat EXCEPT ![d] = "loading"] /\ list' = [list EXCEPT ![d] = <<>>]
        /\ heard' = [heard EXCEPT ![d] = {}]
        /\ bar' = [bar EXCEPT ![d] = bar[d] + 1] /\ draft' = [draft EXCEPT ![d] = 0]
    BY DEF showChatController
  <1>2. chat' \in [Devices -> {"none", "loading", "loaded"}] /\ list' \in [Devices -> Seq(Ids)]
    BY <1>1 DEF StateOK
  <1>3. /\ bar' \in [Devices -> Nat] /\ bar'[d] = bar[d] + 1
        /\ \A e \in Devices \ {d} : bar'[e] = bar[e]
    BY <1>1 DEF StateOK
  <1>4. draft' \in [Devices -> Texts]
    BY <1>1, MessagesAssumption DEF StateOK, Texts
  <1>5. NoMessageTwice'
    <2>1. ASSUME NEW e \in Devices PROVE list'[e] = list[e] \/ list'[e] = <<>>
      BY <1>1 DEF StateOK
    <2>2. IsInjective(<<>>)
      BY DEF IsInjective
    <2> QED BY <2>1, <2>2 DEF NoMessageTwice
  <1>6. heard' \in [Devices -> SUBSET Ids]
    BY <1>1 DEF StateOK
  <1>7. sent' = sent => ListsStill
    BY <1>1 DEF StateOK, ListsStill
  <1> QED BY <1>2, <1>3, <1>4, <1>5, <1>6, <1>7

\* The number of screens asked for is a number.
LEMMA AskedIsNat ==
    ASSUME FlightOK, NEW d \in Devices
    PROVE  /\ Len(gets[d]) \in Nat /\ Cardinality(FetchedIn(mainq[d])) \in Nat
           /\ Asked(d) = Len(gets[d]) + Cardinality(FetchedIn(mainq[d]))
  <1>1. gets[d] \in Seq(UserReads) /\ mainq[d] \in Seq(MessageBlocks)
    BY DEF FlightOK, QueuesOf
  <1>2. Len(gets[d]) \in Nat
    BY <1>1
  <1>3. Cardinality(FetchedIn(mainq[d])) \in Nat
    BY <1>1, CountIsNat
  <1> QED BY <1>2, <1>3 DEF Asked

LEMMA WantsToStartChatWithOK ==
    ASSUME MessagesIndInv, NEW d \in Devices, wantsToStartChatWith(d), Touched
    PROVE  MessagesIndInv'
  <1>1. ListsInv
    BY DEF MessagesIndInv
  <1>2. /\ chats < MaxChats /\ chats' = chats + 1 /\ showChatController(d)
        /\ docs' = docs /\ queue' = queue /\ gets' = gets /\ mainq' = mainq
        /\ conv' = conv /\ hud' = hud
        /\ sent' = sent /\ typed' = typed /\ crashes' = crashes
    BY DEF wantsToStartChatWith
  <1>3. /\ chat' \in [Devices -> {"none", "loading", "loaded"}]
        /\ list' \in [Devices -> Seq(Ids)] /\ NoMessageTwice'
        /\ heard' \in [Devices -> SUBSET Ids] /\ ListsStill
        /\ bar' \in [Devices -> Nat] /\ bar'[d] = bar[d] + 1
        /\ \A e \in Devices \ {d} : bar'[e] = bar[e]
        /\ draft' \in [Devices -> Texts]
    BY <1>1, <1>2, ShowChatFacts DEF ListsInv
  <1>4. chats' \in 0..MaxChats /\ chats \in Nat
    BY <1>1, <1>2, MessagesAssumption DEF ListsInv, StateOK
  <1>5. StateOK'
    BY <1>1, <1>2, <1>3, <1>4 DEF ListsInv, StateOK, Touched
  <1>6. Resting
    BY <1>2 DEF Resting
  <1>7. ASSUME NEW e \in Devices PROVE bar'[e] + Asked(e)' <= chats'
    <2>1. Asked(e)' = Asked(e) /\ Asked(e) \in Nat
      BY <1>1, <1>2, AskedIsNat DEF ListsInv, Asked
    <2>2. bar[e] \in Nat /\ bar[e] + Asked(e) <= chats
      BY <1>1 DEF ListsInv, StateOK, BarsCounted
    <2>3. bar'[e] = bar[e] \/ bar'[e] = bar[e] + 1
      BY <1>3
    <2> QED BY <2>1, <2>2, <2>3, <1>2, <1>4
  <1>8. BarsCounted'
    BY <1>7 DEF BarsCounted
  <1> QED BY <1>3, <1>5, <1>6, <1>8, RestingTouch

-----------------------------------------------------------------------------
(* A chat is asked for, and the partner's account is read.                 *)

LEMMA NothingQueued ==
    ASSUME NEW S, NEW f \in QueuesOf(S), NEW d \in Devices
    PROVE  [f EXCEPT ![d] = f[d] \o <<>>] = f
  <1>1. f[d] \in Seq(S) /\ f \in [Devices -> Seq(S)]
    BY DEF QueuesOf
  <1>2. f[d] \o <<>> = f[d]
    BY <1>1, ConcatEmptySeq
  <1> QED BY <1>1, <1>2

LEMMA DidSelectRowOK ==
    ASSUME MessagesIndInv, NEW d \in Devices, didSelectRow(d), Touched
    PROVE  MessagesIndInv'
  <1>1. ListsInv /\ FlightOK
    BY DEF MessagesIndInv, ListsInv
  <1>2. PICK r : r = getDocument(UserDoc(Other(d)), FetchedUser)
    OBVIOUS
  <1>3. /\ chats < MaxChats /\ chats' = chats + 1
        /\ hud' = [hud EXCEPT ![d] = show(hud[d], "conversations")]
        /\ Issue(d, <<>>, <<r>>)
        /\ conv' = conv /\ chat' = chat /\ list' = list /\ heard' = heard /\ bar' = bar /\ draft' = draft
        /\ sent' = sent /\ typed' = typed /\ crashes' = crashes
    BY <1>2 DEF didSelectRow
  <1>4. r \in UserReads
    BY <1>2, PartnerFacts DEF getDocument, Read, UserReads
  <1>5. docs' = docs /\ mainq' = mainq /\ queue' = queue /\ gets' = [gets EXCEPT ![d] = gets[d] \o <<r>>]
    <2>1. queue' = [queue EXCEPT ![d] = queue[d] \o <<>>]
      BY <1>3 DEF Issue
    <2>2. queue \in QueuesOf(MessageWrites)
      BY <1>1 DEF FlightOK
    <2>3. queue' = queue
      BY <2>1, <2>2, NothingQueued
    <2> QED BY <2>3, <1>3 DEF Issue
  <1>6. /\ gets[d] \o <<r>> \in Seq(UserReads) /\ Len(gets[d] \o <<r>>) = Len(gets[d]) + 1
    <2>1. gets[d] \in Seq(UserReads) /\ <<r>> \in Seq(UserReads) /\ Len(<<r>>) = 1
      BY <1>1, <1>4 DEF FlightOK, QueuesOf
    <2> QED BY <2>1, ConcatProperties
  <1>7. /\ gets' \in QueuesOf(UserReads) /\ Len(gets'[d]) = Len(gets[d]) + 1
        /\ \A e \in Devices \ {d} : gets'[e] = gets[e]
    BY <1>1, <1>5, <1>6 DEF FlightOK, QueuesOf
  <1>8. FlightOK' /\ Kept
    BY <1>1, <1>3, <1>5, <1>7 DEF FlightOK, Kept, SentBlocks
  <1>9. hud' \in [Devices -> Huds({"conversations"})]
    <2>1. hud \in [Devices -> Huds({"conversations"})]
      BY <1>1 DEF ListsInv, StateOK
    <2>2. show(hud[d], "conversations") \in Huds({"conversations"})
      BY <2>1, HudFacts
    <2> QED BY <2>1, <2>2, <1>3
  <1>10. chats' \in 0..MaxChats /\ chats \in Nat
    BY <1>1, <1>3, MessagesAssumption DEF ListsInv, StateOK
  <1>11. StateOK' /\ NoMessageTwice'
    BY <1>1, <1>3, <1>5, <1>9, <1>10 DEF ListsInv, StateOK, NoMessageTwice, Touched
  <1>12. ASSUME NEW e \in Devices PROVE bar'[e] + Asked(e)' <= chats'
    <2>1. PICK n \in Nat, k \in Nat : n = Len(gets[e]) /\ k = Cardinality(FetchedIn(mainq[e]))
      BY <1>1, AskedIsNat
    <2>2. Asked(e) = n + k /\ (Asked(e)' = n + k \/ Asked(e)' = n + 1 + k)
      BY <2>1, <1>5, <1>7 DEF Asked
    <2>3. bar[e] \in Nat /\ bar[e] + Asked(e) <= chats
      BY <1>1 DEF ListsInv, StateOK, BarsCounted
    <2> QED BY <2>2, <2>3, <1>3, <1>10
  <1>13. BarsCounted'
    BY <1>12 DEF BarsCounted
  <1>14. ~Failures => Waiting'
    <2>1. hasty \in BOOLEAN
      BY <1>1 DEF ListsInv, StateOK
    <2> QED BY <2>1, <1>8, TouchWaits DEF MessagesIndInv, AcceptedInv
  <1>15. ListsStill
    BY <1>3 DEF ListsStill
  <1> QED BY <1>8, <1>11, <1>13, <1>14, <1>15, KeptStep

\* What a device sees at an account's document.
LEMMA ContentsSeen ==
    ASSUME FlightOK, StateOK, NEW d \in Devices, NEW u \in Users
    PROVE  View(d, UserDoc(u)) \in Contents
  <1>1. PICK path : path = UserDoc(u)
    OBVIOUS
  <1>2. \/ View(d, path) = docs[path]
        \/ \E w \in Range(queue[d]) : path \in w.paths /\ View(d, path) = w.data
    BY ViewFrom DEF FlightOK
  <1>3. docs[path] \in Contents
    BY <1>1, PathFacts DEF StateOK
  <1>4. ASSUME NEW w \in Range(queue[d]) PROVE w.data \in Contents
    <2>1. w \in MessageWrites
      BY InQueue DEF FlightOK
    <2> QED BY <2>1, CopyWriteFacts, RecentWriteFacts DEF Contents, MessageWrites
  <1> QED BY <1>1, <1>2, <1>3, <1>4

LEMMA ReadAnswers ==
    ASSUME FlightOK, StateOK, NEW d \in Devices, NEW r \in UserReads
    PROVE  /\ ~r.each
           /\ [then |-> r.then, res |-> [path \in r.paths |-> View(d, path)]] \in FetchedBlocks
  <1>1. PICK u \in Users : r.paths = {UserDoc(u)} /\ ~r.each /\ r.then = FetchedUser
    BY DEF UserReads
  <1>2. PICK x \in Contents : x = View(d, UserDoc(u))
    BY ContentsSeen
  <1>3. [path \in r.paths |-> View(d, path)] = [path \in {UserDoc(u)} |-> x]
    BY <1>1, <1>2
  <1>4. Fetched(u, x) \in FetchedBlocks
    BY DEF FetchedBlocks
  <1>5. [then |-> r.then, res |-> [path \in r.paths |-> View(d, path)]] = Fetched(u, x)
    BY <1>1, <1>3 DEF Fetched
  <1> QED BY <1>1, <1>4, <1>5

\* The app is left alone.
AppKept ==
    /\ conv' = conv /\ chat' = chat /\ list' = list /\ heard' = heard /\ bar' = bar /\ draft' = draft /\ hud' = hud
    /\ sent' = sent /\ typed' = typed /\ chats' = chats /\ crashes' = crashes /\ hasty' = hasty

LEMMA ResolveOK ==
    ASSUME MessagesIndInv, NEW d \in Devices, NEW k \in DOMAIN gets[d], Resolve(d, k), AppKept
    PROVE  MessagesIndInv'
  <1>1. ListsInv /\ FlightOK /\ StateOK
    BY DEF MessagesIndInv, ListsInv
  <1>2. PICK r : r = gets[d][k]
    OBVIOUS
  <1>3. PICK b : b = [then |-> r.then, res |-> [path \in r.paths |-> View(d, path)]]
    OBVIOUS
  <1>4. gets[d] \in Seq(UserReads) /\ mainq[d] \in Seq(MessageBlocks) /\ r \in UserReads
    BY <1>1, <1>2 DEF FlightOK, QueuesOf
  <1>5. b \in FetchedBlocks /\ b \in MessageBlocks /\ ~r.each /\ b.then.kind = "fetchedUser"
    <2>1. b \in FetchedBlocks /\ ~r.each
      BY <1>1, <1>3, <1>4, ReadAnswers
    <2> QED BY <2>1, BlockFacts DEF MessageBlocks
  <1>6. /\ gets' = [gets EXCEPT ![d] = RemoveAt(gets[d], k)]
        /\ mainq' = [mainq EXCEPT ![d] = Append(mainq[d], b)]
        /\ docs' = docs /\ queue' = queue
    <2>1. Part(r) = {r.paths}
      BY <1>5 DEF Part
    <2>2. Rest(d, k, r.paths) = [gets EXCEPT ![d] = RemoveAt(gets[d], k)]
      BY <1>2 DEF Rest
    <2>3. /\ \E ps \in Part(r) :
                /\ mainq' = [mainq EXCEPT ![d] = Append(mainq[d],
                      [then |-> r.then, res |-> [path \in ps |-> View(d, path)]])]
                /\ gets' = Rest(d, k, ps)
          /\ docs' = docs /\ queue' = queue
      BY <1>2 DEF Resolve
    <2> QED BY <2>1, <2>2, <2>3, <1>3
  <1>7. /\ RemoveAt(gets[d], k) \in Seq(UserReads) /\ Len(RemoveAt(gets[d], k)) = Len(gets[d]) - 1
        /\ Append(mainq[d], b) \in Seq(MessageBlocks)
        /\ Range(Append(mainq[d], b)) = Range(mainq[d]) \cup {b}
        /\ Cardinality(FetchedIn(Append(mainq[d], b))) = Cardinality(FetchedIn(mainq[d])) + 1
    <2>1. RemoveAt(gets[d], k) \in Seq(UserReads) /\ Len(RemoveAt(gets[d], k)) = Len(gets[d]) - 1
      BY <1>4, RangeOfRemoveAt
    <2>2. /\ Append(mainq[d], b) \in Seq(MessageBlocks)
          /\ Range(Append(mainq[d], b)) = Range(mainq[d]) \cup {b}
      BY <1>4, <1>5, RangeOfAppend
    <2>3. Cardinality(FetchedIn(Append(mainq[d], b))) = Cardinality(FetchedIn(mainq[d])) + 1
      BY <1>4, <1>5, CountOfAppend
    <2> QED BY <2>1, <2>2, <2>3
  <1>8. /\ gets' \in QueuesOf(UserReads) /\ mainq' \in QueuesOf(MessageBlocks)
        /\ gets'[d] = RemoveAt(gets[d], k) /\ mainq'[d] = Append(mainq[d], b)
        /\ \A e \in Devices \ {d} : gets'[e] = gets[e] /\ mainq'[e] = mainq[e]
    BY <1>1, <1>6, <1>7 DEF FlightOK, QueuesOf
  <1>9. FlightOK'
    BY <1>1, <1>6, <1>8 DEF FlightOK
  <1>10. Kept
    <2>1. ASSUME NEW e \in Devices PROVE SentBlocks(e)' = SentBlocks(e)
      BY <1>5, <1>7, <1>8 DEF SentBlocks
    <2> QED BY <2>1, <1>6 DEF Kept, AppKept
  <1>11. \A e \in Devices : Undisturbed(e)
    <2>1. gets[d] # <<>>
      OBVIOUS
    <2> QED BY <2>1, <1>8 DEF Undisturbed
  <1>12. ASSUME NEW e \in Devices PROVE Asked(e)' = Asked(e)
    <2>1. CASE e = d
      <3>1. PICK n \in Nat, c \in Nat : n = Len(gets[d]) /\ c = Cardinality(FetchedIn(mainq[d]))
        BY <1>1, AskedIsNat
      <3>2. Asked(d) = n + c /\ Asked(d)' = (n - 1) + (c + 1)
        BY <3>1, <1>7, <1>8 DEF Asked
      <3> QED BY <2>1, <3>1, <3>2
    <2>2. CASE e # d
      BY <2>2, <1>8 DEF Asked
    <2> QED BY <2>1, <2>2
  <1>13. BarsCounted' /\ StateOK' /\ NoMessageTwice'
    BY <1>1, <1>6, <1>12 DEF ListsInv, BarsCounted, StateOK, NoMessageTwice, AppKept
  <1>14. ~Failures => Waiting'
    BY <1>10, <1>11, KeptWaits DEF MessagesIndInv, AcceptedInv, AppKept
  <1>15. ListsStill
    BY DEF ListsStill, AppKept
  <1> QED BY <1>9, <1>10, <1>13, <1>14, <1>15, KeptStep

LEMMA LoseOK ==
    ASSUME MessagesIndInv, NEW d \in Devices, NEW k \in DOMAIN gets[d], Lose(d, k), AppKept
    PROVE  MessagesIndInv'
  <1>1. ListsInv /\ FlightOK /\ StateOK
    BY DEF MessagesIndInv, ListsInv
  <1>2. PICK r : r = gets[d][k]
    OBVIOUS
  <1>3. gets[d] \in Seq(UserReads) /\ r \in UserReads
    BY <1>1, <1>2 DEF FlightOK, QueuesOf
  <1>4. ~r.each
    BY <1>3 DEF UserReads
  <1>5. /\ gets' = [gets EXCEPT ![d] = RemoveAt(gets[d], k)]
        /\ mainq' = mainq /\ docs' = docs /\ queue' = queue /\ Failures
    <2>1. Part(r) = {r.paths}
      BY <1>4 DEF Part
    <2>2. Rest(d, k, r.paths) = [gets EXCEPT ![d] = RemoveAt(gets[d], k)]
      BY <1>2 DEF Rest
    <2> QED BY <2>1, <2>2, <1>2 DEF Lose
  <1>6. RemoveAt(gets[d], k) \in Seq(UserReads) /\ Len(RemoveAt(gets[d], k)) = Len(gets[d]) - 1
    BY <1>3, RangeOfRemoveAt
  <1>7. /\ gets' \in QueuesOf(UserReads) /\ Len(gets'[d]) = Len(gets[d]) - 1
        /\ \A e \in Devices \ {d} : gets'[e] = gets[e]
    BY <1>1, <1>5, <1>6 DEF FlightOK, QueuesOf
  <1>8. FlightOK' /\ Kept
    BY <1>1, <1>5, <1>7 DEF FlightOK, Kept, SentBlocks, AppKept
  <1>9. ASSUME NEW e \in Devices PROVE bar'[e] + Asked(e)' <= chats'
    <2>1. PICK n \in Nat, c \in Nat : n = Len(gets[e]) /\ c = Cardinality(FetchedIn(mainq[e]))
      BY <1>1, AskedIsNat
    <2>2. Asked(e) = n + c /\ (Asked(e)' = n + c \/ Asked(e)' = n - 1 + c)
      BY <2>1, <1>5, <1>7 DEF Asked
    <2>3. bar[e] \in Nat /\ bar[e] + Asked(e) <= chats /\ chats \in Nat
      BY <1>1, MessagesAssumption DEF ListsInv, StateOK, BarsCounted
    <2>4. bar'[e] = bar[e] /\ chats' = chats
      BY DEF AppKept
    <2> QED BY <2>1, <2>2, <2>3, <2>4
  <1>10. BarsCounted' /\ StateOK' /\ NoMessageTwice'
    BY <1>1, <1>5, <1>9 DEF ListsInv, BarsCounted, StateOK, NoMessageTwice, AppKept
  <1>11. ListsStill
    BY DEF ListsStill, AppKept
  <1> QED BY <1>5, <1>8, <1>10, <1>11, KeptStep

-----------------------------------------------------------------------------
(* Completion blocks that send nothing.                                    *)

LEMMA TakeNothing ==
    ASSUME MessagesIndInv, NEW d \in Devices, mainq[d] # <<>>, Take(d, <<>>, <<>>),
           Head(mainq[d]).then.kind # "sentCopy", crashes' = crashes
    PROVE  /\ FlightOK' /\ Kept /\ \A e \in Devices : Undisturbed(e)
           /\ docs' = docs
           /\ \A e \in Devices \ {d} : Asked(e)' = Asked(e)
           /\ Asked(d)' \in Nat
           /\ Asked(d) = Asked(d)' + (IF Head(mainq[d]).then.kind = "fetchedUser" THEN 1 ELSE 0)
  <1>1. FlightOK
    BY DEF MessagesIndInv, ListsInv
  <1>2. PICK h : h = Head(mainq[d])
    OBVIOUS
  <1>3. mainq[d] \in Seq(MessageBlocks) /\ gets[d] \in Seq(UserReads)
    BY <1>1 DEF FlightOK, QueuesOf
  <1>4. docs' = docs /\ queue' = queue /\ gets' = gets /\ mainq' = [mainq EXCEPT ![d] = Tail(mainq[d])]
    <2>1. queue \in QueuesOf(MessageWrites) /\ gets \in QueuesOf(UserReads)
      BY <1>1 DEF FlightOK
    <2>2. /\ queue' = [queue EXCEPT ![d] = queue[d] \o <<>>]
          /\ gets' = [gets EXCEPT ![d] = gets[d] \o <<>>]
      BY DEF Take
    <2>3. queue' = queue /\ gets' = gets
      BY <2>1, <2>2, NothingQueued
    <2> QED BY <2>3 DEF Take
  <1>5. /\ Tail(mainq[d]) \in Seq(MessageBlocks)
        /\ Range(mainq[d]) = {h} \cup Range(Tail(mainq[d]))
        /\ Cardinality(FetchedIn(mainq[d])) =
              Cardinality(FetchedIn(Tail(mainq[d]))) + (IF h.then.kind = "fetchedUser" THEN 1 ELSE 0)
        /\ Cardinality(FetchedIn(Tail(mainq[d]))) \in Nat
    BY <1>2, <1>3, RangeOfTail, CountOfTail, CountIsNat
  <1>6. /\ mainq' \in QueuesOf(MessageBlocks) /\ mainq'[d] = Tail(mainq[d])
        /\ \A e \in Devices \ {d} : mainq'[e] = mainq[e]
    BY <1>1, <1>4, <1>5 DEF FlightOK, QueuesOf
  <1>7. FlightOK'
    BY <1>1, <1>4, <1>6 DEF FlightOK
  <1>8. Kept
    <2>1. ASSUME NEW e \in Devices PROVE SentBlocks(e)' = SentBlocks(e)
      <3>1. CASE e = d
        BY <3>1, <1>2, <1>5, <1>6 DEF SentBlocks
      <3>2. CASE e # d
        BY <3>2, <1>6 DEF SentBlocks
      <3> QED BY <3>1, <3>2
    <2> QED BY <2>1, <1>4 DEF Kept
  <1>9. \A e \in Devices : Undisturbed(e)
    BY <1>4, <1>6 DEF Undisturbed
  <1>10. \A e \in Devices \ {d} : Asked(e)' = Asked(e)
    BY <1>4, <1>6 DEF Asked
  <1>11. /\ Asked(d)' \in Nat
         /\ Asked(d) = Asked(d)' + (IF h.then.kind = "fetchedUser" THEN 1 ELSE 0)
    <2>1. PICK n \in Nat, c \in Nat : n = Len(gets[d]) /\ c = Cardinality(FetchedIn(Tail(mainq[d])))
      BY <1>3, <1>5
    <2>2. Asked(d)' = n + c /\ Asked(d) = n + (c + (IF h.then.kind = "fetchedUser" THEN 1 ELSE 0))
      BY <2>1, <1>4, <1>5, <1>6 DEF Asked
    <2> QED BY <2>1, <2>2
  <1> QED BY <1>2, <1>4, <1>7, <1>8, <1>9, <1>10, <1>11

LEMMA FetchedUserOK ==
    ASSUME MessagesIndInv, NEW d \in Devices, fetchedUser(d), hasty' = hasty
    PROVE  MessagesIndInv'
  <1>1. ListsInv /\ FlightOK /\ StateOK /\ NoMessageTwice
    BY DEF MessagesIndInv, ListsInv
  <1>2. /\ mainq[d] # <<>> /\ Head(mainq[d]).then.kind = "fetchedUser"
        /\ Take(d, <<>>, <<>>)
        /\ hud' = [hud EXCEPT ![d] = dismiss(hud[d])]
        /\ showChatController(d)
        /\ conv' = conv /\ sent' = sent /\ typed' = typed /\ chats' = chats /\ crashes' = crashes
    BY DEF fetchedUser, Due
  <1>3. /\ FlightOK' /\ Kept /\ \A e \in Devices : Undisturbed(e)
        /\ docs' = docs
        /\ \A e \in Devices \ {d} : Asked(e)' = Asked(e)
        /\ Asked(d)' \in Nat
        /\ Asked(d) = Asked(d)' + 1
    BY <1>2, TakeNothing
  <1>4. /\ chat' \in [Devices -> {"none", "loading", "loaded"}]
        /\ list' \in [Devices -> Seq(Ids)] /\ NoMessageTwice'
        /\ heard' \in [Devices -> SUBSET Ids] /\ ListsStill
        /\ bar' \in [Devices -> Nat] /\ bar'[d] = bar[d] + 1
        /\ \A e \in Devices \ {d} : bar'[e] = bar[e]
        /\ draft' \in [Devices -> Texts]
    BY <1>1, <1>2, ShowChatFacts
  <1>5. hud' \in [Devices -> Huds({"conversations"})]
    <2>1. hud \in [Devices -> Huds({"conversations"})]
      BY <1>1 DEF StateOK
    <2>2. dismiss(hud[d]) \in Huds({"conversations"})
      BY <2>1, HudFacts
    <2> QED BY <2>1, <2>2, <1>2
  <1>6. StateOK'
    BY <1>1, <1>2, <1>3, <1>4, <1>5 DEF StateOK
  <1>7. ASSUME NEW e \in Devices PROVE bar'[e] + Asked(e)' <= chats'
    <2>1. bar[e] \in Nat /\ bar[e] + Asked(e) <= chats
      BY <1>1 DEF ListsInv, StateOK, BarsCounted
    <2>2. CASE e = d
      <3>1. PICK n \in Nat : n = Asked(d)'
        BY <1>3
      <3>2. Asked(d) = n + 1 /\ bar'[d] = bar[d] + 1 /\ chats \in Nat
        BY <3>1, <1>1, <1>3, <1>4, MessagesAssumption DEF StateOK
      <3>3. bar[d] + (n + 1) <= chats
        BY <2>1, <2>2, <3>2
      <3>4. (bar[d] + 1) + n <= chats
        BY <3>2, <3>3, <2>1, <2>2
      <3> QED BY <2>2, <3>1, <3>2, <3>4, <1>2
    <2>3. CASE e # d
      BY <2>1, <2>3, <1>2, <1>3, <1>4
    <2> QED BY <2>2, <2>3
  <1>8. BarsCounted'
    BY <1>7 DEF BarsCounted
  <1>9. ~Failures => Waiting'
    BY <1>3, KeptWaits DEF MessagesIndInv, AcceptedInv
  <1> QED BY <1>3, <1>4, <1>6, <1>8, <1>9, KeptStep

LEMMA DeliveredOK ==
    ASSUME MessagesIndInv, NEW d \in Devices, delivered(d), hasty' = hasty
    PROVE  MessagesIndInv'
  <1>1. ListsInv /\ FlightOK /\ StateOK /\ NoMessageTwice
    BY DEF MessagesIndInv, ListsInv
  <1>2. /\ mainq[d] # <<>> /\ Head(mainq[d]).then.kind = "delivered"
        /\ Take(d, <<>>, <<>>)
        /\ draft' = [draft EXCEPT ![d] = 0] \/ draft' = draft
        /\ conv' = conv /\ chat' = chat /\ list' = list /\ heard' = heard /\ bar' = bar /\ hud' = hud
        /\ sent' = sent /\ typed' = typed /\ chats' = chats /\ crashes' = crashes
    BY DEF delivered, Due
  <1>3. /\ FlightOK' /\ Kept /\ \A e \in Devices : Undisturbed(e)
        /\ docs' = docs
        /\ \A e \in Devices \ {d} : Asked(e)' = Asked(e)
        /\ Asked(d)' \in Nat
        /\ Asked(d) = Asked(d)' + 0
    BY <1>2, TakeNothing
  <1>4. draft' \in [Devices -> Texts]
    <2>1. draft \in [Devices -> Texts] /\ 0 \in Texts
      BY <1>1, MessagesAssumption DEF StateOK, Texts
    <2> QED BY <2>1, <1>2
  <1>5. StateOK' /\ NoMessageTwice'
    BY <1>1, <1>2, <1>3, <1>4 DEF StateOK, NoMessageTwice
  <1>6. \A e \in Devices : Asked(e)' = Asked(e)
    BY <1>3
  <1>7. BarsCounted'
    BY <1>1, <1>2, <1>6 DEF ListsInv, BarsCounted
  <1>8. ~Failures => Waiting'
    BY <1>3, KeptWaits DEF MessagesIndInv, AcceptedInv
  <1>9. ListsStill
    BY <1>2 DEF ListsStill
  <1> QED BY <1>3, <1>5, <1>7, <1>8, <1>9, KeptStep

-----------------------------------------------------------------------------
(* Writes are added.                                                       *)

\* The writes ws are added to the queue of d.
Added(d, ws) ==
    /\ docs' = docs /\ crashes' = crashes
    /\ queue'[d] = queue[d] \o ws
    /\ \A e \in Devices \ {d} : queue'[e] = queue[e]

\* Where a write is afterwards.
LEMMA AddedFacts ==
    ASSUME FlightOK, NEW d \in Devices, NEW ws \in Seq(MessageWrites), Added(d, ws)
    PROVE  /\ Len(queue[d]) \in Nat /\ DOMAIN queue[d] = 1..Len(queue[d])
           /\ DOMAIN queue'[d] = 1..(Len(queue[d]) + Len(ws))
           /\ \A i \in 1..Len(queue[d]) : queue'[d][i] = queue[d][i]
           /\ \A i \in 1..Len(ws) : queue'[d][Len(queue[d]) + i] = ws[i]
           /\ Range(queue'[d]) = Range(queue[d]) \cup Range(ws)
  <1>1. PICK q \in Seq(MessageWrites) : q = queue[d]
    BY DEF FlightOK, QueuesOf
  <1>2. PICK n \in Nat, k \in Nat : n = Len(q) /\ k = Len(ws)
    OBVIOUS
  <1>3. /\ DOMAIN (q \o ws) = 1..(n + k)
        /\ \A i \in 1..(n + k) : (q \o ws)[i] = IF i <= n THEN q[i] ELSE ws[i - n]
    BY <1>2, ConcatProperties
  <1>4. ASSUME NEW i \in 1..k PROVE (q \o ws)[n + i] = ws[i]
    <2>1. n + i \in 1..(n + k) /\ ~(n + i <= n) /\ (n + i) - n = i
      BY <1>4
    <2> QED BY <2>1, <1>3
  <1>5. \A i \in 1..n : (q \o ws)[i] = q[i]
    BY <1>3
  <1>6. Range(q \o ws) = Range(q) \cup Range(ws)
    BY RangeOfConcat
  <1>7. DOMAIN q = 1..n
    BY <1>2
  <1> QED BY <1>1, <1>2, <1>3, <1>4, <1>5, <1>6, <1>7 DEF Added

\* The copy for v of what the k-th of the writes ws names is stored or ahead of it.
Ready(ws, k, v) ==
    Has(v, ws[k].data) \/ \E j \in 1..Len(ws) : j < k /\ ws[j].paths = {Copy(v, ws[k].data)}

\* The order is kept if the new writes are in order.
LEMMA BehindAdds ==
    ASSUME FlightOK, RecentsBehind, NEW d \in Devices, NEW ws \in Seq(MessageWrites), Added(d, ws),
           \A k \in 1..Len(ws), u \in Users :
              ws[k].paths = {Recent(u)} => Ready(ws, k, u) /\ Ready(ws, k, Partner[u])
    PROVE  RecentsBehind'
  <1>1. PICK n \in Nat, l \in Nat : n = Len(queue[d]) /\ l = Len(ws)
    BY AddedFacts
  <1>2. /\ DOMAIN queue[d] = 1..n /\ DOMAIN queue'[d] = 1..(n + l)
        /\ \A i \in 1..n : queue'[d][i] = queue[d][i]
        /\ \A i \in 1..l : queue'[d][n + i] = ws[i]
    BY <1>1, AddedFacts
  <1>3. docs' = docs /\ \A e \in Devices \ {d} : queue'[e] = queue[e]
    BY DEF Added
  <1>4. ASSUME NEW e \in Devices, NEW i \in DOMAIN queue[e], NEW u, NEW m, Before(e, i, u, m)
        PROVE  Before(e, i, u, m)'
    <2>1. CASE e # d
      BY <1>3, <1>4, <2>1 DEF Before, Has
    <2>2. CASE e = d
      <3>1. CASE Has(u, m)
        BY <3>1, <1>3 DEF Before, Has
      <3>2. CASE \E j \in DOMAIN queue[d] : j < i /\ queue[d][j].paths = {Copy(u, m)}
        <4>1. PICK j \in 1..n : j < i /\ queue[d][j].paths = {Copy(u, m)}
          BY <3>2, <1>2
        <4>2. j \in DOMAIN queue'[d] /\ queue'[d][j] = queue[d][j]
          BY <1>2
        <4> QED BY <4>1, <4>2, <2>2 DEF Before
      <3> QED BY <1>4, <2>2, <3>1, <3>2 DEF Before
    <2> QED BY <2>1, <2>2
  <1>5. ASSUME NEW k \in 1..l, NEW v, Ready(ws, k, v)
        PROVE  Before(d, n + k, v, ws[k].data)'
    <2>1. Has(v, ws[k].data) \/ \E j \in 1..l : j < k /\ ws[j].paths = {Copy(v, ws[k].data)}
      BY <1>1, <1>5 DEF Ready
    <2>2. CASE Has(v, ws[k].data)
      BY <2>2, <1>3 DEF Before, Has
    <2>3. CASE \E j \in 1..l : j < k /\ ws[j].paths = {Copy(v, ws[k].data)}
      <3>1. PICK j \in 1..l : j < k /\ ws[j].paths = {Copy(v, ws[k].data)}
        BY <2>3
      <3>2. n + j \in DOMAIN queue'[d] /\ n + j < n + k /\ queue'[d][n + j] = ws[j]
        BY <3>1, <1>2
      <3> QED BY <3>1, <3>2 DEF Before
    <2> QED BY <2>1, <2>2, <2>3
  <1> SUFFICES ASSUME NEW e \in Devices, NEW i \in DOMAIN queue'[e], NEW u \in Users,
                      queue'[e][i].paths = {Recent(u)}, NEW m, m = queue'[e][i].data
               PROVE  Before(e, i, u, m)' /\ Before(e, i, Partner[u], m)'
    BY DEF RecentsBehind
  <1>6. CASE e # d \/ i \in 1..n
    <2>1. i \in DOMAIN queue[e] /\ queue'[e][i] = queue[e][i]
      BY <1>2, <1>3, <1>6
    <2>2. Before(e, i, u, m) /\ Before(e, i, Partner[u], m)
      BY <2>1 DEF RecentsBehind
    <2> QED BY <2>1, <2>2, <1>4
  <1>7. CASE e = d /\ i \notin 1..n
    <2>1. i \in 1..(n + l) /\ i - n \in 1..l /\ n + (i - n) = i
      BY <1>2, <1>7
    <2>2. PICK k \in 1..l : k = i - n /\ n + k = i
      BY <2>1
    <2>3. queue'[e][i] = ws[k]
      BY <2>2, <1>2, <1>7
    <2>4. ws[k].paths = {Recent(u)} /\ m = ws[k].data
      BY <2>3
    <2>5. Before(d, n + k, u, ws[k].data)' /\ Before(d, n + k, Partner[u], ws[k].data)'
      <3>1. Ready(ws, k, u) /\ Ready(ws, k, Partner[u])
        BY <2>4, <1>1
      <3> QED BY <3>1, <1>5
    <2> QED BY <2>2, <2>4, <2>5, <1>7
  <1> QED BY <1>6, <1>7

LEMMA OwnAdds ==
    ASSUME FlightOK, OwnWrites, NEW d \in Devices, NEW ws \in Seq(MessageWrites), Added(d, ws),
           \A w \in Range(ws) : OwnWrite(d, w)
    PROVE  OwnWrites'
  <1>1. Range(queue'[d]) = Range(queue[d]) \cup Range(ws)
    BY AddedFacts
  <1>2. \A e \in Devices \ {d} : queue'[e] = queue[e]
    BY DEF Added
  <1> SUFFICES ASSUME NEW e \in Devices, NEW w \in Range(queue'[e]) PROVE OwnWrite(e, w)
    BY DEF OwnWrites, OwnWrite
  <1>3. CASE e = d
    BY <1>1, <1>3 DEF OwnWrites
  <1>4. CASE e # d
    BY <1>2, <1>4 DEF OwnWrites
  <1> QED BY <1>3, <1>4

\* The blocks that ran have sent the partner's copy, and nothing is sent to the
\* partner that the sender has not stored.
LEMMA CopiesAdd ==
    ASSUME FlightOK, NEW d \in Devices, NEW ws \in Seq(MessageWrites), Added(d, ws),
           \A e \in Devices \ {d} : SentBlocks(e)' = SentBlocks(e),
           SentBlocks(d)' \subseteq SentBlocks(d),
           \A b \in SentBlocks(d) \ SentBlocks(d)' :
              \E w \in Range(ws) : w.paths = {Copy(Other(d), b.then.m)},
           \A w \in Range(ws), m \in Ids : w.paths = {Copy(Other(d), m)} => Has(Me(d), m),
           \A w \in Range(ws), m \in Ids : w.paths = {Copy(Me(d), m)} => w.then \in SentThens
    PROVE  /\ SentStored => SentStored'
           /\ RecentIsStored => RecentIsStored'
           /\ CopiesDue => CopiesDue'
  <1>1. Range(queue'[d]) = Range(queue[d]) \cup Range(ws)
    BY AddedFacts
  <1>2. docs' = docs /\ crashes' = crashes /\ \A e \in Devices \ {d} : queue'[e] = queue[e]
    BY DEF Added
  <1>3. \A u, m : Has(u, m)' <=> Has(u, m)
    BY <1>2 DEF Has
  <1>4. ASSUME SentStored PROVE SentStored'
    <2>1. ASSUME NEW e \in Devices, NEW b \in SentBlocks(e)' PROVE Has(Me(e), b.then.m)
      BY <1>4 DEF SentStored
    <2>2. ASSUME NEW e \in Devices, NEW w \in Range(queue'[e]), NEW m \in Ids, w.paths = {Copy(Other(e), m)}
          PROVE  Has(Me(e), m)
      <3>1. CASE e = d
        BY <1>1, <1>4, <2>2, <3>1 DEF SentStored
      <3>2. CASE e # d
        BY <1>2, <1>4, <2>2, <3>2 DEF SentStored
      <3> QED BY <3>1, <3>2
    <2> QED BY <1>3, <2>1, <2>2 DEF SentStored
  <1>5. RecentIsStored => RecentIsStored'
    BY <1>2 DEF RecentIsStored, Has
  <1>6. ASSUME CopiesDue PROVE CopiesDue'
    <2> SUFFICES ASSUME crashes = 0 PROVE CopiesDue'
      BY <1>2 DEF CopiesDue
    <2>1. ASSUME NEW e \in Devices, NEW m, CopyComing(e, m) PROVE CopyComing(e, m)'
      <3>1. CASE e # d
        BY <1>2, <2>1, <3>1 DEF CopyComing
      <3>2. CASE e = d
        <4>1. CASE \E w \in Range(queue[d]) : w.paths = {Copy(Other(d), m)}
          BY <1>1, <3>2, <4>1 DEF CopyComing
        <4>2. CASE \E b \in SentBlocks(d) : b.then.m = m
          <5>1. PICK b \in SentBlocks(d) : b.then.m = m
            BY <4>2
          <5>2. CASE b \in SentBlocks(d)'
            BY <5>1, <5>2, <3>2 DEF CopyComing
          <5>3. CASE b \notin SentBlocks(d)'
            <6>1. PICK w \in Range(ws) : w.paths = {Copy(Other(d), b.then.m)}
              BY <5>3
            <6> QED BY <6>1, <5>1, <1>1, <3>2 DEF CopyComing
          <5> QED BY <5>2, <5>3
        <4> QED BY <2>1, <3>2, <4>1, <4>2 DEF CopyComing
      <3> QED BY <3>1, <3>2
    <2>2. ASSUME NEW u \in Users, NEW m \in Ids, Has(u, m)
          PROVE  Has(Partner[u], m) \/ \E e \in Devices : Me(e) = u /\ CopyComing(e, m)'
      BY <1>6, <2>1, <2>2 DEF CopiesDue
    <2>3. ASSUME NEW e \in Devices, NEW w \in Range(queue'[e]), NEW m \in Ids, w.paths = {Copy(Me(e), m)}
          PROVE  w.then \in SentThens
      <3>1. CASE e = d
        BY <1>1, <1>6, <2>3, <3>1 DEF CopiesDue
      <3>2. CASE e # d
        BY <1>2, <1>6, <2>3, <3>2 DEF CopiesDue
      <3> QED BY <3>1, <3>2
    <2> QED BY <1>2, <1>3, <2>2, <2>3 DEF CopiesDue
  <1> QED BY <1>4, <1>5, <1>6

LEMMA SetDataFacts ==
    /\ \A u \in Users, m \in Ids, x \in Data, then \in {NoThen} \cup SentThens \cup DeliveredThens :
          /\ setData(Copy(u, m), x, then) \in MessageWrites
          /\ setData(Copy(u, m), x, then).paths = {Copy(u, m)}
          /\ setData(Copy(u, m), x, then).then = then
    /\ \A u \in Users, m \in Ids :
          /\ setData(Recent(u), m, NoThen) \in MessageWrites
          /\ setData(Recent(u), m, NoThen).paths = {Recent(u)}
          /\ setData(Recent(u), m, NoThen).data = m
          /\ setData(Recent(u), m, NoThen).then = NoThen
  <1>1. ASSUME NEW u \in Users, NEW m \in Ids, NEW x \in Data,
               NEW then \in {NoThen} \cup SentThens \cup DeliveredThens
        PROVE  /\ setData(Copy(u, m), x, then) \in MessageWrites
               /\ setData(Copy(u, m), x, then).paths = {Copy(u, m)}
               /\ setData(Copy(u, m), x, then).then = then
    <2>1. setData(Copy(u, m), x, then) \in CopyWritesOf(u, m)
      BY DEF setData, Write, CopyWritesOf
    <2> QED BY <2>1 DEF setData, Write, MessageWrites, CopyWrites
  <1>2. ASSUME NEW u \in Users, NEW m \in Ids
        PROVE  /\ setData(Recent(u), m, NoThen) \in MessageWrites
               /\ setData(Recent(u), m, NoThen).paths = {Recent(u)}
               /\ setData(Recent(u), m, NoThen).data = m
               /\ setData(Recent(u), m, NoThen).then = NoThen
    <2>1. setData(Recent(u), m, NoThen) \in RecentWritesOf(u)
      BY DEF setData, Write, RecentWritesOf
    <2> QED BY <2>1 DEF setData, Write, MessageWrites, RecentWrites
  <1> QED BY <1>1, <1>2

\* The number of the input bar on screen.
LEMMA BarBound ==
    ASSUME ListsInv, NEW d \in Devices
    PROVE  bar[d] \in Bars
  <1>1. PICK n \in Nat : n = Asked(d)
    BY AskedIsNat DEF ListsInv
  <1>2. bar[d] \in Nat /\ bar[d] + n <= chats /\ chats \in 0..MaxChats /\ MaxChats \in Nat
    BY <1>1, MessagesAssumption DEF ListsInv, StateOK, BarsCounted
  <1> QED BY <1>1, <1>2 DEF Bars

LEMMA UploadMessageOK ==
    ASSUME MessagesIndInv, NEW d \in Devices, uploadMessage(d), Touched
    PROVE  MessagesIndInv'
  <1>1. ListsInv /\ FlightOK /\ StateOK /\ OwnWrites
    BY DEF MessagesIndInv, ListsInv
  <1>2. PICK m, x, then, w : /\ m = sent + 1 /\ x = Message(Me(d), draft[d])
                             /\ then = SentCopy(m, draft[d], bar[d])
                             /\ w = setData(Copy(Me(d), m), x, then)
    OBVIOUS
  <1>3. /\ sent < MaxMessages /\ sent' = m /\ Issue(d, <<w>>, <<>>)
        /\ conv' = conv /\ chat' = chat /\ list' = list /\ heard' = heard /\ bar' = bar /\ draft' = draft /\ hud' = hud
        /\ typed' = typed /\ chats' = chats /\ crashes' = crashes
    BY <1>2 DEF uploadMessage
  <1>4. m \in Ids /\ sent' \in 0..MaxMessages
    BY <1>1, <1>2, <1>3, MessagesAssumption DEF StateOK, Ids
  <1>5. then \in SentThens /\ then.m = m
    <2>1. draft[d] \in Texts /\ bar[d] \in Bars
      BY <1>1, BarBound DEF StateOK
    <2> QED BY <1>2, <1>4, <2>1 DEF SentThens, SentCopy
  <1>6. x \in Data
    BY <1>1, <1>2, PartnerFacts DEF StateOK, Message, Data
  <1>7. w \in MessageWrites /\ w.paths = {Copy(Me(d), m)} /\ w.then = then
    BY <1>2, <1>4, <1>5, <1>6, PartnerFacts, SetDataFacts
  <1>8. <<w>> \in Seq(MessageWrites) /\ Range(<<w>>) = {w} /\ Len(<<w>>) = 1 /\ <<w>>[1] = w
    BY <1>7, RangeOfOne
  <1>9. docs' = docs /\ mainq' = mainq /\ gets' = gets /\ queue' = [queue EXCEPT ![d] = queue[d] \o <<w>>]
    <2>1. gets' = [gets EXCEPT ![d] = gets[d] \o <<>>]
      BY <1>3 DEF Issue
    <2>2. gets \in QueuesOf(UserReads)
      BY <1>1 DEF FlightOK
    <2>3. gets' = gets
      BY <2>1, <2>2, NothingQueued
    <2> QED BY <2>3, <1>3 DEF Issue
  <1>10. /\ queue' \in QueuesOf(MessageWrites)
         /\ queue'[d] = queue[d] \o <<w>> /\ \A e \in Devices \ {d} : queue'[e] = queue[e]
    <2>1. queue[d] \in Seq(MessageWrites) /\ queue \in [Devices -> Seq(MessageWrites)]
      BY <1>1 DEF FlightOK, QueuesOf
    <2>2. queue[d] \o <<w>> \in Seq(MessageWrites)
      BY <2>1, <1>8, ConcatProperties
    <2> QED BY <2>1, <2>2, <1>9 DEF QueuesOf
  <1>11. FlightOK'
    BY <1>1, <1>9, <1>10 DEF FlightOK
  <1>12. Added(d, <<w>>)
    BY <1>3, <1>9, <1>10 DEF Added
  <1>13. StateOK' /\ NoMessageTwice' /\ BarsCounted'
    <2>1. StateOK'
      BY <1>1, <1>3, <1>4, <1>9 DEF StateOK, Touched
    <2>2. NoMessageTwice' /\ BarsCounted'
      BY <1>1, <1>3, <1>9 DEF ListsInv, NoMessageTwice, BarsCounted, Asked
    <2> QED BY <2>1, <2>2
  <1>14. \A u \in Users, n \in Ids : w.paths = {Copy(u, n)} => u = Me(d) /\ n = m
    BY <1>4, <1>7, PathFacts, PartnerFacts
  <1>15. \A u \in Users : w.paths # {Recent(u)}
    BY <1>4, <1>7, PathFacts, PartnerFacts
  <1>16. OwnWrites'
    <2>1. OwnWrite(d, w)
      BY <1>5, <1>7, <1>14, <1>15 DEF OwnWrite
    <2> QED BY <2>1, <1>1, <1>8, <1>12, OwnAdds
  <1>17. \A e \in Devices : SentBlocks(e)' = SentBlocks(e)
    BY <1>9 DEF SentBlocks
  <1>18. ASSUME ~Failures PROVE AcceptedInv'
    <2>1. AcceptedInv
      BY <1>18 DEF MessagesIndInv
    <2>2. /\ SentStored => SentStored'
          /\ RecentIsStored => RecentIsStored'
          /\ CopiesDue => CopiesDue'
      <3>1. \A y \in Range(<<w>>), n \in Ids : y.paths = {Copy(Other(d), n)} => Has(Me(d), n)
        BY <1>8, <1>14, PartnerFacts
      <3>2. \A y \in Range(<<w>>), n \in Ids : y.paths = {Copy(Me(d), n)} => y.then \in SentThens
        BY <1>8, <1>5, <1>7
      <3>3. SentBlocks(d)' \subseteq SentBlocks(d) /\ SentBlocks(d) \ SentBlocks(d)' = {}
        BY <1>17
      <3> QED BY <1>1, <1>8, <1>12, <1>17, <3>1, <3>2, <3>3, CopiesAdd
    <2>3. RecentsBehind'
      <3>1. \A k \in 1..Len(<<w>>), u \in Users :
              <<w>>[k].paths = {Recent(u)} => Ready(<<w>>, k, u) /\ Ready(<<w>>, k, Partner[u])
        <4>1. \A k \in 1..Len(<<w>>) : <<w>>[k] = w
          BY <1>8
        <4> QED BY <4>1, <1>15
      <3> QED BY <3>1, <2>1, <1>1, <1>8, <1>12, BehindAdds DEF AcceptedInv
    <2>4. Waiting'
      <3> SUFFICES ASSUME ~hasty', crashes' = 0 PROVE OneAtATime'
        BY DEF Waiting
      <3>1. ~hasty /\ crashes = 0 /\ Quiescent
        BY <1>1, <1>3 DEF StateOK, Touched, Settled, Quiescent
      <3>2. Agree /\ \A e \in Devices : NothingOnItsWay(e)
        BY <2>1, <3>1, QuietAgree DEF AcceptedInv, Waiting
      <3>3. queue[d] = <<>> /\ gets[d] = <<>> /\ mainq[d] = <<>>
        BY <3>1 DEF Quiescent, Quiet
      <3>4. queue'[d] = <<w>>
        <4>1. <<>> \o <<w>> = <<w>>
          BY <1>8, ConcatEmptySeq
        <4> QED BY <4>1, <3>3, <1>10
      <3>5. Agree'
        BY <3>2, <1>9 DEF Agree
      <3>6. Storing(d)'
        BY <3>3, <3>4, <3>5, <1>4, <1>7, <1>9 DEF Storing
      <3>7. \A e \in Devices \ {d} : NothingOnItsWay(e)'
        BY <3>2, <1>10, <1>17 DEF NothingOnItsWay
      <3> QED BY <3>6, <3>7 DEF OneAtATime, Sending
    <2> QED BY <2>1, <2>2, <2>3, <2>4 DEF AcceptedInv
  <1>19. HeardInv'
    <2>1. m = sent + 1 /\ sent \in Nat /\ sent' = sent + 1
      BY <1>1, <1>2, <1>3, MessagesAssumption DEF StateOK
    <2>2. Range(queue'[d]) = Range(queue[d]) \cup {w}
      <3>1. Range(queue'[d]) = Range(queue[d]) \cup Range(<<w>>)
        BY <1>1, <1>8, <1>12, AddedFacts
      <3> QED BY <3>1, <1>8
    <2>3. ASSUME NEW u \in Users, NEW n \in Ids, NEW e \in Devices, Brings(e, u, n)', ~Brings(e, u, n)
          PROVE  e = d /\ n = m
      <3>1. e = d
        BY <2>3, <1>10, <1>17 DEF Brings
      <3>2. w.paths = {Copy(u, n)} \/ w.then.m = n
        BY <2>2, <2>3, <3>1, <1>17 DEF Brings
      <3> QED BY <3>1, <3>2, <1>5, <1>7, <1>14
    <2>4. \A n \in Ids : n \in Nat
      BY DEF Ids
    <2>5. \A u \in Users, n \in Ids :
              /\ n <= sent => n <= sent'
              /\ docs[Copy(u, n)] # NoDoc => docs'[Copy(u, n)] # NoDoc
              /\ (\A e \in Devices : ~Brings(e, u, n)) => docs'[Copy(u, n)] = docs[Copy(u, n)]
              /\ \A e \in Devices :
                    Brings(e, u, n)' => Brings(e, u, n) \/ (e = d /\ ~(n <= sent) /\ n <= sent')
      BY <2>1, <2>3, <2>4, <1>9
    <2>6. HeardInv /\ \A e \in Devices : list'[e] = list[e] /\ heard'[e] = heard[e]
      BY <1>1, <1>3 DEF ListsInv
    <2> QED BY <2>5, <2>6, HeardKept
  <1> QED BY <1>11, <1>13, <1>16, <1>18, <1>19 DEF MessagesIndInv, ListsInv

-----------------------------------------------------------------------------
(* The completion of the first write sends the other three.                *)

\* The three writes, in the order in which they depend on each other.
InOrder(d, m, ws) ==
    /\ ws \in Seq(MessageWrites) /\ Len(ws) = 3
    /\ ws = <<ws[1], setData(Recent(Me(d)), m, NoThen), setData(Recent(Other(d)), m, NoThen)>>
    /\ Range(ws) = {ws[1], ws[2], ws[3]}
    /\ ws[1] \in MessageWrites /\ ws[1].paths = {Copy(Other(d), m)} /\ ws[1].then \notin SentThens
    /\ ws[2].paths = {Recent(Me(d))} /\ ws[2].data = m /\ ws[2].then \notin SentThens
    /\ ws[3].paths = {Recent(Other(d))} /\ ws[3].data = m /\ ws[3].then \notin SentThens

LEMMA OtherCopiesFacts ==
    ASSUME NEW d \in Devices, NEW m \in Ids, NEW t \in Texts, NEW b \in Bars,
           NEW ws, ws = otherCopies(d, m, t, b)
    PROVE  InOrder(d, m, ws)
  <1>1. PICK x, then, w, y, z :
            /\ x = Message(Me(d), t) /\ then = Delivered(m, b) /\ w = setData(Copy(Other(d), m), x, then)
            /\ y = setData(Recent(Me(d)), m, NoThen) /\ z = setData(Recent(Other(d)), m, NoThen)
    OBVIOUS
  <1>2. x \in Data /\ then \in DeliveredThens
    BY <1>1, PartnerFacts DEF Message, Data, DeliveredThens
  <1>3. then \notin SentThens /\ NoThen \notin SentThens
    BY <1>2, ThenFacts
  <1>4. w \in MessageWrites /\ w.paths = {Copy(Other(d), m)} /\ w.then = then
    BY <1>1, <1>2, PartnerFacts, SetDataFacts
  <1>5. /\ y \in MessageWrites /\ y.paths = {Recent(Me(d))} /\ y.data = m /\ y.then = NoThen
        /\ z \in MessageWrites /\ z.paths = {Recent(Other(d))} /\ z.data = m /\ z.then = NoThen
    BY <1>1, PartnerFacts, SetDataFacts
  <1>6. ws = <<w, y, z>>
    BY <1>1 DEF otherCopies
  <1>7. ws \in Seq(MessageWrites) /\ Len(ws) = 3 /\ ws[1] = w /\ ws[2] = y /\ ws[3] = z
    BY <1>4, <1>5, <1>6
  <1>8. Range(<<w, y, z>>) = {w, y, z}
    BY DEF Range
  <1> QED BY <1>1, <1>3, <1>4, <1>5, <1>6, <1>7, <1>8 DEF InOrder

LEMMA SentCopyOK ==
    ASSUME MessagesIndInv, NEW d \in Devices, sentCopy(d), hasty' = hasty
    PROVE  MessagesIndInv'
  <1>1. ListsInv /\ FlightOK /\ StateOK /\ OwnWrites
    BY DEF MessagesIndInv, ListsInv
  <1>2. PICK h, m, t, b, ws : /\ h = Head(mainq[d]) /\ m = h.then.m /\ t = h.then.t /\ b = h.then.bar
                              /\ ws = otherCopies(d, m, t, b)
    OBVIOUS
  <1>3. mainq[d] # <<>> /\ h.then.kind = "sentCopy" /\ Take(d, ws, <<>>)
    BY <1>2 DEF sentCopy, Due, Block
  <1>4. AppKept
    BY DEF sentCopy, appVars, AppKept
  <1>5. mainq[d] \in Seq(MessageBlocks) /\ mainq \in [Devices -> Seq(MessageBlocks)]
    BY <1>1 DEF FlightOK, QueuesOf
  <1>6. /\ h \in MessageBlocks /\ Tail(mainq[d]) \in Seq(MessageBlocks)
        /\ Range(mainq[d]) = {h} \cup Range(Tail(mainq[d]))
    BY <1>2, <1>3, <1>5, RangeOfTail
  <1>7. m \in Ids /\ t \in Texts /\ b \in Bars
    <2>1. h.then \in SentThens
      BY <1>3, <1>6, BlockFacts
    <2> QED BY <2>1, <1>2, ThenFacts
  <1>8. /\ ws \in Seq(MessageWrites) /\ Len(ws) = 3
        /\ ws = <<ws[1], setData(Recent(Me(d)), m, NoThen), setData(Recent(Other(d)), m, NoThen)>>
        /\ Range(ws) = {ws[1], ws[2], ws[3]}
        /\ ws[1] \in MessageWrites /\ ws[1].paths = {Copy(Other(d), m)} /\ ws[1].then \notin SentThens
        /\ ws[2].paths = {Recent(Me(d))} /\ ws[2].data = m /\ ws[2].then \notin SentThens
        /\ ws[3].paths = {Recent(Other(d))} /\ ws[3].data = m /\ ws[3].then \notin SentThens
    <2>1. InOrder(d, m, ws)
      BY <1>2, <1>7, OtherCopiesFacts
    <2> QED BY <2>1 DEF InOrder
  <1>9. /\ docs' = docs /\ gets' = gets
        /\ queue' = [queue EXCEPT ![d] = queue[d] \o ws]
        /\ mainq' = [mainq EXCEPT ![d] = Tail(mainq[d])]
    <2>1. gets' = [gets EXCEPT ![d] = gets[d] \o <<>>]
      BY <1>3 DEF Take
    <2>2. gets \in QueuesOf(UserReads)
      BY <1>1 DEF FlightOK
    <2>3. gets' = gets
      BY <2>1, <2>2, NothingQueued
    <2> QED BY <2>3, <1>3 DEF Take
  <1>10. /\ queue' \in QueuesOf(MessageWrites)
         /\ queue'[d] = queue[d] \o ws /\ \A e \in Devices \ {d} : queue'[e] = queue[e]
    <2>1. queue[d] \in Seq(MessageWrites) /\ queue \in [Devices -> Seq(MessageWrites)]
      BY <1>1 DEF FlightOK, QueuesOf
    <2>2. queue[d] \o ws \in Seq(MessageWrites)
      BY <2>1, <1>8, ConcatProperties
    <2> QED BY <2>1, <2>2, <1>9 DEF QueuesOf
  <1>11. /\ mainq' \in QueuesOf(MessageBlocks) /\ mainq'[d] = Tail(mainq[d])
         /\ \A e \in Devices \ {d} : mainq'[e] = mainq[e]
    BY <1>5, <1>6, <1>9 DEF QueuesOf
  <1>12. FlightOK'
    BY <1>1, <1>9, <1>10, <1>11 DEF FlightOK
  <1>13. Added(d, ws)
    BY <1>4, <1>9, <1>10 DEF Added, AppKept
  <1>14. ASSUME NEW e \in Devices PROVE Asked(e)' = Asked(e)
    <2>1. Cardinality(FetchedIn(mainq[d])) = Cardinality(FetchedIn(Tail(mainq[d]))) + 0
      BY <1>2, <1>3, <1>5, CountOfTail
    <2>2. Cardinality(FetchedIn(Tail(mainq[d]))) \in Nat
      BY <1>6, CountIsNat
    <2>3. Cardinality(FetchedIn(mainq'[e])) = Cardinality(FetchedIn(mainq[e]))
      BY <2>1, <2>2, <1>11
    <2> QED BY <2>3, <1>9 DEF Asked
  <1>15. StateOK' /\ NoMessageTwice' /\ BarsCounted'
    BY <1>1, <1>4, <1>9, <1>14 DEF ListsInv, StateOK, NoMessageTwice, BarsCounted, AppKept
  <1>16. /\ \A u \in Users, n \in Ids : ws[1].paths = {Copy(u, n)} => u = Other(d) /\ n = m
         /\ \A u \in Users, n \in Ids : ws[2].paths # {Copy(u, n)} /\ ws[3].paths # {Copy(u, n)}
         /\ \A u \in Users : ws[1].paths # {Recent(u)}
         /\ \A u \in Users : ws[2].paths = {Recent(u)} => u = Me(d)
         /\ \A u \in Users : ws[3].paths = {Recent(u)} => u = Other(d)
    <2>1. /\ ws[1].paths = {Copy(Other(d), m)} /\ ws[2].paths = {Recent(Me(d))} /\ ws[3].paths = {Recent(Other(d))}
          /\ Me(d) \in Users /\ Other(d) \in Users
      BY <1>8, PartnerFacts
    <2>2. /\ \A u \in Users, n \in Ids : ws[1].paths = {Copy(u, n)} => u = Other(d) /\ n = m
          /\ \A u \in Users : ws[1].paths # {Recent(u)}
      BY <2>1, <1>7, SinglePaths
    <2>3. /\ \A u \in Users, n \in Ids : ws[2].paths # {Copy(u, n)}
          /\ \A u \in Users : ws[2].paths = {Recent(u)} => u = Me(d)
      BY <2>1, <1>7, SinglePaths
    <2>4. /\ \A u \in Users, n \in Ids : ws[3].paths # {Copy(u, n)}
          /\ \A u \in Users : ws[3].paths = {Recent(u)} => u = Other(d)
      BY <2>1, <1>7, SinglePaths
    <2> QED BY <2>2, <2>3, <2>4
  <1>17. OwnWrites'
    <2>1. OwnWrite(d, ws[1]) /\ OwnWrite(d, ws[2]) /\ OwnWrite(d, ws[3])
      BY <1>8, <1>16 DEF OwnWrite
    <2>2. \A w \in Range(ws) : OwnWrite(d, w)
      BY <2>1, <1>8
    <2> QED BY <2>2, <1>1, <1>8, <1>13, OwnAdds
  <1>18. /\ \A e \in Devices \ {d} : SentBlocks(e)' = SentBlocks(e)
         /\ SentBlocks(d)' \subseteq SentBlocks(d)
         /\ h \in SentBlocks(d) /\ SentBlocks(d) \subseteq {h} \cup SentBlocks(d)'
    BY <1>3, <1>6, <1>11 DEF SentBlocks
  <1>19. ASSUME ~Failures PROVE AcceptedInv'
    <2>1. AcceptedInv
      BY <1>19 DEF MessagesIndInv
    <2>2. Has(Me(d), m)
      BY <2>1, <1>2, <1>18 DEF AcceptedInv, SentStored
    <2>3. /\ SentStored => SentStored'
          /\ RecentIsStored => RecentIsStored'
          /\ CopiesDue => CopiesDue'
      <3>1. \A w \in Range(ws), n \in Ids : w.paths = {Copy(Other(d), n)} => Has(Me(d), n)
        BY <2>2, <1>8, <1>16, PartnerFacts
      <3>2. \A w \in Range(ws), n \in Ids : w.paths = {Copy(Me(d), n)} => w.then \in SentThens
        <4>1. \A w \in Range(ws) : w = ws[1] \/ w = ws[2] \/ w = ws[3]
          BY <1>8
        <4>2. Me(d) \in Users /\ Me(d) # Other(d)
          BY PartnerFacts
        <4> QED BY <4>1, <4>2, <1>16
      <3>3. \A c \in SentBlocks(d) \ SentBlocks(d)' :
               \E w \in Range(ws) : w.paths = {Copy(Other(d), c.then.m)}
        <4>1. \A c \in SentBlocks(d) \ SentBlocks(d)' : c.then.m = m
          BY <1>2, <1>18
        <4>2. ws[1] \in Range(ws)
          BY <1>8
        <4> QED BY <4>1, <4>2, <1>8
      <3> QED BY <1>1, <1>8, <1>13, <1>18, <3>1, <3>2, <3>3, CopiesAdd
    <2>4. RecentsBehind'
      <3>1. ASSUME NEW k \in 1..Len(ws), NEW u \in Users, ws[k].paths = {Recent(u)}
            PROVE  Ready(ws, k, u) /\ Ready(ws, k, Partner[u])
        <4>1. k \in {1, 2, 3}
          BY <1>8
        <4>2. k # 1 /\ ws[k].data = m /\ u \in {Me(d), Other(d)}
          BY <4>1, <3>1, <1>8, <1>16
        <4>3. Ready(ws, k, Me(d))
          BY <4>2, <2>2 DEF Ready
        <4>4. Ready(ws, k, Other(d))
          <5>1. 1 \in 1..Len(ws) /\ 1 < k
            BY <4>1, <4>2, <1>8
          <5> QED BY <5>1, <4>2, <1>8 DEF Ready
        <4> QED BY <4>2, <4>3, <4>4, PartnerFacts
      <3> QED BY <3>1, <2>1, <1>1, <1>8, <1>13, BehindAdds DEF AcceptedInv
    <2>5. Waiting'
      <3> SUFFICES ASSUME ~hasty, crashes = 0 PROVE OneAtATime'
        BY <1>4 DEF Waiting, AppKept
      <3>1. ~NothingOnItsWay(d)
        BY <1>18 DEF NothingOnItsWay
      <3>2. Sending(d) /\ \A e \in Devices \ {d} : NothingOnItsWay(e)
        BY <2>1, <3>1 DEF AcceptedInv, Waiting, OneAtATime
      <3>3. ~Storing(d)
        BY <1>3 DEF Storing
      <3>4. ~Copying(d) /\ ~Naming(d) /\ ~Closing(d)
        BY <1>18 DEF Copying, Naming, Closing
      <3>5. Telling(d)
        BY <3>2, <3>3, <3>4 DEF Sending
      <3>6. queue[d] = <<>> /\ Agree
        BY <3>5 DEF Telling
      <3>7. queue'[d] = ws
        BY <3>6, <1>8, <1>10, ConcatEmptySeq
      <3>8. SentBlocks(d)' = {}
        <4>1. PICK c : mainq[d] = <<c>>
          BY <3>5 DEF Telling
        <4>2. mainq'[d] = <<>>
          BY <4>1, <1>11
        <4> QED BY <4>2, RangeOfEmpty DEF SentBlocks
      <3>9. Agree'
        BY <3>6, <1>9 DEF Agree
      <3>10. Copying(d)'
        BY <3>7, <3>8, <3>9, <1>7, <1>8 DEF Copying
      <3>11. \A e \in Devices \ {d} : NothingOnItsWay(e)'
        BY <3>2, <1>10, <1>18 DEF NothingOnItsWay
      <3> QED BY <3>10, <3>11 DEF OneAtATime, Sending
    <2> QED BY <2>1, <2>3, <2>4, <2>5 DEF AcceptedInv
  <1>20. HeardInv'
    <2>1. Range(queue'[d]) = Range(queue[d]) \cup {ws[1], ws[2], ws[3]}
      <3>1. Range(queue'[d]) = Range(queue[d]) \cup Range(ws)
        BY <1>1, <1>8, <1>13, AddedFacts
      <3> QED BY <3>1, <1>8
    <2>2. h \in SentBlocks(d) /\ h.then.m = m /\ SentBlocks(d)' \subseteq SentBlocks(d)
      BY <1>2, <1>18
    <2>3. ASSUME NEW u \in Users, NEW n \in Ids, NEW e \in Devices, Brings(e, u, n)' PROVE Brings(e, u, n)
      <3>1. CASE e # d
        BY <2>3, <3>1, <1>10, <1>18 DEF Brings
      <3>2. CASE e = d
        <4>1. \/ \E w \in Range(queue'[d]) : w.paths = {Copy(u, n)}
              \/ u = Other(d) /\ \E b1 \in SentBlocks(d)' : b1.then.m = n
              \/ u = Other(d) /\ \E w \in Range(queue'[d]) : w.then \in SentThens /\ w.then.m = n
          BY <2>3, <3>2 DEF Brings, Other
        <4>2. CASE \E w \in Range(queue'[d]) : w.paths = {Copy(u, n)}
          <5>1. PICK w \in Range(queue'[d]) : w.paths = {Copy(u, n)}
            BY <4>2
          <5>2. CASE w \in Range(queue[d])
            BY <5>1, <5>2, <3>2 DEF Brings
          <5>3. CASE w \notin Range(queue[d])
            <6>1. u = Other(d) /\ n = m
              BY <5>1, <5>3, <2>1, <1>16
            <6> QED BY <6>1, <2>2, <3>2 DEF Brings
          <5> QED BY <5>2, <5>3
        <4>3. CASE u = Other(d) /\ \E b1 \in SentBlocks(d)' : b1.then.m = n
          BY <4>3, <2>2, <3>2 DEF Brings
        <4>4. CASE u = Other(d) /\ \E w \in Range(queue'[d]) : w.then \in SentThens /\ w.then.m = n
          <5>1. PICK w \in Range(queue'[d]) : w.then \in SentThens /\ w.then.m = n
            BY <4>4
          <5>2. w \in Range(queue[d])
            BY <5>1, <2>1, <1>8
          <5> QED BY <5>1, <5>2, <4>4, <3>2 DEF Brings
        <4> QED BY <4>1, <4>2, <4>3, <4>4
      <3> QED BY <3>1, <3>2
    <2>4. HeardInv /\ sent' = sent /\ \A e \in Devices : list'[e] = list[e] /\ heard'[e] = heard[e]
      BY <1>1, <1>4 DEF ListsInv, AppKept
    <2> QED BY <2>3, <2>4, <1>9, HeardKept
  <1> QED BY <1>12, <1>15, <1>17, <1>19, <1>20 DEF MessagesIndInv, ListsInv

-----------------------------------------------------------------------------
(* A write is answered.                                                    *)

Told(d, done, w) ==
    /\ w \in MessageWrites /\ queue[d] # <<>> /\ w = Head(queue[d])
    /\ queue' \in QueuesOf(MessageWrites) /\ mainq' \in QueuesOf(MessageBlocks)
    /\ queue'[d] = Tail(queue[d]) /\ gets' = gets
    /\ \A e \in Devices \ {d} : queue'[e] = queue[e] /\ mainq'[e] = mainq[e]
    /\ mainq'[d] = IF w.then = NoThen THEN mainq[d]
                   ELSE Append(mainq[d], [then |-> w.then, res |-> done])
    /\ \E path \in Paths :
          w.paths = {path} /\ docs' = IF done THEN [docs EXCEPT ![path] = w.data] ELSE docs

LEMMA AnswerTells ==
    ASSUME FlightOK, NEW d \in Devices, NEW done \in BOOLEAN, Answer(d, done)
    PROVE  Told(d, done, Head(queue[d]))
  <1>1. PICK w : w = Head(queue[d])
    OBVIOUS
  <1>2. queue[d] \in Seq(MessageWrites) /\ mainq[d] \in Seq(MessageBlocks) /\ queue[d] # <<>>
    BY DEF FlightOK, QueuesOf, Answer
  <1>3. w \in MessageWrites /\ Tail(queue[d]) \in Seq(MessageWrites)
    BY <1>1, <1>2, RangeOfTail
  <1>4. PICK path \in w.paths :
            /\ docs' = IF done /\ Accepts(w, path) THEN [docs EXCEPT ![path] = w.data] ELSE docs
            /\ queue' = [queue EXCEPT ![d] =
                 IF w.paths = {path} THEN Tail(queue[d])
                 ELSE <<[w EXCEPT !.paths = @ \ {path}]>> \o Tail(queue[d])]
            /\ mainq' = IF w.then = NoThen THEN mainq
                        ELSE [mainq EXCEPT ![d] = Append(mainq[d], [then |-> w.then, res |-> done /\ Accepts(w, path)])]
    BY <1>1 DEF Answer
  <1>5. w.paths = {path} /\ path \in Paths
    <2>1. w.paths = {path}
      BY <1>3, <1>4, WriteFacts DEF OneDocument
    <2>2. \E p \in Paths : w.paths = {p}
      BY <1>3, WriteFacts, PathFacts
    <2> QED BY <2>1, <2>2
  <1>6. Accepts(w, path)
    BY <1>3, WriteFacts DEF Accepts
  <1>7. PICK b : b = [then |-> w.then, res |-> done]
    OBVIOUS
  <1>8. /\ docs' = IF done THEN [docs EXCEPT ![path] = w.data] ELSE docs
        /\ queue' = [queue EXCEPT ![d] = Tail(queue[d])]
        /\ mainq' = IF w.then = NoThen THEN mainq ELSE [mainq EXCEPT ![d] = Append(mainq[d], b)]
    BY <1>4, <1>5, <1>6, <1>7
  <1>9. /\ queue' \in QueuesOf(MessageWrites) /\ queue'[d] = Tail(queue[d])
        /\ \A e \in Devices \ {d} : queue'[e] = queue[e]
    BY <1>3, <1>8 DEF FlightOK, QueuesOf
  <1>10. w.then # NoThen => b \in MessageBlocks
    BY <1>3, <1>7, WriteFacts DEF Tells
  <1>11. /\ mainq' \in QueuesOf(MessageBlocks)
         /\ mainq'[d] = IF w.then = NoThen THEN mainq[d] ELSE Append(mainq[d], b)
         /\ \A e \in Devices \ {d} : mainq'[e] = mainq[e]
    <2>1. CASE w.then = NoThen
      BY <1>8, <2>1 DEF FlightOK
    <2>2. CASE w.then # NoThen
      <3>1. Append(mainq[d], b) \in Seq(MessageBlocks)
        BY <1>2, <1>10, <2>2
      <3> QED BY <1>8, <2>2, <3>1 DEF FlightOK, QueuesOf
    <2> QED BY <2>1, <2>2
  <1>12. gets' = gets
    BY DEF Answer
  <1>13. Told(d, done, w)
    BY <1>1, <1>2, <1>3, <1>5, <1>7, <1>8, <1>9, <1>11, <1>12 DEF Told
  <1> QED BY <1>1, <1>13

\* The blocks in flight afterwards.
LEMMA ToldQueues ==
    ASSUME FlightOK, NEW d \in Devices, NEW done \in BOOLEAN, NEW w, Told(d, done, w)
    PROVE  /\ Range(queue[d]) = {w} \cup Range(queue'[d])
           /\ \A e \in Devices : Range(queue'[e]) \subseteq Range(queue[e])
           /\ \A e \in Devices \ {d} : SentBlocks(e)' = SentBlocks(e)
           /\ SentBlocks(d)' = SentBlocks(d) \cup
                 (IF w.then \in SentThens THEN {[then |-> w.then, res |-> done]} ELSE {})
           /\ \A e \in Devices : Asked(e)' = Asked(e)
  <1>1. queue[d] \in Seq(MessageWrites) /\ mainq[d] \in Seq(MessageBlocks)
    BY DEF FlightOK, QueuesOf
  <1>2. /\ w \in MessageWrites /\ queue[d] # <<>> /\ w = Head(queue[d])
        /\ queue'[d] = Tail(queue[d]) /\ gets' = gets
        /\ \A e \in Devices \ {d} : queue'[e] = queue[e] /\ mainq'[e] = mainq[e]
    BY DEF Told
  <1>3. PICK b : b = [then |-> w.then, res |-> done]
    OBVIOUS
  <1>4. mainq'[d] = IF w.then = NoThen THEN mainq[d] ELSE Append(mainq[d], b)
    BY <1>3 DEF Told
  <1>5. Range(queue[d]) = {w} \cup Range(queue'[d])
    BY <1>1, <1>2, RangeOfTail
  <1>6. \A e \in Devices : Range(queue'[e]) \subseteq Range(queue[e])
    BY <1>2, <1>5
  <1>7. \A e \in Devices \ {d} : SentBlocks(e)' = SentBlocks(e)
    BY <1>2 DEF SentBlocks
  <1>8. /\ w.then \in {NoThen} \cup SentThens \cup DeliveredThens
        /\ w.then # NoThen => b \in MessageBlocks
    BY <1>2, <1>3, WriteFacts DEF Tells
  <1>9. b.then = w.then
    BY <1>3
  <1>10. /\ SentBlocks(d)' = SentBlocks(d) \cup (IF w.then \in SentThens THEN {b} ELSE {})
         /\ Cardinality(FetchedIn(mainq'[d])) = Cardinality(FetchedIn(mainq[d]))
    <2>1. CASE w.then = NoThen
      BY <1>4, <2>1, ThenFacts DEF SentBlocks
    <2>2. CASE w.then # NoThen
      <3>1. mainq'[d] = Append(mainq[d], b) /\ b \in MessageBlocks
        BY <1>4, <1>8, <2>2
      <3>2. Range(mainq'[d]) = Range(mainq[d]) \cup {b}
        BY <1>1, <3>1, RangeOfAppend
      <3>3. (b.then.kind = "sentCopy" <=> w.then \in SentThens) /\ b.then.kind # "fetchedUser"
        BY <1>8, <1>9, <2>2, ThenFacts
      <3>4. Cardinality(FetchedIn(mainq'[d])) = Cardinality(FetchedIn(mainq[d])) + 0
        BY <1>1, <3>1, <3>3, CountOfAppend
      <3>5. Cardinality(FetchedIn(mainq[d])) \in Nat
        BY <1>1, CountIsNat
      <3>6. SentBlocks(d)' = SentBlocks(d) \cup (IF w.then \in SentThens THEN {b} ELSE {})
        BY <3>2, <3>3 DEF SentBlocks
      <3> QED BY <3>4, <3>5, <3>6
    <2> QED BY <2>1, <2>2
  <1>11. \A e \in Devices : Asked(e)' = Asked(e)
    BY <1>2, <1>10 DEF Asked
  <1> QED BY <1>3, <1>5, <1>6, <1>7, <1>10, <1>11

\* The document afterwards.
LEMMA ToldDocs ==
    ASSUME StateOK, NEW d \in Devices, NEW done \in BOOLEAN, NEW w, Told(d, done, w)
    PROVE  /\ docs' \in [Paths -> Contents]
           /\ \A u \in Users : docs'[Recent(u)] =
                 IF done /\ w.paths = {Recent(u)} THEN w.data ELSE docs[Recent(u)]
           /\ \A u \in Users, m \in Ids : docs'[Copy(u, m)] =
                 IF done /\ w.paths = {Copy(u, m)} THEN w.data ELSE docs[Copy(u, m)]
  <1>1. PICK path \in Paths :
            w.paths = {path} /\ docs' = IF done THEN [docs EXCEPT ![path] = w.data] ELSE docs
    BY DEF Told
  <1>2. w.data \in Contents
    <2>1. w \in MessageWrites
      BY DEF Told
    <2> QED BY <2>1, CopyWriteFacts, RecentWriteFacts DEF Contents, MessageWrites
  <1>3. docs \in [Paths -> Contents]
    BY DEF StateOK
  <1>4. docs' \in [Paths -> Contents]
    BY <1>1, <1>2, <1>3
  <1>5. ASSUME NEW x \in Paths
        PROVE  docs'[x] = IF done /\ w.paths = {x} THEN w.data ELSE docs[x]
    BY <1>1, <1>3
  <1> QED BY <1>4, <1>5, PathFacts

LEMMA ToldLists ==
    ASSUME ListsInv, NEW d \in Devices, NEW done \in BOOLEAN, NEW w, Told(d, done, w), AppKept
    PROVE  ListsInv'
  <1>1. FlightOK /\ StateOK /\ OwnWrites /\ w \in MessageWrites
    BY DEF ListsInv, Told
  <1>2. FlightOK'
    BY <1>1 DEF FlightOK, Told
  <1>3. /\ docs' \in [Paths -> Contents]
        /\ \A u \in Users : docs'[Recent(u)] =
              IF done /\ w.paths = {Recent(u)} THEN w.data ELSE docs[Recent(u)]
        /\ \A u \in Users, m \in Ids : docs'[Copy(u, m)] =
              IF done /\ w.paths = {Copy(u, m)} THEN w.data ELSE docs[Copy(u, m)]
    BY <1>1, ToldDocs
  <1>4. \A u \in Users : docs'[Recent(u)] \in Ids \cup {NoDoc}
    BY <1>1, <1>3, WriteFacts DEF StateOK
  <1>5. \A u \in Users, m \in Ids : docs'[Copy(u, m)] \in Data \cup {NoDoc}
    <2> SUFFICES ASSUME NEW u \in Users, NEW m \in Ids PROVE docs'[Copy(u, m)] \in Data \cup {NoDoc}
      OBVIOUS
    <2>1. docs[Copy(u, m)] \in Data \cup {NoDoc}
      BY <1>1 DEF StateOK
    <2>2. w.paths = {Copy(u, m)} => w.data \in Data
      BY <1>1, WriteFacts
    <2> QED BY <2>1, <2>2, <1>3
  <1>6. StateOK'
    BY <1>1, <1>3, <1>4, <1>5 DEF StateOK, AppKept
  <1>7. \A e \in Devices : Range(queue'[e]) \subseteq Range(queue[e]) /\ Asked(e)' = Asked(e)
    BY <1>1, ToldQueues
  <1>8. OwnWrites'
    BY <1>1, <1>7 DEF OwnWrites, OwnWrite
  <1>9. BarsCounted' /\ NoMessageTwice'
    BY <1>7 DEF ListsInv, BarsCounted, NoMessageTwice, AppKept
  <1>10. HeardInv'
    <2>1. /\ Range(queue[d]) = {w} \cup Range(queue'[d])
          /\ \A e \in Devices \ {d} : SentBlocks(e)' = SentBlocks(e)
          /\ SentBlocks(d)' = SentBlocks(d) \cup
                (IF w.then \in SentThens THEN {[then |-> w.then, res |-> done]} ELSE {})
      BY <1>1, ToldQueues
    <2>2. ASSUME NEW u \in Users, NEW m \in Ids, NEW e \in Devices, Brings(e, u, m)' PROVE Brings(e, u, m)
      <3>1. CASE \E x \in Range(queue'[e]) : x.paths = {Copy(u, m)}
        BY <3>1, <1>7 DEF Brings
      <3>2. CASE u = Other(e) /\ \E x \in Range(queue'[e]) : x.then \in SentThens /\ x.then.m = m
        BY <3>2, <1>7 DEF Brings
      <3>3. CASE u = Other(e) /\ \E b \in SentBlocks(e)' : b.then.m = m
        <4>1. PICK b \in SentBlocks(e)' : b.then.m = m
          BY <3>3
        <4>2. CASE b \in SentBlocks(e)
          BY <3>3, <4>1, <4>2 DEF Brings
        <4>3. CASE b \notin SentBlocks(e)
          <5>1. e = d /\ w.then \in SentThens /\ b.then = w.then
            BY <4>1, <4>3, <2>1
          <5>2. w \in Range(queue[e]) /\ w.then.m = m
            BY <5>1, <4>1, <2>1
          <5> QED BY <3>3, <5>1, <5>2 DEF Brings
        <4> QED BY <4>2, <4>3
      <3>4. \/ \E x \in Range(queue'[e]) : x.paths = {Copy(u, m)}
            \/ u = Other(e) /\ \E b \in SentBlocks(e)' : b.then.m = m
            \/ u = Other(e) /\ \E x \in Range(queue'[e]) : x.then \in SentThens /\ x.then.m = m
        BY <2>2 DEF Brings, Other
      <3> QED BY <3>1, <3>2, <3>3, <3>4
    <2>3. w.data # NoDoc
      BY <1>1, WriteFacts
    <2>4. ASSUME NEW u \in Users, NEW m \in Ids
          PROVE  /\ docs[Copy(u, m)] # NoDoc => docs'[Copy(u, m)] # NoDoc
                 /\ (\A e \in Devices : ~Brings(e, u, m)) => docs'[Copy(u, m)] = docs[Copy(u, m)]
      <3>1. w.paths = {Copy(u, m)} => Brings(d, u, m)
        BY <2>1 DEF Brings
      <3> QED BY <3>1, <2>3, <1>3
    <2>5. HeardInv /\ sent' = sent /\ \A e \in Devices : list'[e] = list[e] /\ heard'[e] = heard[e]
      BY DEF ListsInv, AppKept
    <2> QED BY <2>2, <2>4, <2>5, HeardKept
  <1> QED BY <1>2, <1>6, <1>8, <1>9, <1>10 DEF ListsInv

\* What is stored grows.
LEMMA ToldHas ==
    ASSUME StateOK, NEW d \in Devices, NEW w, Told(d, TRUE, w)
    PROVE  \A u \in Users, m \in Ids : Has(u, m)' <=> Has(u, m) \/ w.paths = {Copy(u, m)}
  <1>1. w.data # NoDoc
    BY WriteFacts DEF Told
  <1>2. \A u \in Users, m \in Ids : docs'[Copy(u, m)] =
           IF TRUE /\ w.paths = {Copy(u, m)} THEN w.data ELSE docs[Copy(u, m)]
    <2>1. TRUE \in BOOLEAN
      OBVIOUS
    <2> QED BY <2>1, ToldDocs
  <1> QED BY <1>1, <1>2 DEF Has

\* The queue of d, of n writes, without its head w.
Shorter(d, w, n) ==
    /\ DOMAIN queue[d] = 1..n /\ n > 0 /\ DOMAIN queue'[d] = 1..(n - 1)
    /\ queue[d][1] = w
    /\ \A i \in 1..(n - 1) : queue'[d][i] = queue[d][i + 1]

LEMMA ToldIndices ==
    ASSUME FlightOK, NEW d \in Devices, NEW done \in BOOLEAN, NEW w, Told(d, done, w)
    PROVE  \E n \in Nat : Shorter(d, w, n)
  <1>1. PICK q \in Seq(MessageWrites) : q = queue[d]
    BY DEF FlightOK, QueuesOf
  <1>2. q # <<>> /\ w = Head(q) /\ queue'[d] = Tail(q)
    BY <1>1 DEF Told
  <1>3. PICK n \in Nat : n = Len(q)
    OBVIOUS
  <1>4. Len(q) > 0
    BY <1>2, EmptySeq
  <1>5. /\ DOMAIN q = 1..n /\ n > 0 /\ DOMAIN Tail(q) = 1..(n - 1) /\ q[1] = Head(q)
        /\ \A i \in 1..(n - 1) : Tail(q)[i] = q[i + 1]
    BY <1>3, <1>4, HeadTailProperties
  <1> QED BY <1>1, <1>2, <1>5 DEF Shorter

LEMMA ToldStored ==
    ASSUME ListsInv, SentStored, RecentIsStored, NEW d \in Devices, NEW w, Told(d, TRUE, w), RecentsBehind
    PROVE  SentStored' /\ RecentIsStored' /\ RecentsBehind'
  <1>1. FlightOK /\ StateOK /\ OwnWrites /\ w \in MessageWrites
    BY DEF ListsInv, Told
  <1>2. \A u \in Users, m \in Ids : Has(u, m)' <=> Has(u, m) \/ w.paths = {Copy(u, m)}
    BY <1>1, ToldHas
  <1>3. /\ Range(queue[d]) = {w} \cup Range(queue'[d])
        /\ \A e \in Devices : Range(queue'[e]) \subseteq Range(queue[e])
        /\ \A e \in Devices \ {d} : SentBlocks(e)' = SentBlocks(e)
        /\ SentBlocks(d)' = SentBlocks(d) \cup
              (IF w.then \in SentThens THEN {[then |-> w.then, res |-> TRUE]} ELSE {})
    BY <1>1, ToldQueues
  <1>4. OwnWrite(d, w)
    BY <1>1, <1>3 DEF OwnWrites
  <1>5. SentStored'
    <2>1. ASSUME NEW e \in Devices, NEW b \in SentBlocks(e)' PROVE Has(Me(e), b.then.m)'
      <3>1. CASE b \in SentBlocks(e)
        <4>1. b \in MessageBlocks /\ b.then.kind = "sentCopy"
          BY <1>1, <3>1, InQueue DEF FlightOK, SentBlocks
        <4>2. b.then.m \in Ids /\ Me(e) \in Users
          BY <4>1, BlockFacts, ThenFacts, PartnerFacts
        <4>3. Has(Me(e), b.then.m)
          BY <3>1 DEF SentStored
        <4> QED BY <4>2, <4>3, <1>2
      <3>2. CASE b \notin SentBlocks(e)
        <4>1. e = d /\ w.then \in SentThens /\ b.then = w.then
          BY <1>3, <3>2
        <4>2. w.paths = {Copy(Me(d), w.then.m)} /\ w.then.m \in Ids /\ Me(d) \in Users
          BY <4>1, <1>4, ThenFacts, PartnerFacts DEF OwnWrite
        <4> QED BY <4>1, <4>2, <1>2
      <3> QED BY <3>1, <3>2
    <2>2. ASSUME NEW e \in Devices, NEW y \in Range(queue'[e]), NEW m \in Ids, y.paths = {Copy(Other(e), m)}
          PROVE  Has(Me(e), m)'
      <3>1. Has(Me(e), m)
        BY <1>3, <2>2 DEF SentStored
      <3> QED BY <3>1, <1>2, PartnerFacts
    <2> QED BY <2>1, <2>2 DEF SentStored
  <1>6. PICK n \in Nat : Shorter(d, w, n)
    BY <1>1, ToldIndices
  <1>7. RecentIsStored'
    <2> SUFFICES ASSUME NEW u \in Users, NEW m, m = docs'[Recent(u)], m # NoDoc
                 PROVE  Has(u, m)' /\ Has(Partner[u], m)'
      BY DEF RecentIsStored, Has
    <2>1. docs'[Recent(u)] = IF w.paths = {Recent(u)} THEN w.data ELSE docs[Recent(u)]
      BY <1>1, ToldDocs
    <2>2. m \in Ids /\ Partner[u] \in Users
      BY <1>1, <2>1, WriteFacts, PartnerFacts DEF StateOK
    <2>3. Has(u, m) /\ Has(Partner[u], m)
      <3>1. CASE w.paths = {Recent(u)}
        <4>1. 1 \in DOMAIN queue[d] /\ m = queue[d][1].data /\ queue[d][1].paths = {Recent(u)}
          BY <2>1, <3>1, <1>6 DEF Shorter
        <4>2. Before(d, 1, u, m) /\ Before(d, 1, Partner[u], m)
          BY <4>1 DEF RecentsBehind
        <4>3. \A j \in DOMAIN queue[d] : ~(j < 1)
          BY <1>6 DEF Shorter
        <4> QED BY <4>2, <4>3 DEF Before
      <3>2. CASE w.paths # {Recent(u)}
        BY <2>1, <3>2 DEF RecentIsStored
      <3> QED BY <3>1, <3>2
    <2> QED BY <2>2, <2>3, <1>2
  <1>8. RecentsBehind'
    <2>1. ASSUME NEW e \in Devices \ {d}, NEW i, NEW u \in Users, NEW m \in Ids, Before(e, i, u, m)
          PROVE  Before(e, i, u, m)'
      <3>1. queue'[e] = queue[e]
        BY DEF Told
      <3> QED BY <2>1, <3>1, <1>2 DEF Before
    <2>2. ASSUME NEW i \in 1..(n - 1), NEW u \in Users, NEW m \in Ids, Before(d, i + 1, u, m)
          PROVE  Before(d, i, u, m)'
      <3>1. CASE Has(u, m)
        BY <3>1, <1>2 DEF Before
      <3>2. CASE ~Has(u, m)
        <4>1. PICK j \in 1..n : j < i + 1 /\ queue[d][j].paths = {Copy(u, m)}
          BY <2>2, <3>2, <1>6 DEF Before, Shorter
        <4>2. CASE j = 1
          BY <4>1, <4>2, <1>2, <1>6 DEF Before, Shorter
        <4>3. CASE j # 1
          <5>1. PICK k \in 1..(n - 1) : k + 1 = j /\ k < i
            BY <4>1, <4>3
          <5>2. k \in DOMAIN queue'[d] /\ queue'[d][k] = queue[d][j]
            BY <5>1, <1>6 DEF Shorter
          <5> QED BY <5>1, <5>2, <4>1 DEF Before
        <4> QED BY <4>2, <4>3
      <3> QED BY <3>1, <3>2
    <2> SUFFICES ASSUME NEW e \in Devices, NEW i \in DOMAIN queue'[e], NEW u \in Users,
                        queue'[e][i].paths = {Recent(u)}, NEW m, m = queue'[e][i].data
                 PROVE  Before(e, i, u, m)' /\ Before(e, i, Partner[u], m)'
      BY DEF RecentsBehind
    <2>3. m \in Ids /\ Partner[u] \in Users
      <3>1. queue'[e][i] \in Range(queue'[e])
        BY DEF Range
      <3>2. queue'[e][i] \in Range(queue[e])
        BY <3>1, <1>3
      <3>3. queue'[e][i] \in MessageWrites
        BY <3>2, <1>1, InQueue DEF FlightOK
      <3> QED BY <3>3, WriteFacts, PartnerFacts
    <2>4. CASE e # d
      <3>1. queue'[e] = queue[e]
        BY <2>4 DEF Told
      <3>2. Before(e, i, u, m) /\ Before(e, i, Partner[u], m)
        BY <3>1 DEF RecentsBehind
      <3> QED BY <3>2, <2>1, <2>3, <2>4
    <2>5. CASE e = d
      <3>1. i \in 1..(n - 1) /\ i + 1 \in DOMAIN queue[d] /\ queue'[d][i] = queue[d][i + 1]
        BY <2>5, <1>6 DEF Shorter
      <3>2. Before(d, i + 1, u, m) /\ Before(d, i + 1, Partner[u], m)
        BY <3>1, <2>5 DEF RecentsBehind
      <3> QED BY <3>1, <3>2, <2>2, <2>3, <2>5
    <2> QED BY <2>4, <2>5
  <1> QED BY <1>5, <1>7, <1>8

LEMMA ToldDue ==
    ASSUME ListsInv, SentStored, CopiesDue, NEW d \in Devices, NEW w, Told(d, TRUE, w), crashes' = crashes
    PROVE  CopiesDue'
  <1> SUFFICES ASSUME crashes = 0 PROVE CopiesDue'
    BY DEF CopiesDue
  <1>1. FlightOK /\ StateOK /\ OwnWrites /\ w \in MessageWrites
    BY DEF ListsInv, Told
  <1>2. \A u \in Users, m \in Ids : Has(u, m)' <=> Has(u, m) \/ w.paths = {Copy(u, m)}
    BY <1>1, ToldHas
  <1>3. /\ Range(queue[d]) = {w} \cup Range(queue'[d])
        /\ \A e \in Devices : Range(queue'[e]) \subseteq Range(queue[e])
        /\ \A e \in Devices \ {d} : SentBlocks(e)' = SentBlocks(e)
        /\ SentBlocks(d)' = SentBlocks(d) \cup
              (IF w.then \in SentThens THEN {[then |-> w.then, res |-> TRUE]} ELSE {})
    BY <1>1, ToldQueues
  <1>4. OwnWrite(d, w) /\ w \in Range(queue[d])
    BY <1>1, <1>3 DEF OwnWrites
  <1>5. ASSUME NEW e \in Devices, NEW m \in Ids, CopyComing(e, m)
        PROVE  CopyComing(e, m)' \/ Has(Other(e), m)'
    <2>1. CASE e # d
      <3>1. queue'[e] = queue[e] /\ SentBlocks(e)' = SentBlocks(e)
        BY <1>3, <2>1 DEF Told
      <3> QED BY <1>5, <3>1 DEF CopyComing
    <2>2. CASE e = d
      <3>1. CASE \E b \in SentBlocks(d) : b.then.m = m
        BY <1>3, <2>2, <3>1 DEF CopyComing
      <3>2. CASE \E y \in Range(queue[d]) : y.paths = {Copy(Other(d), m)}
        <4>1. PICK y \in Range(queue[d]) : y.paths = {Copy(Other(d), m)}
          BY <3>2
        <4>2. CASE y = w
          BY <4>1, <4>2, <2>2, <1>2, PartnerFacts
        <4>3. CASE y # w
          BY <4>1, <4>3, <2>2, <1>3 DEF CopyComing
        <4> QED BY <4>2, <4>3
      <3> QED BY <1>5, <2>2, <3>1, <3>2 DEF CopyComing
    <2> QED BY <2>1, <2>2
  <1>6. ASSUME NEW u \in Users, NEW m \in Ids, Has(u, m)'
        PROVE  Has(Partner[u], m)' \/ \E e \in Devices : Me(e) = u /\ CopyComing(e, m)'
    <2>1. Partner[u] \in Users
      BY PartnerFacts
    <2>2. CASE Has(u, m)
      <3>1. CASE Has(Partner[u], m)
        BY <2>1, <3>1, <1>2
      <3>2. CASE ~Has(Partner[u], m)
        <4>1. PICK e \in Devices : Me(e) = u /\ CopyComing(e, m)
          BY <2>2, <3>2 DEF CopiesDue
        <4>2. Other(e) = Partner[u]
          BY <4>1, PartnerFacts
        <4> QED BY <4>1, <4>2, <1>5
      <3> QED BY <3>1, <3>2
    <2>3. CASE w.paths = {Copy(u, m)}
      <3>1. u = Me(d) \/ u = Other(d)
        BY <2>3, <1>4 DEF OwnWrite
      <3>2. CASE u = Me(d)
        <4>1. w.then \in SentThens
          BY <2>3, <3>2, <1>4 DEF CopiesDue
        <4>2. w.then.m = m
          <5>1. w.paths = {Copy(Me(d), w.then.m)} /\ w.then.m \in Ids
            BY <4>1, <1>4, ThenFacts DEF OwnWrite
          <5> QED BY <5>1, <2>3, <3>2, SinglePaths
        <4>3. PICK b : b = [then |-> w.then, res |-> TRUE]
          OBVIOUS
        <4>4. b \in SentBlocks(d)' /\ b.then.m = m
          BY <4>1, <4>2, <4>3, <1>3
        <4>5. CopyComing(d, m)'
          BY <4>4 DEF CopyComing
        <4> QED BY <4>5, <3>2
      <3>3. CASE u = Other(d)
        <4>1. Has(Me(d), m) /\ Partner[u] = Me(d)
          BY <2>3, <3>3, <1>4, PartnerFacts DEF SentStored
        <4> QED BY <4>1, <2>1, <1>2
      <3> QED BY <3>1, <3>2, <3>3
    <2> QED BY <1>2, <1>6, <2>2, <2>3
  <1>7. ASSUME NEW e \in Devices, NEW y \in Range(queue'[e]), NEW m \in Ids, y.paths = {Copy(Me(e), m)}
        PROVE  y.then \in SentThens
    BY <1>3, <1>7 DEF CopiesDue
  <1> QED BY <1>6, <1>7 DEF CopiesDue

\* Recent messages of the accounts that are not concerned.
LEMMA ToldAgree ==
    ASSUME StateOK, NEW d \in Devices, NEW w, Told(d, TRUE, w)
    PROVE  /\ (\A u \in Users : w.paths # {Recent(u)}) /\ Agree => Agree'
           /\ \A v \in Users : w.paths = {Recent(v)} =>
                /\ docs'[Recent(v)] = w.data
                /\ \A u \in Users \ {v} : docs'[Recent(u)] = docs[Recent(u)]
  <1>1. \A u \in Users : docs'[Recent(u)] =
           IF TRUE /\ w.paths = {Recent(u)} THEN w.data ELSE docs[Recent(u)]
    <2>1. TRUE \in BOOLEAN
      OBVIOUS
    <2> QED BY <2>1, ToldDocs
  <1>2. (\A u \in Users : w.paths # {Recent(u)}) /\ Agree => Agree'
    BY <1>1, PartnerFacts DEF Agree
  <1>3. ASSUME NEW v \in Users, w.paths = {Recent(v)}
        PROVE  /\ docs'[Recent(v)] = w.data
               /\ \A u \in Users \ {v} : docs'[Recent(u)] = docs[Recent(u)]
    BY <1>1, <1>3, SinglePaths
  <1> QED BY <1>2, <1>3

LEMMA ToldWaits ==
    ASSUME ListsInv, CopiesDue, Waiting, NEW d \in Devices, NEW w, Told(d, TRUE, w), AppKept
    PROVE  Waiting'
  <1> SUFFICES ASSUME ~hasty, crashes = 0 PROVE OneAtATime'
    BY DEF Waiting, AppKept
  <1>1. FlightOK /\ StateOK /\ OwnWrites /\ w \in MessageWrites
    BY DEF ListsInv, Told
  <1>2. /\ queue[d] # <<>> /\ w = Head(queue[d]) /\ queue'[d] = Tail(queue[d]) /\ gets' = gets
        /\ \A e \in Devices \ {d} : queue'[e] = queue[e]
        /\ mainq'[d] = IF w.then = NoThen THEN mainq[d]
                       ELSE Append(mainq[d], [then |-> w.then, res |-> TRUE])
    BY DEF Told
  <1>3. /\ Range(queue[d]) = {w} \cup Range(queue'[d])
        /\ \A e \in Devices \ {d} : SentBlocks(e)' = SentBlocks(e)
        /\ SentBlocks(d)' = SentBlocks(d) \cup
              (IF w.then \in SentThens THEN {[then |-> w.then, res |-> TRUE]} ELSE {})
    BY <1>1, ToldQueues
  <1>4. OwnWrite(d, w) /\ w \in Range(queue[d])
    BY <1>1, <1>3 DEF OwnWrites
  <1>5. Sending(d) /\ \A e \in Devices \ {d} : NothingOnItsWay(e)
    BY <1>2 DEF Waiting, OneAtATime, NothingOnItsWay
  <1>6. \A e \in Devices \ {d} : NothingOnItsWay(e)'
    BY <1>2, <1>3, <1>5 DEF NothingOnItsWay
  <1>7. Me(d) \in Users /\ Other(d) \in Users /\ Me(d) # Other(d)
    BY PartnerFacts
  <1>8. CASE Storing(d)
    <2>1. PICK y \in MessageWrites, m \in Ids : queue[d] = <<y>> /\ y.paths = {Copy(Me(d), m)}
      BY <1>8 DEF Storing
    <2>2. y = w /\ queue'[d] = <<>>
      BY <2>1, <1>2
    <2>3. w.then \in SentThens /\ w.then # NoThen /\ w.then.kind = "sentCopy"
      <3>1. w.then \in SentThens
        BY <2>1, <2>2, <1>4 DEF CopiesDue
      <3> QED BY <3>1, ThenFacts
    <2>4. PICK b : b = [then |-> w.then, res |-> TRUE]
      OBVIOUS
    <2>5. mainq'[d] = Append(<<>>, b)
      BY <2>3, <2>4, <1>2, <1>8 DEF Storing
    <2>6. Append(<<>>, b) = <<b>>
      OBVIOUS
    <2>7. b \in MessageBlocks /\ b.then.kind = "sentCopy"
      <3>1. b.then = w.then
        BY <2>4
      <3>2. b \in WriteBlocks
        BY <2>3, <2>4 DEF WriteBlocks
      <3> QED BY <3>1, <3>2, <2>3 DEF MessageBlocks
    <2>8. Agree'
      <3>1. \A u \in Users : w.paths # {Recent(u)}
        BY <2>1, <2>2, <1>7, SinglePaths
      <3>2. Agree
        BY <1>8 DEF Storing
      <3> QED BY <3>1, <3>2, <1>1, ToldAgree
    <2>9. gets'[d] = <<>>
      BY <1>2, <1>8 DEF Storing
    <2>10. Telling(d)'
      BY <2>2, <2>5, <2>6, <2>7, <2>8, <2>9 DEF Telling
    <2> QED BY <2>10, <1>6 DEF OneAtATime, Sending
  <1>9. CASE Telling(d)
    BY <1>2, <1>9 DEF Telling
  <1>10. CASE Copying(d)
    <2>1. PICK y \in MessageWrites, m \in Ids :
            /\ queue[d] = <<y, setData(Recent(Me(d)), m, NoThen), setData(Recent(Other(d)), m, NoThen)>>
            /\ y.paths = {Copy(Other(d), m)}
      BY <1>10 DEF Copying
    <2>2. /\ y = w
          /\ queue'[d] = <<setData(Recent(Me(d)), m, NoThen), setData(Recent(Other(d)), m, NoThen)>>
      BY <2>1, <1>2
    <2>3. w.then \notin SentThens
      <3>1. w.then \in SentThens => w.paths = {Copy(Me(d), w.then.m)} /\ w.then.m \in Ids
        BY <1>4, ThenFacts DEF OwnWrite
      <3> QED BY <3>1, <2>1, <2>2, <1>7, SinglePaths
    <2>4. SentBlocks(d)' = {}
      BY <2>3, <1>3, <1>10 DEF Copying
    <2>5. Agree'
      <3>1. \A u \in Users : w.paths # {Recent(u)}
        BY <2>1, <2>2, <1>7, SinglePaths
      <3>2. Agree
        BY <1>10 DEF Copying
      <3> QED BY <3>1, <3>2, <1>1, ToldAgree
    <2>6. Naming(d)'
      BY <2>2, <2>4, <2>5 DEF Naming
    <2> QED BY <2>6, <1>6 DEF OneAtATime, Sending
  <1>11. CASE Naming(d)
    <2>1. PICK m \in Ids :
            queue[d] = <<setData(Recent(Me(d)), m, NoThen), setData(Recent(Other(d)), m, NoThen)>>
      BY <1>11 DEF Naming
    <2>2. w = setData(Recent(Me(d)), m, NoThen) /\ queue'[d] = <<setData(Recent(Other(d)), m, NoThen)>>
      BY <2>1, <1>2
    <2>3. w.paths = {Recent(Me(d))} /\ w.data = m /\ w.then \notin SentThens
      BY <2>2, <1>7, SetDataFacts, ThenFacts
    <2>4. SentBlocks(d)' = {}
      BY <2>3, <1>3, <1>11 DEF Naming
    <2>5. docs'[Recent(Me(d))] = m /\ \A u \in Users \ {Me(d)} : docs'[Recent(u)] = docs[Recent(u)]
      BY <2>3, <1>1, <1>7, ToldAgree
    <2>6. \A u \in Users \ {Me(d), Other(d)} : docs'[Recent(u)] = docs'[Recent(Partner[u])]
      <3>1. Agree
        BY <1>11 DEF Naming
      <3>2. \A u \in Users \ {Me(d), Other(d)} : Partner[u] \in Users \ {Me(d)}
        BY PartnerFacts
      <3> QED BY <3>1, <3>2, <2>5 DEF Agree
    <2>7. Closing(d)'
      BY <2>2, <2>4, <2>5, <2>6 DEF Closing
    <2> QED BY <2>7, <1>6 DEF OneAtATime, Sending
  <1>12. CASE Closing(d)
    <2>1. PICK m \in Ids : queue[d] = <<setData(Recent(Other(d)), m, NoThen)>> /\ docs[Recent(Me(d))] = m
      BY <1>12 DEF Closing
    <2>2. w = setData(Recent(Other(d)), m, NoThen) /\ queue'[d] = <<>>
      BY <2>1, <1>2
    <2>3. w.paths = {Recent(Other(d))} /\ w.data = m /\ w.then \notin SentThens
      BY <2>2, <1>7, SetDataFacts, ThenFacts
    <2>4. SentBlocks(d)' = {}
      BY <2>3, <1>3, <1>12 DEF Closing
    <2>5. docs'[Recent(Other(d))] = m /\ \A u \in Users \ {Other(d)} : docs'[Recent(u)] = docs[Recent(u)]
      BY <2>3, <1>1, <1>7, ToldAgree
    <2>6. \A u \in Users \ {Me(d), Other(d)} : docs'[Recent(u)] = docs'[Recent(Partner[u])]
      <3>1. \A u \in Users \ {Me(d), Other(d)} : docs[Recent(u)] = docs[Recent(Partner[u])]
        BY <1>12 DEF Closing
      <3>2. \A u \in Users \ {Me(d), Other(d)} : Partner[u] \in Users \ {Other(d)}
        BY PartnerFacts
      <3> QED BY <3>1, <3>2, <2>5
    <2>7. docs'[Recent(Me(d))] = m
      BY <2>1, <2>5, <1>7
    <2>8. Agree'
      <3>1. Partner[Me(d)] = Other(d) /\ Partner[Other(d)] = Me(d)
        BY PartnerFacts
      <3>2. ASSUME NEW u \in Users PROVE docs'[Recent(u)] = docs'[Recent(Partner[u])]
        BY <3>1, <2>5, <2>6, <2>7
      <3> QED BY <3>2 DEF Agree
    <2>9. \A e \in Devices : NothingOnItsWay(e)'
      BY <2>2, <2>4, <1>6 DEF NothingOnItsWay
    <2> QED BY <2>8, <2>9 DEF OneAtATime
  <1> QED BY <1>5, <1>8, <1>9, <1>10, <1>11, <1>12 DEF Sending

LEMMA AnswerOK ==
    ASSUME MessagesIndInv, NEW d \in Devices, NEW done \in BOOLEAN, Answer(d, done), ~Failures => done, AppKept
    PROVE  MessagesIndInv'
  <1>1. PICK w : w = Head(queue[d])
    OBVIOUS
  <1>2. ListsInv /\ FlightOK
    BY DEF MessagesIndInv, ListsInv
  <1>3. Told(d, done, w)
    BY <1>1, <1>2, AnswerTells
  <1>4. ListsInv'
    BY <1>2, <1>3, ToldLists
  <1>5. ASSUME ~Failures PROVE AcceptedInv'
    <2>1. AcceptedInv
      BY <1>5 DEF MessagesIndInv
    <2>2. Told(d, TRUE, w)
      <3>1. done = TRUE
        BY <1>5
      <3> QED BY <3>1, <1>3
    <2>3. SentStored' /\ RecentIsStored' /\ RecentsBehind'
      BY <2>1, <2>2, <1>2, ToldStored DEF AcceptedInv
    <2>4. CopiesDue'
      BY <2>1, <2>2, <1>2, ToldDue DEF AcceptedInv, AppKept
    <2>5. Waiting'
      BY <2>1, <2>2, <1>2, ToldWaits DEF AcceptedInv
    <2> QED BY <2>3, <2>4, <2>5 DEF AcceptedInv
  <1> QED BY <1>4, <1>5 DEF MessagesIndInv

-----------------------------------------------------------------------------
(* The app is killed: the queued writes stay.                              *)

LEMMA KilledQueue ==
    ASSUME FlightOK, NEW d \in Devices, Killed(d)
    PROVE  /\ FlightOK' /\ docs' = docs /\ mainq'[d] = <<>> /\ gets'[d] = <<>>
           /\ \A e \in Devices \ {d} : queue'[e] = queue[e] /\ gets'[e] = gets[e] /\ mainq'[e] = mainq[e]
           /\ DOMAIN queue'[d] = DOMAIN queue[d]
           /\ \A i \in DOMAIN queue[d] : /\ queue'[d][i].paths = queue[d][i].paths
                                         /\ queue'[d][i].data = queue[d][i].data
                                         /\ queue'[d][i].then = NoThen
  <1>1. Restart(d, <<>>) /\ <<>> \in Seq(UserReads)
    BY DEF Killed
  <1>2. /\ queue \in QueuesOf(MessageWrites) /\ gets \in QueuesOf(UserReads)
        /\ mainq \in QueuesOf(MessageBlocks)
        /\ \A w \in MessageWrites : [w EXCEPT !.then = NoThen] \in MessageWrites
    BY WriteFacts DEF FlightOK
  <1>3. /\ queue' \in QueuesOf(MessageWrites) /\ gets' \in QueuesOf(UserReads)
        /\ mainq' \in QueuesOf(MessageBlocks) /\ Restarted(d, <<>>)
    BY <1>1, <1>2, RestartOne
  <1>4. queue[d] \in Seq(MessageWrites) /\ queue \in [Devices -> Seq(MessageWrites)]
    BY <1>2 DEF QueuesOf
  <1>5. queue'[d] = [i \in DOMAIN queue[d] |-> [queue[d][i] EXCEPT !.then = NoThen]]
    BY <1>1, <1>4 DEF Restart
  <1>6. ASSUME NEW i \in DOMAIN queue[d]
        PROVE  /\ queue'[d][i].paths = queue[d][i].paths
               /\ queue'[d][i].data = queue[d][i].data
               /\ queue'[d][i].then = NoThen
    <2>1. PICK w \in MessageWrites : w = queue[d][i]
      BY <1>4
    <2>2. queue'[d][i] = [w EXCEPT !.then = NoThen]
      BY <2>1, <1>5
    <2> QED BY <2>1, <2>2, WriteFacts
  <1>7. DOMAIN queue'[d] = DOMAIN queue[d]
    BY <1>5
  <1> QED BY <1>3, <1>6, <1>7 DEF FlightOK, Restarted

LEMMA KilledWrites ==
    ASSUME FlightOK, NEW d \in Devices, Killed(d), NEW y \in Range(queue'[d])
    PROVE  y.then = NoThen /\ \E w \in Range(queue[d]) : y.paths = w.paths
  <1>1. PICK i \in DOMAIN queue'[d] : y = queue'[d][i]
    BY DEF Range
  <1>2. i \in DOMAIN queue[d] /\ y.paths = queue[d][i].paths /\ y.then = NoThen
    BY <1>1, KilledQueue
  <1>3. queue[d][i] \in Range(queue[d])
    BY <1>2 DEF Range
  <1> QED BY <1>2, <1>3

LEMMA KilledLists ==
    ASSUME ListsInv, NEW d \in Devices, Killed(d), crashes' \in 0..MaxCrashes, hasty' = hasty
    PROVE  ListsInv'
  <1>1. FlightOK /\ StateOK /\ OwnWrites /\ BarsCounted /\ NoMessageTwice
    BY DEF ListsInv
  <1>2. /\ FlightOK' /\ docs' = docs /\ mainq'[d] = <<>> /\ gets'[d] = <<>>
        /\ \A e \in Devices \ {d} : queue'[e] = queue[e] /\ gets'[e] = gets[e] /\ mainq'[e] = mainq[e]
    BY <1>1, KilledQueue
  <1>3. /\ conv' = [conv EXCEPT ![d] = NoMessage] /\ chat' = [chat EXCEPT ![d] = "none"]
        /\ list' = [list EXCEPT ![d] = <<>>] /\ heard' = [heard EXCEPT ![d] = {}]
        /\ bar' = [bar EXCEPT ![d] = 0]
        /\ draft' = [draft EXCEPT ![d] = 0] /\ hud' = [hud EXCEPT ![d] = Hidden]
        /\ sent' = sent /\ typed' = typed /\ chats' = chats
    BY DEF Killed
  <1>4. StateOK'
    <2>1. conv' \in [Devices -> Ids \cup {NoMessage}] /\ chat' \in [Devices -> {"none", "loading", "loaded"}]
      BY <1>1, <1>3 DEF StateOK
    <2>2. list' \in [Devices -> Seq(Ids)] /\ heard' \in [Devices -> SUBSET Ids] /\ bar' \in [Devices -> Nat]
      BY <1>1, <1>3 DEF StateOK
    <2>3. draft' \in [Devices -> Texts]
      <3>1. 0 \in Texts
        BY MessagesAssumption DEF Texts
      <3> QED BY <3>1, <1>1, <1>3 DEF StateOK
    <2>4. hud' \in [Devices -> Huds({"conversations"})]
      <3>1. hud \in [Devices -> Huds({"conversations"})]
        BY <1>1 DEF StateOK
      <3> QED BY <3>1, <1>3, HudFacts
    <2> QED BY <1>1, <1>2, <1>3, <2>1, <2>2, <2>3, <2>4 DEF StateOK
  <1>5. OwnWrites'
    <2> SUFFICES ASSUME NEW e \in Devices, NEW y \in Range(queue'[e]) PROVE OwnWrite(e, y)
      BY DEF OwnWrites, OwnWrite
    <2>1. CASE e # d
      BY <1>1, <1>2, <2>1 DEF OwnWrites
    <2>2. CASE e = d
      <3>1. y.then = NoThen /\ \E w \in Range(queue[d]) : y.paths = w.paths
        BY <1>1, <2>2, KilledWrites
      <3>2. PICK w \in Range(queue[d]) : y.paths = w.paths
        BY <3>1
      <3>3. y.then \notin SentThens
        BY <3>1, ThenFacts
      <3>4. OwnWrite(d, w)
        BY <1>1 DEF OwnWrites
      <3> QED BY <3>2, <3>3, <3>4, <2>2 DEF OwnWrite
    <2> QED BY <2>1, <2>2
  <1>6. BarsCounted'
    <2> SUFFICES ASSUME NEW e \in Devices PROVE bar'[e] + Asked(e)' <= chats'
      BY DEF BarsCounted
    <2>1. CASE e # d
      <3>1. Asked(e)' = Asked(e) /\ bar'[e] = bar[e]
        BY <1>1, <1>2, <1>3, <2>1 DEF Asked, StateOK
      <3> QED BY <3>1, <1>1, <1>3 DEF BarsCounted
    <2>2. CASE e = d
      <3>1. Asked(d)' = 0
        <4>1. Len(<<>>) = 0
          OBVIOUS
        <4>2. Asked(d)' = 0 + 0
          BY <4>1, <1>2, CountOfEmpty DEF Asked
        <4> QED BY <4>2
      <3>2. bar'[d] = 0 /\ chats' \in Nat
        BY <1>1, <1>3, MessagesAssumption DEF StateOK
      <3> QED BY <2>2, <3>1, <3>2
    <2> QED BY <2>1, <2>2
  <1>7. NoMessageTwice'
    <2>1. ASSUME NEW e \in Devices PROVE list'[e] = list[e] \/ list'[e] = <<>>
      BY <1>1, <1>3 DEF StateOK
    <2>2. IsInjective(<<>>)
      BY DEF IsInjective
    <2> QED BY <1>1, <2>1, <2>2 DEF NoMessageTwice
  <1>8. HeardInv'
    <2>1. ASSUME NEW u \in Users, NEW m \in Ids, NEW e \in Devices, Brings(e, u, m)' PROVE Brings(e, u, m)
      <3>1. CASE e # d
        BY <2>1, <3>1, <1>2 DEF Brings, SentBlocks
      <3>2. CASE e = d
        <4>1. SentBlocks(d)' = {}
          BY <1>2, RangeOfEmpty DEF SentBlocks
        <4>2. \A y \in Range(queue'[d]) : y.then \notin SentThens /\ \E w \in Range(queue[d]) : y.paths = w.paths
          BY <1>1, KilledWrites, ThenFacts
        <4>3. PICK y \in Range(queue'[d]) : y.paths = {Copy(u, m)}
          BY <2>1, <3>2, <4>1, <4>2 DEF Brings
        <4> QED BY <4>2, <4>3, <3>2 DEF Brings
      <3> QED BY <3>1, <3>2
    <2>2. /\ HeardInv /\ sent' = sent
          /\ \A e \in Devices : \/ list'[e] = list[e] /\ heard'[e] = heard[e]
                                \/ list'[e] = <<>> /\ heard'[e] = {}
      BY <1>1, <1>3 DEF ListsInv, StateOK
    <2> QED BY <2>1, <2>2, <1>2, HeardKept
  <1> QED BY <1>2, <1>4, <1>5, <1>6, <1>7, <1>8 DEF ListsInv

LEMMA KilledStored ==
    ASSUME FlightOK, SentStored, RecentsBehind, RecentIsStored, NEW d \in Devices, Killed(d)
    PROVE  SentStored' /\ RecentsBehind' /\ RecentIsStored'
  <1>1. /\ docs' = docs /\ mainq'[d] = <<>>
        /\ \A e \in Devices \ {d} : queue'[e] = queue[e] /\ mainq'[e] = mainq[e]
        /\ DOMAIN queue'[d] = DOMAIN queue[d]
        /\ \A i \in DOMAIN queue[d] : /\ queue'[d][i].paths = queue[d][i].paths
                                      /\ queue'[d][i].data = queue[d][i].data
    BY KilledQueue
  <1>2. \A u, m : Has(u, m)' <=> Has(u, m)
    BY <1>1 DEF Has
  <1>3. SentStored'
    <2>1. ASSUME NEW e \in Devices, NEW b \in SentBlocks(e)' PROVE Has(Me(e), b.then.m)
      <3>1. b \in SentBlocks(e)
        BY <1>1, RangeOfEmpty DEF SentBlocks
      <3> QED BY <3>1 DEF SentStored
    <2>2. ASSUME NEW e \in Devices, NEW y \in Range(queue'[e]), NEW m \in Ids, y.paths = {Copy(Other(e), m)}
          PROVE  Has(Me(e), m)
      <3>1. \E w \in Range(queue[e]) : y.paths = w.paths
        BY <1>1, KilledWrites
      <3> QED BY <3>1, <2>2 DEF SentStored
    <2> QED BY <1>2, <2>1, <2>2 DEF SentStored
  <1>4. ASSUME NEW e \in Devices
        PROVE  /\ DOMAIN queue'[e] = DOMAIN queue[e]
               /\ \A i \in DOMAIN queue[e] : /\ queue'[e][i].paths = queue[e][i].paths
                                             /\ queue'[e][i].data = queue[e][i].data
    BY <1>1
  <1>5. RecentsBehind'
    <2>1. ASSUME NEW e \in Devices, NEW i, NEW u, NEW m, Before(e, i, u, m) PROVE Before(e, i, u, m)'
      BY <1>2, <1>4, <2>1 DEF Before
    <2> SUFFICES ASSUME NEW e \in Devices, NEW i \in DOMAIN queue'[e], NEW u \in Users,
                        queue'[e][i].paths = {Recent(u)}, NEW m, m = queue'[e][i].data
                 PROVE  Before(e, i, u, m)' /\ Before(e, i, Partner[u], m)'
      BY DEF RecentsBehind
    <2>2. i \in DOMAIN queue[e] /\ queue[e][i].paths = {Recent(u)} /\ m = queue[e][i].data
      BY <1>4
    <2>3. Before(e, i, u, m) /\ Before(e, i, Partner[u], m)
      BY <2>2 DEF RecentsBehind
    <2> QED BY <2>1, <2>3
  <1>6. RecentIsStored'
    BY <1>1 DEF RecentIsStored, Has
  <1> QED BY <1>3, <1>5, <1>6

LEMMA CrashOK ==
    ASSUME MessagesIndInv, NEW d \in Devices, Crash(d), hasty' = hasty
    PROVE  MessagesIndInv'
  <1>1. ListsInv /\ FlightOK
    BY DEF MessagesIndInv, ListsInv
  <1>2. Killed(d) /\ crashes < MaxCrashes /\ crashes' = crashes + 1
    BY DEF Crash
  <1>3. crashes' \in 0..MaxCrashes /\ crashes' # 0
    BY <1>1, <1>2, MessagesAssumption DEF ListsInv, StateOK
  <1>4. ListsInv'
    BY <1>1, <1>2, <1>3, KilledLists
  <1>5. CopiesDue' /\ Waiting'
    BY <1>3 DEF CopiesDue, Waiting
  <1>6. ASSUME ~Failures PROVE SentStored' /\ RecentsBehind' /\ RecentIsStored'
    BY <1>1, <1>2, <1>6, KilledStored DEF MessagesIndInv, AcceptedInv
  <1> QED BY <1>4, <1>5, <1>6 DEF MessagesIndInv, AcceptedInv

\* A device that sees no message has none on its way.
LEMMA NothingSeen ==
    ASSUME ListsInv, SentStored, RecentsBehind, NEW d \in Devices, Visible(d) = {}
    PROVE  NothingOnItsWay(d)
  <1>1. FlightOK /\ OwnWrites /\ Me(d) \in Users /\ Other(d) \in Users
    BY PartnerFacts DEF ListsInv
  <1>2. queue \in QueuesOf(MessageWrites) /\ \A w \in MessageWrites : w.data # NoDoc /\ ~w.upd
    BY <1>1, WriteFacts DEF FlightOK
  <1>3. ASSUME NEW m \in Ids
        PROVE  ~Has(Me(d), m) /\ \A w \in Range(queue[d]) : w.paths # {Copy(Me(d), m)}
    <2>1. PICK path : path = Copy(Me(d), m)
      OBVIOUS
    <2>2. View(d, path) = NoDoc
      BY <2>1 DEF Visible
    <2>3. docs[path] = NoDoc /\ \A w \in Range(queue[d]) : path \notin w.paths
      BY <2>2, <1>2, ViewOfSets
    <2> QED BY <2>1, <2>3 DEF Has
  <1>4. SentBlocks(d) = {}
    <2> SUFFICES ASSUME NEW b \in SentBlocks(d) PROVE FALSE
      OBVIOUS
    <2>1. b \in MessageBlocks /\ b.then.kind = "sentCopy"
      BY <1>1, InQueue DEF FlightOK, SentBlocks
    <2>2. b.then.m \in Ids
      BY <2>1, BlockFacts, ThenFacts
    <2>3. Has(Me(d), b.then.m)
      BY DEF SentStored
    <2> QED BY <2>2, <2>3, <1>3
  <1>5. ASSUME NEW w \in Range(queue[d]), NEW u \in Users, NEW m \in Ids, w.paths = {Copy(u, m)} PROVE FALSE
    <2>1. u = Me(d) \/ u = Other(d)
      BY <1>1, <1>5 DEF OwnWrites, OwnWrite
    <2>2. u = Other(d) => Has(Me(d), m)
      BY <1>5 DEF SentStored
    <2> QED BY <2>1, <2>2, <1>3, <1>5
  <1>6. ASSUME NEW i \in DOMAIN queue[d], NEW u \in Users, queue[d][i].paths = {Recent(u)} PROVE FALSE
    <2>1. PICK w : w = queue[d][i]
      OBVIOUS
    <2>2. w \in Range(queue[d])
      BY <2>1 DEF Range
    <2>3. w \in MessageWrites
      BY <2>2, <1>1, InQueue DEF FlightOK
    <2>4. w.data \in Ids
      BY <2>1, <2>3, <1>6, WriteFacts
    <2>5. u = Me(d) \/ u = Other(d)
      BY <2>1, <2>2, <1>1, <1>6 DEF OwnWrites, OwnWrite
    <2>6. Before(d, i, Me(d), w.data)
      BY <2>1, <2>5, <1>6, PartnerFacts DEF RecentsBehind
    <2>7. \/ Has(Me(d), w.data)
          \/ \E j \in DOMAIN queue[d] : queue[d][j].paths = {Copy(Me(d), w.data)}
      BY <2>6 DEF Before
    <2>8. \A j \in DOMAIN queue[d] : queue[d][j] \in Range(queue[d])
      BY DEF Range
    <2> QED BY <2>4, <2>7, <2>8, <1>3
  <1>7. Range(queue[d]) = {}
    <2> SUFFICES ASSUME NEW w \in Range(queue[d]) PROVE FALSE
      OBVIOUS
    <2>1. w \in MessageWrites
      BY <1>1, InQueue DEF FlightOK
    <2>2. PICK i \in DOMAIN queue[d] : w = queue[d][i]
      BY DEF Range
    <2>3. \/ \E u \in Users, m \in Ids : w.paths = {Copy(u, m)}
          \/ \E u \in Users : w.paths = {Recent(u)}
      BY <2>1, WriteFacts
    <2>4. CASE \E u \in Users, m \in Ids : w.paths = {Copy(u, m)}
      BY <2>4, <1>5
    <2>5. CASE \E u \in Users : w.paths = {Recent(u)}
      BY <2>2, <2>5, <1>6
    <2> QED BY <2>3, <2>4, <2>5
  <1>8. queue[d] = <<>>
    <2>1. queue[d] \in Seq(MessageWrites)
      BY <1>2 DEF QueuesOf
    <2>2. queue[d] # <<>> => Range(queue[d]) = {Head(queue[d])} \cup Range(Tail(queue[d]))
      BY <2>1, RangeOfTail
    <2> QED BY <2>2, <1>7
  <1> QED BY <1>4, <1>8 DEF NothingOnItsWay

LEMMA ScrollToItemOK ==
    ASSUME MessagesIndInv, NEW d \in Devices, scrollToItem(d), hasty' = hasty
    PROVE  MessagesIndInv'
  <1>1. ListsInv /\ FlightOK
    BY DEF MessagesIndInv, ListsInv
  <1>2. Killed(d) /\ crashes' = crashes /\ Visible(d) = {}
    BY DEF scrollToItem
  <1>3. ListsInv'
    <2>1. crashes' \in 0..MaxCrashes
      BY <1>1, <1>2 DEF ListsInv, StateOK
    <2> QED BY <2>1, <1>1, <1>2, KilledLists
  <1>4. ASSUME ~Failures PROVE AcceptedInv'
    <2>1. AcceptedInv
      BY <1>4 DEF MessagesIndInv
    <2>2. SentStored' /\ RecentsBehind' /\ RecentIsStored'
      BY <2>1, <1>1, <1>2, KilledStored DEF AcceptedInv
    <2>3. NothingOnItsWay(d)
      BY <2>1, <1>1, <1>2, NothingSeen DEF AcceptedInv
    <2>4. /\ FlightOK' /\ docs' = docs /\ mainq'[d] = <<>> /\ gets'[d] = <<>>
          /\ \A e \in Devices \ {d} : queue'[e] = queue[e] /\ gets'[e] = gets[e] /\ mainq'[e] = mainq[e]
          /\ DOMAIN queue'[d] = DOMAIN queue[d]
      BY <1>1, <1>2, KilledQueue
    <2>5. queue' = queue
      <3>1. queue \in [Devices -> Seq(MessageWrites)] /\ queue' \in [Devices -> Seq(MessageWrites)]
        BY <1>1, <2>4 DEF FlightOK, QueuesOf
      <3>2. queue'[d] = queue[d]
        <4>1. queue[d] = <<>> /\ queue'[d] \in Seq(MessageWrites)
          BY <2>3, <3>1 DEF NothingOnItsWay
        <4>2. PICK q \in Seq(MessageWrites) : q = queue'[d]
          BY <4>1
        <4>3. DOMAIN q = {}
          BY <4>1, <4>2, <2>4
        <4>4. Range(q) = {}
          BY <4>3 DEF Range
        <4>5. q # <<>> => Range(q) = {Head(q)} \cup Range(Tail(q))
          BY RangeOfTail
        <4> QED BY <4>1, <4>2, <4>4, <4>5
      <3> QED BY <3>1, <3>2, <2>4
    <2>6. Kept
      <3>1. ASSUME NEW e \in Devices PROVE SentBlocks(e)' = SentBlocks(e)
        <4>1. CASE e = d
          BY <4>1, <2>3, <2>4, RangeOfEmpty DEF SentBlocks, NothingOnItsWay
        <4>2. CASE e # d
          BY <4>2, <2>4 DEF SentBlocks
        <4> QED BY <4>1, <4>2
      <3> QED BY <3>1, <2>4, <2>5, <1>2 DEF Kept
    <2>7. ASSUME NEW e \in Devices PROVE Undisturbed(e)
      <3>1. CASE e # d
        BY <3>1, <2>4 DEF Undisturbed
      <3>2. CASE e = d
        <4>1. mainq[d] # <<>> => Head(mainq[d]).then.kind # "sentCopy"
          <5>1. mainq[d] \in Seq(MessageBlocks)
            BY <1>1 DEF FlightOK, QueuesOf
          <5>2. mainq[d] # <<>> => Head(mainq[d]) \in Range(mainq[d])
            BY <5>1, RangeOfTail
          <5> QED BY <5>2, <2>3 DEF NothingOnItsWay, SentBlocks
        <4> QED BY <4>1, <3>2, <2>4 DEF Undisturbed
      <3> QED BY <3>1, <3>2
    <2>8. CopiesDue' /\ Waiting'
      BY <2>1, <2>6, <2>7, KeptOK, KeptWaits DEF AcceptedInv
    <2> QED BY <2>2, <2>8 DEF AcceptedInv
  <1> QED BY <1>3, <1>4 DEF MessagesIndInv

-----------------------------------------------------------------------------
(* The invariants hold in every state.                                     *)

LEMMA DeliverOK ==
    ASSUME MessagesIndInv, NEW d \in Devices, Deliver(d), hasty' = hasty
    PROVE  MessagesIndInv'
  <1>1. AppKept
    BY DEF Deliver, appVars, AppKept
  <1>2. TRUE \in BOOLEAN /\ FALSE \in BOOLEAN
    OBVIOUS
  <1>3. CASE Commit(d)
    BY <1>1, <1>2, <1>3, AnswerOK DEF Commit
  <1>4. CASE Refuse(d)
    BY <1>1, <1>2, <1>4, AnswerOK DEF Refuse
  <1>5. ASSUME NEW k \in DOMAIN gets[d], Resolve(d, k) PROVE MessagesIndInv'
    BY <1>1, <1>5, ResolveOK
  <1>6. ASSUME NEW k \in DOMAIN gets[d], Lose(d, k) PROVE MessagesIndInv'
    BY <1>1, <1>6, LoseOK
  <1> QED BY <1>3, <1>4, <1>5, <1>6 DEF Deliver, Network, Serve, Fail

LEMMA InitOK ==
    ASSUME Init
    PROVE  MessagesIndInv
  <1>1. docs = [x \in Paths |-> IF x[1] = "users" THEN 0 ELSE NoDoc]
    BY DEF Init, Paths
  <1>2. /\ docs \in [Paths -> Contents]
        /\ \A u \in Users : docs[Recent(u)] = NoDoc
        /\ \A u \in Users, m \in Ids : docs[Copy(u, m)] = NoDoc
    <2>1. docs \in [Paths -> Contents]
      BY <1>1 DEF Contents
    <2>2. \A u \in Users : Recent(u) \in Paths /\ Recent(u)[1] # "users"
      BY PathFacts DEF Recent
    <2>3. \A u \in Users, m \in Ids : Copy(u, m) \in Paths /\ Copy(u, m)[1] # "users"
      BY PathFacts DEF Copy
    <2> QED BY <1>1, <2>1, <2>2, <2>3
  <1>3. /\ queue = [d \in Devices |-> <<>>] /\ gets = [d \in Devices |-> <<>>]
        /\ mainq = [d \in Devices |-> <<>>]
        /\ conv = [d \in Devices |-> NoMessage] /\ chat = [d \in Devices |-> "none"]
        /\ list = [d \in Devices |-> <<>>] /\ heard = [d \in Devices |-> {}]
        /\ bar = [d \in Devices |-> 0]
        /\ draft = [d \in Devices |-> 0] /\ hud = [d \in Devices |-> Hidden]
        /\ sent = 0 /\ typed = 0 /\ chats = 0 /\ crashes = 0 /\ hasty = FALSE
    BY DEF Init
  <1>4. FlightOK
    BY <1>3 DEF FlightOK, QueuesOf
  <1>5. StateOK
    <2>1. draft \in [Devices -> Texts] /\ hud \in [Devices -> Huds({"conversations"})]
      BY <1>3, HudFacts, MessagesAssumption DEF Texts
    <2>2. /\ conv \in [Devices -> Ids \cup {NoMessage}] /\ chat \in [Devices -> {"none", "loading", "loaded"}]
          /\ list \in [Devices -> Seq(Ids)] /\ heard \in [Devices -> SUBSET Ids] /\ bar \in [Devices -> Nat]
      BY <1>3
    <2>3. /\ sent \in 0..MaxMessages /\ typed \in 0..MaxTexts
          /\ chats \in 0..MaxChats /\ crashes \in 0..MaxCrashes /\ hasty \in BOOLEAN
      <3>1. 0 \in 0..MaxMessages /\ 0 \in 0..MaxTexts /\ 0 \in 0..MaxChats /\ 0 \in 0..MaxCrashes
        BY MessagesAssumption
      <3> QED BY <3>1, <1>3
    <2> QED BY <1>2, <2>1, <2>2, <2>3 DEF StateOK
  <1>6. \A d \in Devices : /\ queue[d] = <<>> /\ gets[d] = <<>> /\ mainq[d] = <<>>
                           /\ Range(queue[d]) = {} /\ DOMAIN queue[d] = {} /\ SentBlocks(d) = {}
    BY <1>3, RangeOfEmpty DEF SentBlocks
  <1>7. BarsCounted
    <2> SUFFICES ASSUME NEW d \in Devices PROVE bar[d] + Asked(d) <= chats
      BY DEF BarsCounted
    <2>1. Len(<<>>) = 0
      OBVIOUS
    <2>2. Asked(d) = 0 + 0
      BY <1>6, <2>1, CountOfEmpty DEF Asked
    <2> QED BY <1>3, <2>2
  <1>8. OwnWrites
    BY <1>6 DEF OwnWrites
  <1>9. NoMessageTwice
    BY <1>3 DEF NoMessageTwice, IsInjective
  <1>10. \A u \in Users, m \in Ids : ~Has(u, m)
    BY <1>2 DEF Has
  <1>11. SentStored /\ RecentsBehind
    BY <1>6 DEF SentStored, RecentsBehind
  <1>12. RecentIsStored
    BY <1>2 DEF RecentIsStored
  <1>13. CopiesDue
    BY <1>6, <1>10 DEF CopiesDue
  <1>14. Waiting
    <2>1. Agree
      BY <1>2, PartnerFacts DEF Agree
    <2> QED BY <2>1, <1>6 DEF Waiting, OneAtATime, NothingOnItsWay
  <1>15. HeardInv
    <2>1. \A e \in Devices, u \in Users, m \in Ids : ~Brings(e, u, m)
      BY <1>6 DEF Brings
    <2>2. \A e \in Devices : Range(list[e]) = {} /\ heard[e] = {}
      BY <1>3, RangeOfEmpty
    <2> QED BY <2>1, <2>2, <1>2 DEF HeardInv, Numbered, OneSource, ListsHeard
  <1> QED BY <1>4, <1>5, <1>7, <1>8, <1>9, <1>11, <1>12, <1>13, <1>14, <1>15
             DEF MessagesIndInv, ListsInv, AcceptedInv

LEMMA NextOK ==
    ASSUME MessagesIndInv, [Next]_vars
    PROVE  MessagesIndInv'
  <1>1. ASSUME NEW d \in Devices, Touch(d) PROVE MessagesIndInv'
    <2>1. Touched
      BY <1>1 DEF Touch, Touched
    <2>2. CASE didSelectRow(d)
      BY <2>1, <2>2, DidSelectRowOK
    <2>3. CASE wantsToStartChatWith(d)
      BY <2>1, <2>3, WantsToStartChatWithOK
    <2>4. CASE goBack(d)
      BY <2>1, <2>4, GoBackOK
    <2>5. CASE type(d)
      BY <2>1, <2>5, TypeOK
    <2>6. CASE uploadMessage(d)
      BY <2>1, <2>6, UploadMessageOK
    <2> QED BY <1>1, <2>2, <2>3, <2>4, <2>5, <2>6 DEF Touch
  <1>2. ASSUME NEW d \in Devices, Step(d), hasty' = hasty PROVE MessagesIndInv'
    <2>1. CASE Deliver(d)
      BY <1>2, <2>1, DeliverOK
    <2>2. CASE fetchedUser(d)
      BY <1>2, <2>2, FetchedUserOK
    <2>3. CASE sentCopy(d)
      BY <1>2, <2>3, SentCopyOK
    <2>4. CASE delivered(d)
      BY <1>2, <2>4, DeliveredOK
    <2>5. CASE Animate(d)
      BY <1>2, <2>5, AnimateOK
    <2>6. CASE fetchConversations(d)
      BY <1>2, <2>6, FetchConversationsOK
    <2>7. CASE fetchMessages(d)
      BY <1>2, <2>7, FetchMessagesOK
    <2>8. CASE scrollToItem(d)
      BY <1>2, <2>8, ScrollToItemOK
    <2>9. CASE Crash(d)
      BY <1>2, <2>9, CrashOK
    <2> QED BY <1>2, <2>1, <2>2, <2>3, <2>4, <2>5, <2>6, <2>7, <2>8, <2>9 DEF Step, MainQueue
  <1>3. CASE UNCHANGED vars
    <2>1. Resting /\ AppKept
      BY <1>3 DEF vars, appVars, Resting, AppKept
    <2>2. StateOK' /\ BarsCounted' /\ NoMessageTwice'
      BY <2>1 DEF MessagesIndInv, ListsInv, StateOK, BarsCounted, Asked, NoMessageTwice, Resting, AppKept
    <2>3. ListsStill
      BY <2>1 DEF ListsStill, AppKept
    <2> QED BY <2>1, <2>2, <2>3, RestingStep DEF AppKept
  <1> QED BY <1>1, <1>2, <1>3 DEF Next

\* MessagingService and the two controllers keep the inductive invariant,
\* whether or not the server refuses writes.
THEOREM MessagesInductive == Spec => []MessagesIndInv
  <1>1. Init => MessagesIndInv
    BY InitOK
  <1>2. MessagesIndInv /\ [Next]_vars => MessagesIndInv'
    BY NextOK
  <1> QED BY <1>1, <1>2, PTL DEF Spec

LEMMA ListsTyped ==
    ASSUME ListsInv
    PROVE  MessagesTypeOK /\ NoMessageTwice
  <1>1. StateOK /\ NoMessageTwice
    BY DEF ListsInv
  <1>2. \A d \in Devices : bar[d] \in 0..MaxChats
    BY BarBound DEF Bars
  <1>3. \A u \in Users, m \in Ids : docs[Copy(u, m)] \in [fromId : Users, text : 0..MaxTexts] \cup {NoDoc}
    BY <1>1 DEF StateOK, Data, Texts
  <1>4. \A u \in Users : docs[Recent(u)] \in Ids \cup {NoDoc}
    BY <1>1 DEF StateOK
  <1>5. \A d \in Devices :
           /\ conv[d] \in Ids \cup {NoMessage} /\ chat[d] \in {"none", "loading", "loaded"}
           /\ list[d] \in Seq(Ids) /\ heard[d] \in SUBSET Ids /\ draft[d] \in 0..MaxTexts
    BY <1>1 DEF StateOK, Texts
  <1>6. \A d \in Devices : hud[d] \in Huds({"conversations"})
    BY <1>1 DEF StateOK
  <1>7. hasty \in BOOLEAN
    BY <1>1 DEF StateOK
  <1> QED BY <1>1, <1>2, <1>3, <1>4, <1>5, <1>6, <1>7 DEF MessagesTypeOK

\* ChatController never lists a message twice, although it appends every .added
\* change of its listener's snapshots, first from the device's own queue and
\* then from the server, and never looks in its list: a message that was listed
\* and has gone from the snapshots was refused, and nobody sends it again.
\* Also if reads fail and the app is killed.
THEOREM NothingListedTwice == Spec => [](MessagesTypeOK /\ NoMessageTwice)
  <1>1. MessagesIndInv => MessagesTypeOK /\ NoMessageTwice
    BY ListsTyped DEF MessagesIndInv
  <1> QED BY <1>1, MessagesInductive, PTL

\* If the server accepts every write of MessagingService.uploadMessage, the
\* most recent message of an account is one of which both accounts have their
\* copy, at every moment and wherever the app is killed.
THEOREM MessagesCorrect ==
    ASSUME ~Failures
    PROVE  Spec => []MessagesInv
  <1>1. MessagesIndInv => MessagesInv
    BY ListsTyped DEF MessagesIndInv, AcceptedInv, MessagesInv
  <1> QED BY <1>1, MessagesInductive, PTL

\* If the server accepts every write of MessagingService.uploadMessage and no
\* app is killed, both accounts have the same messages whenever nothing is in
\* flight and, if the users waited for the answers, the same most recent one.
THEOREM CopiesStayPaired ==
    ASSUME ~Failures
    PROVE  Spec => []CopiesAgree
  <1>1. ASSUME MessagesIndInv PROVE CopiesAgree
    <2>1. AcceptedInv
      BY <1>1 DEF MessagesIndInv
    <2>2. ASSUME Quiescent, crashes = 0, NEW u \in Users, NEW m \in Ids, Has(u, m)
          PROVE  Has(Partner[u], m)
      <3>1. \A d \in Devices : Range(queue[d]) = {} /\ SentBlocks(d) = {}
        BY <2>2, RangeOfEmpty DEF Quiescent, Quiet, SentBlocks
      <3>2. \A d \in Devices : ~CopyComing(d, m)
        BY <3>1 DEF CopyComing
      <3> QED BY <2>1, <2>2, <3>2 DEF AcceptedInv, CopiesDue
    <2>3. MessagesArePaired
      <3> SUFFICES ASSUME Quiescent, crashes = 0, NEW u \in Users, NEW m \in Ids
                   PROVE  Has(u, m) <=> Has(Partner[u], m)
        BY DEF MessagesArePaired
      <3>1. Partner[u] \in Users /\ Partner[Partner[u]] = u
        BY PartnerFacts
      <3>2. Has(Partner[u], m) => Has(Partner[Partner[u]], m)
        BY <2>2, <3>1
      <3> QED BY <2>2, <3>1, <3>2
    <2>4. RecentsAgree
      BY <2>1, QuietAgree DEF AcceptedInv, Waiting, RecentsAgree, Agree
    <2> QED BY <2>3, <2>4 DEF CopiesAgree
  <1> QED BY <1>1, MessagesInductive, PTL
=============================================================================
