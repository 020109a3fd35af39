---------------------------- MODULE SessionProofs ----------------------------
(***************************************************************************)
(* Proofs about Session, for every set of devices and users and every      *)
(* bound, with crashes, refused writes and failed calls.                   *)
(***************************************************************************)
EXTENDS Session, FirestoreProofs

-----------------------------------------------------------------------------
(* What may be in flight.                                                  *)

AuthBlocks ==
    {SignedIn(u) : u \in Users} \cup {Uploaded(u) : u \in Users}
        \cup {Created(u) : u \in Users} \cup {ResetSent(u) : u \in Users}

StoreBlocks == {Registered(u) : u \in Users}

Writes ==
    [paths : {{UserDoc(u)} : u \in Users}, data : {Profile}, upd : {FALSE},
     then : {NoThen} \cup StoreBlocks]

Reads == {getDocument(UserDoc(u), FetchedUser(u)) : u \in Users}

Told == [then : AuthBlocks \cup StoreBlocks, res : BOOLEAN]

Fetched ==
    UNION {[then : {FetchedUser(u)}, res : [{UserDoc(u)} -> {Profile, NoDoc}]] : u \in Users}

FlightOK ==
    /\ queue \in QueuesOf(Writes)
    /\ gets \in QueuesOf(Reads)
    /\ mainq \in QueuesOf(Told \cup Fetched)
    /\ calls \in QueuesOf(AuthBlocks)

-----------------------------------------------------------------------------
(* The documents of accounts.                                              *)

\* Device d has queued the document of u.
Queued(d, u) == \E w \in Range(queue[d]) : UserDoc(u) \in w.paths

\* Device d sees the document of u.
Known(d, u) == docs[UserDoc(u)] # NoDoc \/ Queued(d, u)

\* The block of createUser on d is about to store the document of u.
Creating(d, u) == [then |-> Created(u), res |-> TRUE] \in Range(mainq[d])

\* A read that found a document is not out of date, unless the document was
\* only queued and is refused.
FetchesKnown ==
    ~failed => \A d \in Devices : \A b \in Range(mainq[d]) :
        b \in Fetched /\ b.res[UserDoc(b.then.u)] # NoDoc => Known(d, b.then.u)

TabsKnown == ~failed => \A d \in Devices : tabUser[d] # NoUser => Known(d, tabUser[d])

\* An account without a document is about to get one.
ProfilesDue ==
    crashes = 0 /\ ~failed => \A u \in accounts :
        \/ docs[UserDoc(u)] # NoDoc
        \/ \E d \in Devices : Queued(d, u) \/ Creating(d, u)

\* Only accounts are signed in.
SignedInExist == \A d \in Devices : current[d] \in accounts \cup {NoUser}

-----------------------------------------------------------------------------
(* Users who wait: one call at a time is under way, of one device.         *)

OnlyFetches(d) == \A b \in Range(mainq[d]) : b \in Fetched

\* At most relaunched: reads are under way, and writes from before a crash.
Resting(d) ==
    calls[d] = <<>> /\ OnlyFetches(d) /\ \A w \in Range(queue[d]) : w.then = NoThen

\* Nothing else but one call to Auth or Storage, one answer of a service, or
\* one write of the document.
Calling(d) ==
    /\ modal[d] # "none" /\ Quiet(d)
    /\ \E b \in AuthBlocks : calls[d] = <<b>>

Answering(d) ==
    /\ modal[d] # "none" /\ calls[d] = <<>> /\ queue[d] = <<>> /\ gets[d] = <<>>
    /\ \E b \in Told :
          /\ mainq[d] = <<b>>
          /\ b.res /\ b.then.kind \in {"signedIn", "created", "registered"} => current[d] # NoUser

Storing(d) ==
    /\ modal[d] # "none" /\ calls[d] = <<>> /\ gets[d] = <<>> /\ mainq[d] = <<>>
    /\ current[d] # NoUser
    /\ \E w \in Writes : queue[d] = <<w>> /\ w.then # NoThen

Idle(d) == calls[d] = <<>> /\ OnlyFetches(d) /\ Range(queue[d]) = {}

Phase(d) == Resting(d) \/ Calling(d) \/ Answering(d) \/ Storing(d)

OneAtATime ==
    /\ \A d \in Devices : Phase(d)
    /\ \A d, e \in Devices : Idle(d) \/ Idle(e) \/ d = e

\* Reads are for whoever is signed in.
FetchesOf(d, u) ==
    /\ \A r \in Range(gets[d]) : r.then = FetchedUser(u)
    /\ \A b \in Range(mainq[d]) : b \in Fetched => b.then = FetchedUser(u)

FetchesCurrent == \A d \in Devices : FetchesOf(d, current[d])

\* The document of u is under way on d: u is signed in there only.
Pending(d, u) == Queued(d, u) \/ Creating(d, u)

PendingIsCurrent ==
    \A d \in Devices, u \in Users : Pending(d, u) =>
        current[d] = u /\ \A e \in Devices \ {d} : current[e] # u

\* u has no document and will get none: the app was killed in between.
Orphan(u) == docs[UserDoc(u)] = NoDoc /\ \A e \in Devices : ~Pending(e, u)

\* The tabs are those of whoever is signed in, or will be, if there is a
\* document.
TabsComing(d, u) ==
    \/ tabUser[d] = u
    \/ \E r \in Range(gets[d]) : r.then = FetchedUser(u)
    \/ \E b \in Range(mainq[d]) : b \in Fetched /\ b.res[UserDoc(b.then.u)] # NoDoc

TabsDue ==
    \A d \in Devices : modal[d] = "none" => TabsComing(d, current[d]) \/ Orphan(current[d])

Asked == \A d \in Devices : modal[d] = "none" => current[d] # NoUser

Orderly ==
    /\ OneAtATime /\ FetchesCurrent /\ PendingIsCurrent /\ Asked
    /\ ~failed => TabsDue

Waiting == ~hasty => Orderly

(***************************************************************************)
(* The inductive invariant.                                                *)
(***************************************************************************)
SessionIndInv ==
    /\ SessionTypeOK /\ FlightOK
    /\ FetchesKnown /\ TabsKnown
    /\ ProfilesDue /\ SignedInExist
    /\ Waiting

-----------------------------------------------------------------------------
(* Shapes of blocks, writes and reads.                                     *)

LEMMA Blocks ==
    /\ \A b \in Told :
          /\ b.res \in BOOLEAN /\ b.then.u \in Users
          /\ b.then.kind \in {"signedIn", "uploaded", "created", "resetSent", "registered"}
          /\ b = [then |-> b.then, res |-> b.res]
          /\ b.then = [kind |-> b.then.kind, u |-> b.then.u]
    /\ \A b \in Fetched :
          /\ b.then.u \in Users /\ b.then = FetchedUser(b.then.u)
          /\ b.then.kind = "fetchedUser"
          /\ b.res[UserDoc(b.then.u)] \in {Profile, NoDoc}
  <1>1. ASSUME NEW b \in Told
        PROVE  /\ b.res \in BOOLEAN /\ b.then.u \in Users
               /\ b.then.kind \in {"signedIn", "uploaded", "created", "resetSent", "registered"}
               /\ b = [then |-> b.then, res |-> b.res]
               /\ b.then = [kind |-> b.then.kind, u |-> b.then.u]
    <2>1. b.then \in AuthBlocks \cup StoreBlocks /\ b.res \in BOOLEAN /\ b = [then |-> b.then, res |-> b.res]
      BY DEF Told
    <2> DEFINE t == b.then
    <2>2. \E u \in Users : t \in {SignedIn(u), Uploaded(u), Created(u), ResetSent(u), Registered(u)}
      BY <2>1 DEF AuthBlocks, StoreBlocks
    <2> HIDE DEF t
    <2>3. /\ t.u \in Users
          /\ t.kind \in {"signedIn", "uploaded", "created", "resetSent", "registered"}
          /\ t = [kind |-> t.kind, u |-> t.u]
      BY <2>2 DEF SignedIn, Uploaded, Created, ResetSent, Registered
    <2> QED BY <2>1, <2>3 DEF t
  <1>2. ASSUME NEW b \in Fetched
        PROVE  /\ b.then.u \in Users /\ b.then = FetchedUser(b.then.u)
               /\ b.then.kind = "fetchedUser"
               /\ b.res[UserDoc(b.then.u)] \in {Profile, NoDoc}
    <2>1. PICK u \in Users : b \in [then : {FetchedUser(u)}, res : [{UserDoc(u)} -> {Profile, NoDoc}]]
      BY DEF Fetched
    <2>2. b.then = FetchedUser(u) /\ b.res \in [{UserDoc(u)} -> {Profile, NoDoc}]
      BY <2>1
    <2>3. b.then.u = u /\ b.then.kind = "fetchedUser"
      BY <2>2 DEF FetchedUser
    <2>4. b.res[UserDoc(u)] \in {Profile, NoDoc}
      BY <2>2
    <2> QED BY <2>2, <2>3, <2>4
  <1> QED BY <1>1, <1>2

LEMMA KindsApart ==
    ASSUME NEW b
    PROVE  /\ b \in Fetched => b.then.kind = "fetchedUser"
           /\ b \in Told \cup Fetched /\ b.then.kind # "fetchedUser" => b \in Told
           /\ b \in Told \cup Fetched /\ b.then.kind = "fetchedUser" => b \in Fetched
           /\ b \in Told => b \notin Fetched
  BY Blocks

LEMMA UserDocs ==
    /\ \A u, v \in Users : UserDoc(u) = UserDoc(v) => u = v
    /\ \A u, v : FetchedUser(u) = FetchedUser(v) => u = v
  <1>1. ASSUME NEW u, NEW v, FetchedUser(u) = FetchedUser(v) PROVE u = v
    <2>1. FetchedUser(u).u = FetchedUser(v).u
      BY <1>1
    <2> QED BY <2>1 DEF FetchedUser
  <1> QED BY <1>1 DEF UserDoc

LEMMA WriteFacts ==
    /\ \A w \in Writes :
          /\ w.data = Profile /\ w.data # NoDoc /\ ~w.upd
          /\ \E u \in Users : w.paths = {UserDoc(u)}
          /\ [w EXCEPT !.then = NoThen] \in Writes
          /\ [w EXCEPT !.then = NoThen].then = NoThen
          /\ [w EXCEPT !.then = NoThen].paths = w.paths
          /\ w.then # NoThen => w.then \in StoreBlocks
    /\ \A u \in Users : /\ storeUser(u) = <<setData(UserDoc(u), Profile, Registered(u))>>
                        /\ setData(UserDoc(u), Profile, Registered(u)) \in Writes
                        /\ setData(UserDoc(u), Profile, Registered(u)).paths = {UserDoc(u)}
                        /\ setData(UserDoc(u), Profile, Registered(u)).then # NoThen
  <1>1. ASSUME NEW w \in Writes
        PROVE  /\ w.data = Profile /\ w.data # NoDoc /\ ~w.upd
               /\ \E u \in Users : w.paths = {UserDoc(u)}
               /\ [w EXCEPT !.then = NoThen] \in Writes
               /\ [w EXCEPT !.then = NoThen].then = NoThen
               /\ [w EXCEPT !.then = NoThen].paths = w.paths
               /\ w.then # NoThen => w.then \in StoreBlocks
    BY SessionAssumption DEF Writes
  <1>2. ASSUME NEW u \in Users
        PROVE  /\ storeUser(u) = <<setData(UserDoc(u), Profile, Registered(u))>>
               /\ setData(UserDoc(u), Profile, Registered(u)) \in Writes
               /\ setData(UserDoc(u), Profile, Registered(u)).paths = {UserDoc(u)}
               /\ setData(UserDoc(u), Profile, Registered(u)).then # NoThen
    <2>1. Registered(u) # NoThen
      BY SessionAssumption DEF Registered
    <2>2. Registered(u) \in StoreBlocks
      BY DEF StoreBlocks
    <2> QED BY <2>1, <2>2 DEF Writes, storeUser, setData, Write
  <1> QED BY <1>1, <1>2

LEMMA ReadFacts ==
    /\ \A r \in Reads : ~r.each /\ \E u \in Users : r.paths = {UserDoc(u)} /\ r.then = FetchedUser(u)
    /\ \A u \in Users : /\ getDocument(UserDoc(u), FetchedUser(u)) \in Reads
                        /\ getDocument(UserDoc(u), FetchedUser(u)).then = FetchedUser(u)
  <1>1. ASSUME NEW r \in Reads
        PROVE  ~r.each /\ \E u \in Users : r.paths = {UserDoc(u)} /\ r.then = FetchedUser(u)
    <2>1. PICK u \in Users : r = [paths |-> {UserDoc(u)}, each |-> FALSE, then |-> FetchedUser(u)]
      BY DEF Reads, getDocument, Read
    <2> QED BY <2>1
  <1>2. \A u \in Users : getDocument(UserDoc(u), FetchedUser(u)).then = FetchedUser(u)
    BY DEF getDocument, Read
  <1> QED BY <1>1, <1>2 DEF Reads

\* MainTabController.fetchUser reads the document of whoever is signed in.
LEMMA FetchUserFacts ==
    ASSUME SessionIndInv, NEW d \in Devices
    PROVE  /\ fetchUser(d) \in Seq(Reads)
           /\ \A r \in Range(fetchUser(d)) : r.then = FetchedUser(current[d])
           /\ current[d] # NoUser => \E r \in Range(fetchUser(d)) : r.then = FetchedUser(current[d])
           /\ current[d] = NoUser => fetchUser(d) = <<>>
  <1>1. CASE current[d] = NoUser
    BY <1>1, RangeOfEmpty DEF fetchUser
  <1>2. CASE current[d] # NoUser
    <2> DEFINE r == getDocument(UserDoc(current[d]), FetchedUser(current[d]))
    <2>1. current[d] \in Users
      BY <1>2 DEF SessionIndInv, SessionTypeOK
    <2>2. r \in Reads /\ r.then = FetchedUser(current[d])
      BY <2>1, ReadFacts
    <2>3. fetchUser(d) = <<r>>
      BY <1>2 DEF fetchUser
    <2> HIDE DEF r
    <2>4. Range(<<r>>) = {r}
      BY RangeOfOne
    <2> QED BY <1>2, <2>2, <2>3, <2>4
  <1> QED BY <1>1, <1>2

\* What device d sees.
LEMMA ViewIsKnown ==
    ASSUME FlightOK, NEW d \in Devices, NEW u \in Users
    PROVE  View(d, UserDoc(u)) # NoDoc <=> Known(d, u)
  <1>1. queue \in QueuesOf(Writes)
    BY DEF FlightOK
  <1>2. \A w \in Writes : w.data # NoDoc /\ ~w.upd
    BY WriteFacts
  <1> QED BY <1>1, <1>2, ViewOfSets DEF Known, Queued

LEMMA ViewType ==
    ASSUME SessionTypeOK, FlightOK, NEW d \in Devices, NEW u \in Users
    PROVE  View(d, UserDoc(u)) \in {Profile, NoDoc}
  <1>1. queue \in QueuesOf(Writes)
    BY DEF FlightOK
  <1>2. docs[UserDoc(u)] \in {Profile, NoDoc}
    BY DEF SessionTypeOK
  <1>3. \A w \in Range(queue[d]) : w.data = Profile
    <2>1. queue[d] \in Seq(Writes)
      BY <1>1 DEF QueuesOf
    <2>2. Range(queue[d]) \subseteq Writes
      BY <2>1, RangeOfSeq
    <2> QED BY <2>2, WriteFacts
  <1>4. \/ View(d, UserDoc(u)) = docs[UserDoc(u)]
        \/ \E w \in Range(queue[d]) : UserDoc(u) \in w.paths /\ View(d, UserDoc(u)) = w.data
    BY <1>1, ViewFrom
  <1> QED BY <1>2, <1>3, <1>4

-----------------------------------------------------------------------------
(* A step of device d while users wait: what must be shown of d.           *)

\* The other devices keep what they have.
OthersKeep(d) ==
    \A e \in Devices \ {d} :
        /\ queue'[e] = queue[e] /\ gets'[e] = gets[e] /\ mainq'[e] = mainq[e]
        /\ calls'[e] = calls[e] /\ modal'[e] = modal[e]
        /\ current'[e] = current[e] /\ tabUser'[e] = tabUser[e]

LEMMA OthersSame ==
    ASSUME NEW d \in Devices, OthersKeep(d), NEW e \in Devices \ {d}
    PROVE  /\ Phase(e)' <=> Phase(e)
           /\ Idle(e)' <=> Idle(e)
           /\ \A u : FetchesOf(e, u)' <=> FetchesOf(e, u)
           /\ \A u : Pending(e, u)' <=> Pending(e, u)
           /\ \A u : Queued(e, u)' <=> Queued(e, u)
           /\ \A u : TabsComing(e, u)' <=> TabsComing(e, u)
  <1>1. /\ queue'[e] = queue[e] /\ gets'[e] = gets[e] /\ mainq'[e] = mainq[e]
        /\ calls'[e] = calls[e] /\ modal'[e] = modal[e]
        /\ current'[e] = current[e] /\ tabUser'[e] = tabUser[e]
    BY DEF OthersKeep
  <1>2. OnlyFetches(e)' <=> OnlyFetches(e)
    BY <1>1 DEF OnlyFetches
  <1>3. Resting(e)' <=> Resting(e)
    BY <1>1, <1>2 DEF Resting
  <1>4. Calling(e)' <=> Calling(e)
    BY <1>1 DEF Calling, Quiet
  <1>5. Answering(e)' <=> Answering(e)
    BY <1>1 DEF Answering
  <1>6. Storing(e)' <=> Storing(e)
    BY <1>1 DEF Storing
  <1>7. Idle(e)' <=> Idle(e)
    BY <1>1, <1>2 DEF Idle
  <1>8. \A u : FetchesOf(e, u)' <=> FetchesOf(e, u)
    BY <1>1 DEF FetchesOf
  <1>9. \A u : (Pending(e, u)' <=> Pending(e, u)) /\ (Queued(e, u)' <=> Queued(e, u))
    BY <1>1 DEF Pending, Queued, Creating
  <1>10. \A u : TabsComing(e, u)' <=> TabsComing(e, u)
    BY <1>1 DEF TabsComing
  <1> QED BY <1>3, <1>4, <1>5, <1>6, <1>7, <1>8, <1>9, <1>10 DEF Phase

LEMMA OrderlyKept ==
    ASSUME NEW d \in Devices, Orderly, OthersKeep(d), Phase(d)',
           Idle(d)' \/ ~Idle(d) \/ \A e \in Devices \ {d} : Idle(e),
           FetchesOf(d, current[d])',
           \A u \in Users : Pending(d, u)' =>
               current'[d] = u /\ \A e \in Devices \ {d} : current[e] # u,
           \A e \in Devices \ {d} : \A u \in Users : Pending(e, u) => current'[d] # u,
           modal'[d] = "none" => current'[d] # NoUser,
           ~failed' => /\ ~failed
                       /\ modal'[d] = "none" => TabsComing(d, current[d])' \/ Orphan(current[d])'
                       /\ \A e \in Devices \ {d} :
                            modal[e] = "none" /\ Orphan(current[e]) => Orphan(current[e])'
    PROVE  Orderly'
  <1>1. \A e \in Devices \ {d} : current'[e] = current[e] /\ modal'[e] = modal[e]
    BY DEF OthersKeep
  <1>2. OneAtATime'
    <2>1. ASSUME NEW e \in Devices PROVE Phase(e)'
      BY OthersSame DEF Orderly, OneAtATime
    <2>2. ASSUME NEW e \in Devices, NEW f \in Devices PROVE Idle(e)' \/ Idle(f)' \/ e = f
      <3>1. Idle(e) \/ Idle(f) \/ e = f
        BY DEF Orderly, OneAtATime
      <3>2. CASE e # d /\ f # d
        BY <3>1, <3>2, OthersSame
      <3>3. CASE e = d /\ f # d
        BY <3>1, <3>3, OthersSame
      <3>4. CASE e # d /\ f = d
        BY <3>1, <3>4, OthersSame
      <3> QED BY <3>2, <3>3, <3>4
    <2> QED BY <2>1, <2>2 DEF OneAtATime
  <1>3. FetchesCurrent'
    <2>1. ASSUME NEW e \in Devices \ {d} PROVE FetchesOf(e, current[e])'
      <3>1. FetchesOf(e, current[e])
        BY DEF Orderly, FetchesCurrent
      <3>2. \A u : FetchesOf(e, u)' <=> FetchesOf(e, u)
        BY OthersSame
      <3> QED BY <3>1, <3>2, <1>1 DEF FetchesOf
    <2> QED BY <2>1 DEF FetchesCurrent
  <1>4. PendingIsCurrent'
    <2>1. ASSUME NEW e \in Devices \ {d}, NEW u \in Users, Pending(e, u)'
          PROVE  current'[e] = u /\ \A f \in Devices \ {e} : current'[f] # u
      <3>1. Pending(e, u)
        BY <2>1, OthersSame
      <3>2. current[e] = u /\ \A f \in Devices \ {e} : current[f] # u
        BY <3>1 DEF Orderly, PendingIsCurrent
      <3>3. current'[d] # u
        BY <3>1
      <3> QED BY <3>2, <3>3, <1>1
    <2>2. ASSUME NEW u \in Users, Pending(d, u)'
          PROVE  current'[d] = u /\ \A f \in Devices \ {d} : current'[f] # u
      BY <2>2, <1>1
    <2> QED BY <2>1, <2>2 DEF PendingIsCurrent
  <1>5. Asked'
    BY <1>1 DEF Orderly, Asked
  <1>6. ASSUME ~failed' PROVE TabsDue'
    <2>1. ASSUME NEW e \in Devices \ {d}, modal'[e] = "none"
          PROVE  TabsComing(e, current[e])' \/ Orphan(current[e])'
      <3>1. modal[e] = "none"
        BY <2>1, <1>1
      <3>2. TabsComing(e, current[e]) \/ Orphan(current[e])
        BY <1>6, <3>1 DEF Orderly, TabsDue
      <3>3. CASE TabsComing(e, current[e])
        <4>1. /\ gets'[e] = gets[e] /\ mainq'[e] = mainq[e]
              /\ current'[e] = current[e] /\ tabUser'[e] = tabUser[e]
          BY DEF OthersKeep
        <4> QED BY <3>3, <4>1 DEF TabsComing
      <3>4. CASE Orphan(current[e])
        BY <1>6, <3>1, <3>4
      <3> QED BY <3>2, <3>3, <3>4
    <2> QED BY <1>6, <2>1 DEF TabsDue
  <1> QED BY <1>2, <1>3, <1>4, <1>5, <1>6 DEF Orderly

\* An account that is signed in and that nobody stores a document of stays so.
LEMMA OrphanKept ==
    ASSUME NEW d \in Devices, OthersKeep(d), NEW u,
           Orphan(u), docs'[UserDoc(u)] = NoDoc, Pending(d, u)' => Pending(d, u)
    PROVE  /\ docs'[UserDoc(u)] = NoDoc
           /\ \A e \in Devices : ~Pending(e, u)'
  <1>1. ASSUME NEW e \in Devices \ {d} PROVE ~Pending(e, u)'
    BY OthersSame DEF Orphan
  <1>2. ~Pending(d, u)'
    BY DEF Orphan
  <1> QED BY <1>1, <1>2

\* A step of device d: the documents that the devices know of stay known.
LEMMA ProfilesKept ==
    ASSUME NEW d \in Devices, SessionIndInv, SessionTypeOK', FlightOK', OthersKeep(d),
           ~failed' => ~failed,
           ~failed' => \A u \in Users : docs[UserDoc(u)] # NoDoc => docs'[UserDoc(u)] # NoDoc,
           ~failed' => \A u \in Users : Queued(d, u) => docs'[UserDoc(u)] # NoDoc \/ Queued(d, u)',
           ~failed' => \A b \in Range(mainq'[d]) : b \in Fetched /\ b.res[UserDoc(b.then.u)] # NoDoc =>
                         b \in Range(mainq[d]) \/ Known(d, b.then.u)',
           ~failed' => tabUser'[d] \in {tabUser[d], NoUser} \/ Known(d, tabUser[d])',
           crashes' = 0 => /\ crashes = 0
                           /\ \A u \in Users : Creating(d, u) => Creating(d, u)' \/ Queued(d, u)',
           \A u \in accounts' \ accounts : Creating(d, u)'
    PROVE  FetchesKnown' /\ TabsKnown' /\ ProfilesDue'
  <1>1. ASSUME NEW e \in Devices \ {d}
        PROVE  /\ \A u : Queued(e, u)' <=> Queued(e, u)
               /\ \A u : Creating(e, u)' <=> Creating(e, u)
               /\ mainq'[e] = mainq[e] /\ tabUser'[e] = tabUser[e]
    BY DEF OthersKeep, Queued, Creating
  <1>2. ASSUME ~failed', NEW e \in Devices, NEW u \in Users, Known(e, u)
        PROVE  Known(e, u)'
    BY <1>1, <1>2 DEF Known
  <1>3. mainq' \in QueuesOf(Told \cup Fetched)
    BY DEF FlightOK
  <1>4. tabUser \in [Devices -> Users \cup {NoUser}]
    BY DEF SessionIndInv, SessionTypeOK
  <1>5. ASSUME ~failed' PROVE FetchesKnown'
    <2>1. ASSUME NEW e \in Devices, NEW b \in Range(mainq'[e]),
                 b \in Fetched, b.res[UserDoc(b.then.u)] # NoDoc
          PROVE  Known(e, b.then.u)'
      <3>1. b.then.u \in Users
        BY <2>1, Blocks
      <3>2. CASE b \in Range(mainq[e])
        <4>1. Known(e, b.then.u)
          BY <1>5, <2>1, <3>2 DEF SessionIndInv, FetchesKnown
        <4> QED BY <1>2, <1>5, <3>1, <4>1
      <3>3. CASE b \notin Range(mainq[e])
        <4>1. e = d
          BY <3>3, <1>1
        <4>2. Known(d, b.then.u)'
          BY <4>1, <1>5, <2>1, <3>3
        <4> QED BY <4>1, <4>2
      <3> QED BY <3>2, <3>3
    <2> QED BY <2>1 DEF FetchesKnown
  <1>6. ASSUME ~failed' PROVE TabsKnown'
    <2>1. ASSUME NEW e \in Devices, tabUser'[e] # NoUser
          PROVE  Known(e, tabUser[e])'
      <3>1. CASE tabUser'[e] = tabUser[e]
        <4>1. tabUser[e] \in Users /\ tabUser[e] # NoUser
          BY <1>4, <2>1, <3>1
        <4>2. Known(e, tabUser[e])
          BY <1>6, <4>1 DEF SessionIndInv, TabsKnown
        <4>3. \A u \in Users : Known(e, u) => Known(e, u)'
          BY <1>2, <1>6
        <4>4. Queued(e, tabUser[e])' <=> \E w \in Range(queue'[e]) : UserDoc(tabUser[e]) \in w.paths
          BY <3>1 DEF Queued
        <4> DEFINE u == tabUser[e]
        <4>5. docs'[UserDoc(u)] # NoDoc \/ \E w \in Range(queue'[e]) : UserDoc(u) \in w.paths
          <5> HIDE DEF u
          <5>1. u \in Users /\ Known(e, u)
            BY <4>1, <4>2 DEF u
          <5> QED BY <5>1, <4>3 DEF Known, Queued
        <4> QED BY <4>5, <3>1 DEF Known, Queued
      <3>2. CASE tabUser'[e] # tabUser[e]
        <4>1. e = d
          BY <3>2, <1>1
        <4> QED BY <4>1, <3>2, <2>1, <1>6
      <3> QED BY <3>1, <3>2
    <2> QED BY <2>1 DEF TabsKnown
  <1>7. ASSUME crashes' = 0, ~failed' PROVE ProfilesDue'
    <2>1. ASSUME NEW u \in accounts'
          PROVE  \/ docs'[UserDoc(u)] # NoDoc
                 \/ \E e \in Devices : Queued(e, u)' \/ Creating(e, u)'
      <3>1. u \in Users
        BY <2>1 DEF SessionTypeOK
      <3>2. CASE u \notin accounts
        BY <2>1, <3>2
      <3>3. CASE u \in accounts
        <4>1. \/ docs[UserDoc(u)] # NoDoc
              \/ \E e \in Devices : Queued(e, u) \/ Creating(e, u)
          BY <3>3, <1>7 DEF SessionIndInv, ProfilesDue
        <4>2. CASE docs[UserDoc(u)] # NoDoc
          BY <4>2, <3>1, <1>7
        <4>3. ASSUME NEW e \in Devices, Queued(e, u)
              PROVE  docs'[UserDoc(u)] # NoDoc \/ Queued(e, u)'
          BY <4>3, <3>1, <1>1, <1>7
        <4>4. ASSUME NEW e \in Devices, Creating(e, u)
              PROVE  Queued(e, u)' \/ Creating(e, u)'
          BY <4>4, <3>1, <1>1, <1>7
        <4> QED BY <4>1, <4>2, <4>3, <4>4
      <3> QED BY <3>2, <3>3
    <2> QED BY <2>1 DEF ProfilesDue
  <1> QED BY <1>5, <1>6, <1>7 DEF FetchesKnown, TabsKnown, ProfilesDue

-----------------------------------------------------------------------------
(* The server answers a write.                                             *)

LEMMA AnswerFacts ==
    ASSUME SessionIndInv, NEW d \in Devices, NEW done \in BOOLEAN, Answer(d, done)
    PROVE  /\ queue' \in QueuesOf(Writes) /\ mainq' \in QueuesOf(Told \cup Fetched)
           /\ \E w \in Writes, u \in Users :
                 /\ w.paths = {UserDoc(u)} /\ Answered(d, done, w, UserDoc(u))
                 /\ docs' = IF done THEN [docs EXCEPT ![UserDoc(u)] = Profile] ELSE docs
  <1>1. queue \in QueuesOf(Writes) /\ mainq \in QueuesOf(Told \cup Fetched)
    BY DEF SessionIndInv, FlightOK
  <1>2. \A w \in Writes : OneDocument(w)
    BY WriteFacts DEF OneDocument
  <1>3. \A w \in Writes : Tells(w, Told \cup Fetched)
    <2>1. \A w \in Writes : w.then # NoThen => w.then \in StoreBlocks
      BY WriteFacts
    <2> QED BY <2>1 DEF Told, Tells
  <1>4. /\ queue' \in QueuesOf(Writes) /\ mainq' \in QueuesOf(Told \cup Fetched)
        /\ \E w \in Writes : \E path \in w.paths : w.paths = {path} /\ Answered(d, done, w, path)
    BY <1>1, <1>2, <1>3, AnswerOne
  <1>5. PICK w \in Writes : \E path \in w.paths : w.paths = {path} /\ Answered(d, done, w, path)
    BY <1>4
  <1>6. PICK u \in Users : w.paths = {UserDoc(u)}
    BY WriteFacts
  <1>7. Answered(d, done, w, UserDoc(u))
    BY <1>5, <1>6
  <1>8. Accepts(w, UserDoc(u)) /\ w.data = Profile
    BY WriteFacts DEF Accepts
  <1>9. docs' = IF done THEN [docs EXCEPT ![UserDoc(u)] = Profile] ELSE docs
    BY <1>7, <1>8 DEF Answered
  <1> QED BY <1>4, <1>6, <1>7, <1>9

\* The oldest write of a device that is storing a document is its only one.
LEMMA AnswerStoring ==
    ASSUME SessionIndInv, NEW d \in Devices, NEW done \in BOOLEAN, Answer(d, done), Storing(d)
    PROVE  /\ queue'[d] = <<>>
           /\ \E b \in Told : mainq'[d] = <<b>>
  <1>1. PICK w \in Writes : queue[d] = <<w>> /\ w.then # NoThen
    BY DEF Storing
  <1>2. mainq[d] = <<>>
    BY DEF Storing
  <1>3. queue \in QueuesOf(Writes) /\ mainq \in QueuesOf(Told \cup Fetched)
    BY DEF SessionIndInv, FlightOK
  <1>4. Head(queue[d]) = w /\ Tail(queue[d]) = <<>>
    BY <1>1
  <1>5. PICK path \in w.paths :
            /\ queue' = [queue EXCEPT ![d] =
                 IF w.paths = {path} THEN Tail(@)
                 ELSE <<[w EXCEPT !.paths = @ \ {path}]>> \o Tail(@)]
            /\ mainq' = IF w.then = NoThen THEN mainq
                        ELSE [mainq EXCEPT ![d] = Append(@, [then |-> w.then, res |-> done /\ Accepts(w, path)])]
    BY <1>4 DEF Answer
  <1>6. w.paths = {path}
    BY WriteFacts
  <1>7. queue'[d] = <<>>
    BY <1>3, <1>4, <1>5, <1>6 DEF QueuesOf
  <1> DEFINE b == [then |-> w.then, res |-> done /\ Accepts(w, path)]
  <1>8. mainq'[d] = Append(<<>>, b)
    BY <1>1, <1>2, <1>3, <1>5 DEF QueuesOf
  <1>9. w.then \in StoreBlocks /\ (done /\ Accepts(w, path)) \in BOOLEAN
    BY <1>1, WriteFacts DEF Accepts
  <1>10. b \in Told
    BY <1>9 DEF Told
  <1> HIDE DEF b
  <1>11. Append(<<>>, b) = <<b>>
    OBVIOUS
  <1> QED BY <1>7, <1>8, <1>10, <1>11

LEMMA AnswerOK ==
    ASSUME SessionIndInv, NEW d \in Devices, NEW done \in BOOLEAN, Answer(d, done),
           UNCHANGED <<appVars, hasty>>, failed' \in BOOLEAN, failed => failed', ~failed' => done
    PROVE  SessionIndInv'
  <1>1. /\ queue' \in QueuesOf(Writes) /\ mainq' \in QueuesOf(Told \cup Fetched)
        /\ \E w \in Writes, u \in Users :
              /\ w.paths = {UserDoc(u)} /\ Answered(d, done, w, UserDoc(u))
              /\ docs' = IF done THEN [docs EXCEPT ![UserDoc(u)] = Profile] ELSE docs
    BY AnswerFacts
  <1>2. PICK w \in Writes, u \in Users :
              /\ w.paths = {UserDoc(u)} /\ Answered(d, done, w, UserDoc(u))
              /\ docs' = IF done THEN [docs EXCEPT ![UserDoc(u)] = Profile] ELSE docs
    BY <1>1
  <1>3. /\ accounts' = accounts /\ current' = current /\ calls' = calls /\ tabUser' = tabUser
        /\ modal' = modal /\ ops' = ops /\ crashes' = crashes /\ hasty' = hasty
    BY DEF appVars
  <1>4. docs \in [{UserDoc(v) : v \in Users} -> {Profile, NoDoc}]
    BY DEF SessionIndInv, SessionTypeOK
  <1>5. /\ docs' \in [{UserDoc(v) : v \in Users} -> {Profile, NoDoc}]
        /\ done => docs'[UserDoc(u)] = Profile
        /\ \A v \in Users : v # u => docs'[UserDoc(v)] = docs[UserDoc(v)]
        /\ \A v \in Users : docs[UserDoc(v)] # NoDoc => docs'[UserDoc(v)] # NoDoc
    <2>1. UserDoc(u) \in {UserDoc(v) : v \in Users}
      OBVIOUS
    <2>2. \A v \in Users : UserDoc(v) \in {UserDoc(x) : x \in Users}
      OBVIOUS
    <2>3. \A v \in Users : v # u => UserDoc(v) # UserDoc(u)
      BY UserDocs
    <2>4. Profile # NoDoc
      BY SessionAssumption
    <2>5. docs' \in [{UserDoc(v) : v \in Users} -> {Profile, NoDoc}]
      BY <1>2, <1>4
    <2>6. done => docs'[UserDoc(u)] = Profile
      BY <1>2, <1>4, <2>1
    <2>7. \A v \in Users : v # u => docs'[UserDoc(v)] = docs[UserDoc(v)]
      BY <1>2, <1>4, <2>2, <2>3
    <2>8. ~done => docs' = docs
      BY <1>2
    <2> QED BY <2>4, <2>5, <2>6, <2>7, <2>8
  <1>6. SessionTypeOK'
    BY <1>3, <1>5 DEF SessionIndInv, SessionTypeOK
  <1>7. /\ gets' = gets
        /\ \A e \in Devices \ {d} : queue'[e] = queue[e] /\ mainq'[e] = mainq[e]
        /\ Range(queue[d]) = {w} \cup Range(queue'[d])
        /\ Range(mainq'[d]) = Range(mainq[d]) \cup
              (IF w.then = NoThen THEN {} ELSE {[then |-> w.then, res |-> done /\ Accepts(w, UserDoc(u))]})
    BY <1>2 DEF Answered
  <1>8. FlightOK'
    BY <1>1, <1>3, <1>7 DEF SessionIndInv, FlightOK
  <1>9. OthersKeep(d)
    BY <1>3, <1>7 DEF OthersKeep
  <1>10. \A v \in Users : Queued(d, v) => v = u \/ Queued(d, v)'
    <2>1. ASSUME NEW v \in Users, Queued(d, v), v # u PROVE Queued(d, v)'
      <3>1. PICK x \in Range(queue[d]) : UserDoc(v) \in x.paths
        BY <2>1 DEF Queued
      <3>2. x # w
        BY <2>1, <3>1, <1>2, UserDocs
      <3>3. x \in Range(queue'[d])
        BY <3>2, <1>7
      <3> QED BY <3>1, <3>3 DEF Queued
    <2> QED BY <2>1
  <1>11. \A v \in Users : Queued(d, v)' => Queued(d, v)
    BY <1>7 DEF Queued
  <1>12. \A b \in Range(mainq'[d]) : b \in Range(mainq[d]) \/ (w.then # NoThen /\ b \in Told /\ b.then = w.then)
    <2>1. ASSUME w.then # NoThen
          PROVE  [then |-> w.then, res |-> done /\ Accepts(w, UserDoc(u))] \in Told
      <3>1. w.then \in StoreBlocks
        BY <2>1, WriteFacts
      <3>2. (done /\ Accepts(w, UserDoc(u))) \in BOOLEAN
        BY DEF Accepts
      <3> QED BY <3>1, <3>2 DEF Told
    <2> QED BY <1>7, <2>1
  <1>13. Range(mainq[d]) \subseteq Range(mainq'[d])
    BY <1>7
  <1>14. w.then # NoThen => w.then.kind = "registered"
    <2>1. w.then # NoThen => w.then \in StoreBlocks
      BY WriteFacts
    <2> QED BY <2>1 DEF StoreBlocks, Registered
  <1>15. \A v \in Users : Creating(d, v)' <=> Creating(d, v)
    <2>1. ASSUME NEW v \in Users, Creating(d, v)' PROVE Creating(d, v)
      <3> DEFINE b == [then |-> Created(v), res |-> TRUE]
      <3>1. b \in Range(mainq'[d]) /\ b.then.kind = "created"
        BY <2>1 DEF Creating, Created
      <3> HIDE DEF b
      <3>2. b \in Range(mainq[d])
        BY <3>1, <1>12, <1>14
      <3> QED BY <3>2 DEF Creating, b
    <2>2. ASSUME NEW v \in Users, Creating(d, v) PROVE Creating(d, v)'
      BY <2>2, <1>13 DEF Creating
    <2> QED BY <2>1, <2>2
  <1>16. FetchesKnown' /\ TabsKnown' /\ ProfilesDue'
    <2>1. ~failed' => ~failed /\ done
      OBVIOUS
    <2>2. ~failed' => \A v \in Users : Queued(d, v) => docs'[UserDoc(v)] # NoDoc \/ Queued(d, v)'
      <3>1. Profile # NoDoc
        BY SessionAssumption
      <3> QED BY <2>1, <3>1, <1>5, <1>10
    <2>3. \A b \in Range(mainq'[d]) : b \in Fetched => b \in Range(mainq[d])
      BY <1>12, KindsApart
    <2>4. \A v \in accounts' \ accounts : Creating(d, v)'
      BY <1>3
    <2>5. tabUser'[d] \in {tabUser[d], NoUser}
      BY <1>3
    <2>6. crashes' = 0 => /\ crashes = 0
                          /\ \A v \in Users : Creating(d, v) => Creating(d, v)' \/ Queued(d, v)'
      BY <1>3, <1>15
    <2> QED BY <1>5, <1>6, <1>8, <1>9, <2>1, <2>2, <2>3, <2>4, <2>5, <2>6, ProfilesKept
  <1>17. SignedInExist'
    BY <1>3 DEF SessionIndInv, SignedInExist
  <1>18. ASSUME ~hasty' PROVE Orderly'
    <2>1. Orderly
      BY <1>3, <1>18 DEF SessionIndInv, Waiting
    <2>2. w \in Range(queue[d])
      BY <1>7
    <2>3. ~Idle(d)
      BY <2>2 DEF Idle
    <2>4. Phase(d)
      BY <2>1 DEF Orderly, OneAtATime
    <2>5. queue[d] # <<>>
      BY DEF Answer
    <2>6. Resting(d) \/ Storing(d)
      BY <2>4, <2>5 DEF Phase, Calling, Answering, Quiet
    <2>7. Phase(d)'
      <3>1. CASE Resting(d)
        <4>1. w.then = NoThen
          BY <3>1, <2>2 DEF Resting
        <4>2. Range(mainq'[d]) = Range(mainq[d])
          BY <4>1, <1>7
        <4>3. \A x \in Range(queue'[d]) : x \in Range(queue[d])
          BY <1>7
        <4> QED BY <3>1, <4>2, <4>3, <1>3 DEF Phase, Resting, OnlyFetches
      <3>2. CASE Storing(d)
        <4>1. queue'[d] = <<>> /\ \E b \in Told : mainq'[d] = <<b>>
          BY <3>2, AnswerStoring
        <4>2. Answering(d)'
          BY <3>2, <4>1, <1>3, <1>7 DEF Storing, Answering
        <4> QED BY <4>2 DEF Phase
      <3> QED BY <2>6, <3>1, <3>2
    <2>8. FetchesOf(d, current[d])'
      <3>1. FetchesOf(d, current[d])
        BY <2>1 DEF Orderly, FetchesCurrent
      <3> QED BY <3>1, <1>3, <1>7, <1>12, KindsApart DEF FetchesOf
    <2>9. \A v \in Users : Pending(d, v)' => Pending(d, v)
      BY <1>11, <1>15 DEF Pending
    <2>10. \A v \in Users : Pending(d, v)' =>
               current'[d] = v /\ \A e \in Devices \ {d} : current[e] # v
      BY <2>1, <2>9, <1>3 DEF Orderly, PendingIsCurrent
    <2>11. \A e \in Devices \ {d} : \A v \in Users : Pending(e, v) => current'[d] # v
      BY <2>1, <1>3 DEF Orderly, PendingIsCurrent
    <2>12. modal'[d] = "none" => current'[d] # NoUser
      BY <2>1, <1>3 DEF Orderly, Asked
    <2>13. ASSUME NEW e \in Devices, modal[e] = "none", Orphan(current[e])
           PROVE  Orphan(current[e])'
      <3>1. PICK v \in Users : v = current[e]
        BY <2>1, <2>13 DEF Orderly, Asked, SessionIndInv, SessionTypeOK
      <3>2. Pending(d, u)
        BY <2>2, <1>2 DEF Pending, Queued
      <3>3. v # u
        BY <3>1, <3>2, <2>13 DEF Orphan
      <3>4. docs'[UserDoc(v)] = NoDoc
        BY <3>1, <3>3, <1>5, <2>13 DEF Orphan
      <3>5. Pending(d, v)' => Pending(d, v)
        BY <3>1, <2>9
      <3>6. current'[e] = v /\ Orphan(v)
        BY <3>1, <1>3, <2>13
      <3>7. docs'[UserDoc(v)] = NoDoc /\ \A f \in Devices : ~Pending(f, v)'
        BY <1>9, <3>4, <3>5, <3>6, OrphanKept
      <3> QED BY <3>6, <3>7 DEF Orphan, Pending, Queued, Creating
    <2>14. ASSUME ~failed', modal'[d] = "none" PROVE TabsComing(d, current[d])' \/ Orphan(current[d])'
      <3>1. modal[d] = "none"
        BY <1>3, <2>14
      <3>2. TabsComing(d, current[d]) \/ Orphan(current[d])
        BY <2>1, <2>14, <3>1 DEF Orderly, TabsDue
      <3>3. CASE TabsComing(d, current[d])
        BY <3>3, <1>3, <1>7, <1>13 DEF TabsComing
      <3>4. CASE Orphan(current[d])
        BY <3>1, <3>4, <2>13
      <3> QED BY <3>2, <3>3, <3>4
    <2> QED BY <2>1, <1>9, <2>7, <2>3, <2>8, <2>10, <2>11, <2>12, <2>13, <2>14, OrderlyKept
  <1> QED BY <1>6, <1>8, <1>16, <1>17, <1>18 DEF SessionIndInv, Waiting

-----------------------------------------------------------------------------
(* The server answers a read, or does not.                                 *)

LEMMA ResolveFacts ==
    ASSUME SessionIndInv, NEW d \in Devices, NEW k \in DOMAIN gets[d], Resolve(d, k)
    PROVE  /\ gets' \in QueuesOf(Reads) /\ mainq' \in QueuesOf(Told \cup Fetched)
           /\ \E r \in Reads : Resolved(d, r)
  <1>1. gets \in QueuesOf(Reads) /\ mainq \in QueuesOf(Told \cup Fetched)
    BY DEF SessionIndInv, FlightOK
  <1>2. \A r \in Reads : ~r.each
    BY ReadFacts
  <1>3. ASSUME NEW r \in Reads
        PROVE  [then |-> r.then, res |-> [path \in r.paths |-> View(d, path)]] \in Told \cup Fetched
    <2>1. PICK u \in Users : r.paths = {UserDoc(u)} /\ r.then = FetchedUser(u)
      BY ReadFacts
    <2>2. View(d, UserDoc(u)) \in {Profile, NoDoc}
      BY ViewType DEF SessionIndInv
    <2>3. [path \in r.paths |-> View(d, path)] \in [{UserDoc(u)} -> {Profile, NoDoc}]
      BY <2>1, <2>2
    <2>4. [then |-> r.then, res |-> [path \in r.paths |-> View(d, path)]]
             \in [then : {FetchedUser(u)}, res : [{UserDoc(u)} -> {Profile, NoDoc}]]
      BY <2>1, <2>3
    <2> QED BY <2>4 DEF Fetched
  <1> QED BY <1>1, <1>2, <1>3, ResolveOne

LEMMA ResolveOK ==
    ASSUME SessionIndInv, NEW d \in Devices, NEW k \in DOMAIN gets[d], Resolve(d, k),
           UNCHANGED <<appVars, history>>
    PROVE  SessionIndInv'
  <1>1. /\ gets' \in QueuesOf(Reads) /\ mainq' \in QueuesOf(Told \cup Fetched)
        /\ \E r \in Reads : Resolved(d, r)
    BY ResolveFacts
  <1>2. PICK r \in Reads : Resolved(d, r)
    BY <1>1
  <1>3. PICK u \in Users : r.paths = {UserDoc(u)} /\ r.then = FetchedUser(u)
    BY ReadFacts
  <1>4. PICK b : b = [then |-> r.then, res |-> [path \in r.paths |-> View(d, path)]]
    OBVIOUS
  <1>5. /\ b.then = FetchedUser(u) /\ b.then.u = u
        /\ b.res[UserDoc(u)] = View(d, UserDoc(u))
    BY <1>3, <1>4 DEF FetchedUser
  <1>6. /\ docs' = docs /\ queue' = queue
        /\ \A e \in Devices \ {d} : gets'[e] = gets[e] /\ mainq'[e] = mainq[e]
        /\ Range(gets[d]) = {r} \cup Range(gets'[d])
        /\ Range(mainq'[d]) = Range(mainq[d]) \cup {b}
    BY <1>2, <1>4 DEF Resolved
  <1>7. /\ accounts' = accounts /\ current' = current /\ calls' = calls /\ tabUser' = tabUser
        /\ modal' = modal /\ ops' = ops /\ crashes' = crashes /\ hasty' = hasty /\ failed' = failed
    BY DEF appVars, history
  <1>8. SessionTypeOK'
    BY <1>6, <1>7 DEF SessionIndInv, SessionTypeOK
  <1>9. FlightOK'
    BY <1>1, <1>6, <1>7 DEF SessionIndInv, FlightOK
  <1>10. OthersKeep(d)
    BY <1>6, <1>7 DEF OthersKeep
  <1>11. \A e \in Devices : \A v : Queued(e, v)' <=> Queued(e, v)
    BY <1>6 DEF Queued
  <1>12. b \in Told \cup Fetched
    <2>1. Range(mainq'[d]) \subseteq Told \cup Fetched
      BY <1>1, InQueue
    <2> QED BY <2>1, <1>6
  <1>13. b \in Fetched
    <2>1. b.then.kind = "fetchedUser"
      BY <1>5 DEF FetchedUser
    <2> QED BY <2>1, <1>12, KindsApart
  <1>14. View(d, UserDoc(u)) # NoDoc <=> Known(d, u)
    BY ViewIsKnown DEF SessionIndInv
  <1>15. \A v : Creating(d, v)' <=> Creating(d, v)
    <2>1. \A v : b # [then |-> Created(v), res |-> TRUE]
      BY <1>5 DEF FetchedUser, Created
    <2> QED BY <2>1, <1>6 DEF Creating
  <1>16. FetchesKnown' /\ TabsKnown' /\ ProfilesDue'
    <2>1. \A c \in Range(mainq'[d]) : c \in Fetched /\ c.res[UserDoc(c.then.u)] # NoDoc =>
                         c \in Range(mainq[d]) \/ Known(d, c.then.u)'
      <3>1. Known(d, u)' <=> Known(d, u)
        BY <1>6, <1>11 DEF Known
      <3> QED BY <3>1, <1>5, <1>6, <1>14
    <2>2. \A v \in accounts' \ accounts : Creating(d, v)'
      BY <1>7
    <2>3. tabUser'[d] \in {tabUser[d], NoUser}
      BY <1>7
    <2>4. crashes' = 0 => /\ crashes = 0
                          /\ \A v \in Users : Creating(d, v) => Creating(d, v)' \/ Queued(d, v)'
      BY <1>7, <1>15
    <2> QED BY <1>6, <1>7, <1>8, <1>9, <1>10, <1>11, <2>1, <2>2, <2>3, <2>4, ProfilesKept
  <1>17. SignedInExist'
    BY <1>7 DEF SessionIndInv, SignedInExist
  <1>18. ASSUME ~hasty' PROVE Orderly'
    <2>1. Orderly
      BY <1>7, <1>18 DEF SessionIndInv, Waiting
    <2>2. FetchesOf(d, current[d])
      BY <2>1 DEF Orderly, FetchesCurrent
    <2>3. r \in Range(gets[d])
      BY <1>6
    <2>4. u = current[d]
      BY <2>2, <2>3, <1>3, UserDocs DEF FetchesOf
    <2>5. gets[d] # <<>>
      BY <2>3, RangeOfEmpty
    <2>6. Resting(d)
      BY <2>1, <2>5 DEF Orderly, OneAtATime, Phase, Calling, Answering, Storing, Quiet
    <2>7. Resting(d)'
      BY <2>6, <1>6, <1>7, <1>13 DEF Resting, OnlyFetches
    <2>8. Idle(d)' \/ ~Idle(d)
      BY <1>6, <1>7, <1>13 DEF Idle, OnlyFetches
    <2>9. FetchesOf(d, current[d])'
      BY <2>2, <2>4, <1>5, <1>6, <1>7 DEF FetchesOf
    <2>10. \A v : Pending(d, v)' <=> Pending(d, v)
      BY <1>11, <1>15 DEF Pending
    <2>11. \A v \in Users : Pending(d, v)' =>
               current'[d] = v /\ \A e \in Devices \ {d} : current[e] # v
      BY <2>1, <2>10, <1>7 DEF Orderly, PendingIsCurrent
    <2>12. \A e \in Devices \ {d} : \A v \in Users : Pending(e, v) => current'[d] # v
      BY <2>1, <1>7 DEF Orderly, PendingIsCurrent
    <2>13. modal'[d] = "none" => current'[d] # NoUser
      BY <2>1, <1>7 DEF Orderly, Asked
    <2>14. \A e \in Devices : \A v : Pending(e, v)' <=> Pending(e, v)
      BY <2>10, <1>10, OthersSame
    <2>15. \A e \in Devices : Orphan(current[e])' <=> Orphan(current[e])
      BY <2>14, <1>6, <1>7 DEF Orphan, Pending, Queued, Creating
    <2>16. ASSUME ~failed', modal'[d] = "none" PROVE TabsComing(d, current[d])' \/ Orphan(current[d])'
      <3>1. CASE Known(d, u)
        <4>1. b \in Range(mainq'[d]) /\ b.res[UserDoc(b.then.u)] # NoDoc
          BY <3>1, <1>5, <1>6, <1>14
        <4> QED BY <4>1, <1>13 DEF TabsComing
      <3>2. CASE ~Known(d, u)
        <4>1. docs[UserDoc(u)] = NoDoc /\ ~Queued(d, u)
          BY <3>2 DEF Known
        <4>2. ~Creating(d, u)
          <5>1. [then |-> Created(u), res |-> TRUE] \notin Fetched
            <6> DEFINE c == [then |-> Created(u), res |-> TRUE]
            <6>1. c.then.kind # "fetchedUser"
              BY DEF Created
            <6> HIDE DEF c
            <6>2. c \notin Fetched
              BY <6>1, KindsApart
            <6> QED BY <6>2 DEF c
          <5> QED BY <5>1, <2>6 DEF Creating, Resting, OnlyFetches
        <4>3. \A e \in Devices \ {d} : ~Pending(e, u)
          BY <2>1, <2>4 DEF Orderly, PendingIsCurrent
        <4>4. Orphan(u)
          BY <4>1, <4>2, <4>3 DEF Orphan, Pending
        <4> QED BY <4>4, <2>4, <2>15
      <3> QED BY <3>1, <3>2
    <2> QED BY <2>1, <1>7, <1>10, <2>7, <2>8, <2>9, <2>11, <2>12, <2>13, <2>15, <2>16, OrderlyKept DEF Phase
  <1> QED BY <1>8, <1>9, <1>16, <1>17, <1>18 DEF SessionIndInv, Waiting

LEMMA LoseOK ==
    ASSUME SessionIndInv, NEW d \in Devices, NEW k \in DOMAIN gets[d], Lose(d, k),
           UNCHANGED <<appVars, hasty>>, failed' = TRUE
    PROVE  SessionIndInv'
  <1>1. gets \in QueuesOf(Reads)
    BY DEF SessionIndInv, FlightOK
  <1>2. \A r \in Reads : ~r.each
    BY ReadFacts
  <1>3. gets' \in QueuesOf(Reads) /\ \E r \in Reads : Lost(d, r)
    BY <1>1, <1>2, LoseOne
  <1>4. PICK r \in Reads : Lost(d, r)
    BY <1>3
  <1>5. /\ docs' = docs /\ queue' = queue /\ mainq' = mainq
        /\ \A e \in Devices \ {d} : gets'[e] = gets[e]
        /\ Range(gets[d]) = {r} \cup Range(gets'[d])
    BY <1>4 DEF Lost
  <1>6. /\ accounts' = accounts /\ current' = current /\ calls' = calls /\ tabUser' = tabUser
        /\ modal' = modal /\ ops' = ops /\ crashes' = crashes /\ hasty' = hasty
    BY DEF appVars
  <1>7. SessionTypeOK'
    BY <1>5, <1>6 DEF SessionIndInv, SessionTypeOK
  <1>8. FlightOK'
    BY <1>3, <1>5, <1>6 DEF SessionIndInv, FlightOK
  <1>9. OthersKeep(d)
    BY <1>5, <1>6 DEF OthersKeep
  <1>10. FetchesKnown' /\ TabsKnown' /\ ProfilesDue'
    BY DEF FetchesKnown, TabsKnown, ProfilesDue
  <1>11. SignedInExist'
    BY <1>6 DEF SessionIndInv, SignedInExist
  <1>12. ASSUME ~hasty' PROVE Orderly'
    <2>1. Orderly
      BY <1>6, <1>12 DEF SessionIndInv, Waiting
    <2>2. gets[d] # <<>>
      BY <1>5, RangeOfEmpty
    <2>3. Resting(d)
      BY <2>1, <2>2 DEF Orderly, OneAtATime, Phase, Calling, Answering, Storing, Quiet
    <2>4. Resting(d)'
      BY <2>3, <1>5, <1>6 DEF Resting, OnlyFetches
    <2>5. Idle(d)' \/ ~Idle(d)
      BY <1>5, <1>6 DEF Idle, OnlyFetches
    <2>6. FetchesOf(d, current[d])'
      BY <2>1, <1>5, <1>6 DEF Orderly, FetchesCurrent, FetchesOf
    <2>7. \A v : Pending(d, v)' <=> Pending(d, v)
      BY <1>5 DEF Pending, Queued, Creating
    <2>8. \A v \in Users : Pending(d, v)' =>
               current'[d] = v /\ \A e \in Devices \ {d} : current[e] # v
      BY <2>1, <2>7, <1>6 DEF Orderly, PendingIsCurrent
    <2>9. \A e \in Devices \ {d} : \A v \in Users : Pending(e, v) => current'[d] # v
      BY <2>1, <1>6 DEF Orderly, PendingIsCurrent
    <2>10. modal'[d] = "none" => current'[d] # NoUser
      BY <2>1, <1>6 DEF Orderly, Asked
    <2> QED BY <2>1, <1>9, <2>4, <2>5, <2>6, <2>8, <2>9, <2>10, OrderlyKept DEF Phase
  <1> QED BY <1>7, <1>8, <1>10, <1>11, <1>12 DEF SessionIndInv, Waiting

LEMMA DeliverOK ==
    ASSUME SessionIndInv, NEW d \in Devices, Deliver(d)
    PROVE  SessionIndInv'
  <1>1. UNCHANGED <<appVars, hasty>>
    BY DEF Deliver
  <1>2. failed \in BOOLEAN
    BY DEF SessionIndInv, SessionTypeOK
  <1>3. CASE Serve(d) /\ UNCHANGED failed
    <2>1. CASE Commit(d)
      BY <1>1, <1>2, <1>3, <2>1, AnswerOK DEF Commit
    <2>2. ASSUME NEW k \in DOMAIN gets[d], Resolve(d, k) PROVE SessionIndInv'
      BY <1>1, <1>3, <2>2, ResolveOK DEF history
    <2> QED BY <1>3, <2>1, <2>2 DEF Serve
  <1>4. CASE Fail(d) /\ failed' = TRUE
    <2>1. CASE Refuse(d)
      BY <1>1, <1>4, <2>1, AnswerOK DEF Refuse
    <2>2. ASSUME NEW k \in DOMAIN gets[d], Lose(d, k) PROVE SessionIndInv'
      BY <1>1, <1>4, <2>2, LoseOK
    <2> QED BY <1>4, <2>1, <2>2 DEF Fail
  <1> QED BY <1>3, <1>4 DEF Deliver

-----------------------------------------------------------------------------
(* Firebase Auth and Storage answer.                                       *)

LEMMA AuthAnswerOK ==
    ASSUME SessionIndInv, NEW d \in Devices, NEW k \in DOMAIN calls[d], AuthAnswer(d, k)
    PROVE  SessionIndInv'
  <1>1. PICK c : c = calls[d][k]
    OBVIOUS
  <1>2. calls \in QueuesOf(AuthBlocks) /\ mainq \in QueuesOf(Told \cup Fetched)
    BY DEF SessionIndInv, FlightOK
  <1>3. calls[d] \in Seq(AuthBlocks) /\ mainq[d] \in Seq(Told \cup Fetched)
    BY <1>2, InQueue
  <1>4. /\ c \in AuthBlocks /\ RemoveAt(calls[d], k) \in Seq(AuthBlocks)
        /\ Range(calls[d]) = {c} \cup Range(RemoveAt(calls[d], k))
    BY <1>1, <1>3, RangeOfRemoveAt
  <1>5. PICK ok \in BOOLEAN :
        /\ ok => Possible(c)
        /\ ~ok => Failures \/ ~Possible(c)
        /\ accounts' = IF ok /\ c.kind = "created" THEN accounts \cup {c.u} ELSE accounts
        /\ current' = IF ok /\ c.kind \in {"signedIn", "created"}
                      THEN [current EXCEPT ![d] = c.u] ELSE current
        /\ calls' = [calls EXCEPT ![d] = RemoveAt(@, k)]
        /\ mainq' = [mainq EXCEPT ![d] = Append(@, [then |-> c, res |-> ok])]
        /\ failed' = (failed \/ (~ok /\ Possible(c)))
        /\ UNCHANGED <<docs, queue, gets, tabUser, modal, ops, crashes, hasty>>
    BY <1>1 DEF AuthAnswer
  <1>6. PICK b : b = [then |-> c, res |-> ok]
    OBVIOUS
  <1>7. b \in Told /\ b.then = c /\ b.res = ok
    BY <1>4, <1>6 DEF Told
  <1>8. /\ c.u \in Users /\ c = [kind |-> c.kind, u |-> c.u]
        /\ c.kind \in {"signedIn", "uploaded", "created", "resetSent"}
    <2>1. \E u \in Users : c \in {SignedIn(u), Uploaded(u), Created(u), ResetSent(u)}
      BY <1>4 DEF AuthBlocks
    <2> QED BY <2>1 DEF SignedIn, Uploaded, Created, ResetSent
  <1>9. /\ Append(mainq[d], b) \in Seq(Told \cup Fetched)
        /\ Range(Append(mainq[d], b)) = Range(mainq[d]) \cup {b}
    <2>1. b \in Told \cup Fetched
      BY <1>7
    <2> QED BY <1>3, <2>1, RangeOfAppend
  <1>10. /\ mainq' \in QueuesOf(Told \cup Fetched) /\ mainq'[d] = Append(mainq[d], b)
         /\ \A e \in Devices \ {d} : mainq'[e] = mainq[e]
    BY <1>2, <1>5, <1>6, <1>9 DEF QueuesOf
  <1>11. /\ calls' \in QueuesOf(AuthBlocks) /\ calls'[d] = RemoveAt(calls[d], k)
         /\ \A e \in Devices \ {d} : calls'[e] = calls[e]
    BY <1>2, <1>4, <1>5 DEF QueuesOf
  <1>12. /\ docs' = docs /\ queue' = queue /\ gets' = gets /\ tabUser' = tabUser
         /\ modal' = modal /\ ops' = ops /\ crashes' = crashes /\ hasty' = hasty
    BY <1>5
  <1>13. FlightOK'
    BY <1>10, <1>11, <1>12 DEF SessionIndInv, FlightOK
  <1>14. /\ current \in [Devices -> Users \cup {NoUser}] /\ accounts \subseteq Users
         /\ failed \in BOOLEAN
    BY DEF SessionIndInv, SessionTypeOK
  <1>15. /\ current' \in [Devices -> Users \cup {NoUser}] /\ accounts' \subseteq Users
         /\ \A e \in Devices \ {d} : current'[e] = current[e]
         /\ current'[d] = IF ok /\ c.kind \in {"signedIn", "created"} THEN c.u ELSE current[d]
    BY <1>5, <1>8, <1>14
  <1>16. failed' = (failed \/ (~ok /\ Possible(c)))
    BY <1>5
  <1>17. failed' \in BOOLEAN
    BY <1>16
  <1>18. SessionTypeOK'
    BY <1>12, <1>15, <1>17 DEF SessionIndInv, SessionTypeOK
  <1>19. OthersKeep(d)
    BY <1>10, <1>11, <1>12, <1>15 DEF OthersKeep
  <1>20. \A e \in Devices : \A v : Queued(e, v)' <=> Queued(e, v)
    BY <1>12 DEF Queued
  <1>21. Range(mainq'[d]) = Range(mainq[d]) \cup {b}
    BY <1>9, <1>10
  <1>22. b \notin Fetched
    BY <1>7, KindsApart
  <1>23. ok /\ c.kind = "created" => c = Created(c.u) /\ c.u \notin accounts
    BY <1>5, <1>8 DEF Possible, Created
  <1>24. \A v \in Users : Creating(d, v)' <=> Creating(d, v) \/ (ok /\ c = Created(v))
    BY <1>6, <1>7, <1>21 DEF Creating
  <1>25. FetchesKnown' /\ TabsKnown' /\ ProfilesDue'
    <2>1. ~failed' => ~failed
      BY <1>5
    <2>2. ASSUME NEW v \in accounts' \ accounts PROVE Creating(d, v)'
      <3>1. ok /\ c.kind = "created" /\ v = c.u
        BY <1>5
      <3>2. b = [then |-> Created(v), res |-> TRUE]
        BY <3>1, <1>6, <1>23
      <3> QED BY <3>2, <1>21 DEF Creating
    <2>3. \A a \in Range(mainq'[d]) : a \in Fetched => a \in Range(mainq[d])
      BY <1>21, <1>22
    <2>4. tabUser'[d] \in {tabUser[d], NoUser}
      BY <1>12
    <2>5. crashes' = 0 => /\ crashes = 0
                          /\ \A v \in Users : Creating(d, v) => Creating(d, v)' \/ Queued(d, v)'
      BY <1>12, <1>24
    <2> QED BY <1>12, <1>13, <1>18, <1>19, <1>20, <2>1, <2>2, <2>3, <2>4, <2>5, ProfilesKept
  <1>26. SignedInExist'
    <2>1. ok /\ c.kind = "signedIn" => c.u \in accounts
      BY <1>5 DEF Possible
    <2>2. accounts \subseteq accounts'
      BY <1>5
    <2>3. ok /\ c.kind \in {"signedIn", "created"} => c.u \in accounts'
      BY <2>1, <2>2, <1>5
    <2>4. \A e \in Devices : current[e] \in accounts' \cup {NoUser}
      BY <2>2 DEF SessionIndInv, SignedInExist
    <2> QED BY <1>15, <2>3, <2>4 DEF SignedInExist
  <1>27. ASSUME ~hasty' PROVE Orderly'
    <2>1. Orderly
      BY <1>12, <1>27 DEF SessionIndInv, Waiting
    <2>2. calls[d] # <<>>
      BY <1>3
    <2>3. Calling(d)
      BY <2>1, <2>2 DEF Orderly, OneAtATime, Phase, Resting, Answering, Storing
    <2>4. PICK a \in AuthBlocks : calls[d] = <<a>>
      BY <2>3 DEF Calling
    <2>5. /\ modal[d] # "none" /\ queue[d] = <<>> /\ gets[d] = <<>> /\ mainq[d] = <<>>
      BY <2>3 DEF Calling, Quiet
    <2>6. calls'[d] = <<>>
      <3>1. k = 1 /\ RemoveAt(<<a>>, 1) = <<>>
        BY <2>4 DEF RemoveAt
      <3> QED BY <3>1, <2>4, <1>11
    <2>7. mainq'[d] = <<b>>
      <3>1. Append(<<>>, b) = <<b>>
        OBVIOUS
      <3> QED BY <3>1, <2>5, <1>10
    <2>8. Answering(d)'
      <3>1. b.res /\ b.then.kind \in {"signedIn", "created", "registered"} => current'[d] # NoUser
        BY <1>7, <1>8, <1>15, SessionAssumption
      <3> QED BY <3>1, <2>5, <2>6, <2>7, <1>7, <1>12 DEF Answering
    <2>9. ~Idle(d)
      BY <2>2 DEF Idle
    <2>10. FetchesOf(d, current[d])'
      <3>1. Range(gets'[d]) = {} /\ Range(mainq'[d]) = {b}
        BY <2>5, <2>7, <1>12, RangeOfEmpty, RangeOfOne
      <3> QED BY <3>1, <1>22 DEF FetchesOf
    <2>11. \A v \in Users : ~Pending(d, v)
      BY <2>5, RangeOfEmpty DEF Pending, Queued, Creating
    <2>12. \A v \in Users : Pending(d, v)' => ok /\ c = Created(v)
      BY <2>11, <1>20, <1>24 DEF Pending
    <2>13. \A v \in Users : Pending(d, v)' =>
               current'[d] = v /\ \A e \in Devices \ {d} : current[e] # v
      <3>1. ASSUME NEW v \in Users, Pending(d, v)'
            PROVE  current'[d] = v /\ \A e \in Devices \ {d} : current[e] # v
        <4>1. ok /\ c = Created(v)
          BY <2>12, <3>1
        <4>2. c.kind = "created" /\ c.u = v
          BY <4>1 DEF Created
        <4>3. v \notin accounts
          BY <4>1, <4>2, <1>23
        <4>4. v # NoUser
          BY SessionAssumption
        <4> QED BY <4>1, <4>2, <4>3, <4>4, <1>15 DEF SessionIndInv, SignedInExist
      <3> QED BY <3>1
    <2>14. \A e \in Devices \ {d} : \A v \in Users : Pending(e, v) => current'[d] # v
      <3>1. ASSUME NEW e \in Devices \ {d}, NEW v \in Users, Pending(e, v) PROVE FALSE
        <4>1. ~Idle(e)
          <5>1. CASE Queued(e, v)
            BY <5>1 DEF Queued, Idle
          <5>2. CASE Creating(e, v)
            <6>1. PICK a1 : a1 = [then |-> Created(v), res |-> TRUE]
              OBVIOUS
            <6>2. a1.then.kind # "fetchedUser"
              BY <6>1 DEF Created
            <6>3. a1 \notin Fetched
              BY <6>2, KindsApart
            <6> QED BY <5>2, <6>1, <6>3 DEF Creating, Idle, OnlyFetches
          <5> QED BY <3>1, <5>1, <5>2 DEF Pending
        <4> QED BY <4>1, <2>1, <2>9 DEF Orderly, OneAtATime
      <3> QED BY <3>1
    <2>15. modal'[d] # "none"
      BY <2>5, <1>12
    <2>16. ASSUME NEW e \in Devices \ {d}, modal[e] = "none", Orphan(current[e])
           PROVE  Orphan(current[e])'
      <3>1. PICK v \in Users : v = current[e]
        BY <2>1, <2>16 DEF Orderly, Asked, SessionIndInv, SessionTypeOK
      <3>2. Orphan(v) /\ current'[e] = v
        BY <2>16, <3>1, <1>15
      <3>3. v \in accounts
        BY <3>1, SessionAssumption DEF SessionIndInv, SignedInExist
      <3>4. ~Pending(d, v)'
        <4>1. SUFFICES ASSUME Pending(d, v)' PROVE FALSE
          OBVIOUS
        <4>2. ok /\ c = Created(v)
          BY <4>1, <2>12
        <4>3. c.kind = "created" /\ c.u = v
          BY <4>2 DEF Created
        <4> QED BY <4>2, <4>3, <3>3, <1>23
      <3>5. docs'[UserDoc(v)] = NoDoc
        BY <3>2, <1>12 DEF Orphan
      <3>6. docs'[UserDoc(v)] = NoDoc /\ \A f \in Devices : ~Pending(f, v)'
        BY <1>19, <3>2, <3>4, <3>5, OrphanKept
      <3> QED BY <3>2, <3>6 DEF Orphan, Pending, Queued, Creating
    <2>17. ~failed' => ~failed
      BY <1>5
    <2> QED BY <2>1, <1>19, <2>8, <2>9, <2>10, <2>13, <2>14, <2>15, <2>16, <2>17, OrderlyKept DEF Phase
  <1> QED BY <1>13, <1>18, <1>25, <1>26, <1>27 DEF SessionIndInv, Waiting

-----------------------------------------------------------------------------
(* Touches.                                                                *)

\* A touch changes d's calls, screen and session only, and leaves it on one of
\* the screens over the tabs.
LEMMA TouchKept ==
    ASSUME SessionIndInv, NEW d \in Devices,
           hasty' = (hasty \/ \E e \in Devices : ~Settled(e)),
           UNCHANGED <<docs, queue, gets, mainq, accounts, tabUser, crashes, failed>>,
           SessionTypeOK', calls' \in QueuesOf(AuthBlocks),
           calls'[d] = calls[d] \/ \E b \in AuthBlocks : calls'[d] = Append(calls[d], b),
           modal'[d] # "none", current'[d] \in {current[d], NoUser},
           \A e \in Devices \ {d} : calls'[e] = calls[e] /\ modal'[e] = modal[e] /\ current'[e] = current[e]
    PROVE  SessionIndInv'
  <1>1. FlightOK'
    BY DEF SessionIndInv, FlightOK
  <1>2. OthersKeep(d)
    BY DEF OthersKeep
  <1>3. FetchesKnown' /\ TabsKnown' /\ ProfilesDue'
    BY DEF SessionIndInv, FetchesKnown, TabsKnown, ProfilesDue, Known, Queued, Creating
  <1>4. SignedInExist'
    BY DEF SessionIndInv, SignedInExist
  <1>5. ASSUME ~hasty' PROVE Orderly'
    <2>1. Orderly /\ \A e \in Devices : Settled(e)
      BY <1>5 DEF SessionIndInv, Waiting
    <2>2. ASSUME NEW e \in Devices
          PROVE  /\ calls[e] = <<>> /\ queue[e] = <<>> /\ gets[e] = <<>> /\ mainq[e] = <<>>
                 /\ Range(queue[e]) = {} /\ Range(gets[e]) = {} /\ Range(mainq[e]) = {}
                 /\ Idle(e) /\ \A v : ~Pending(e, v)
      <3>1. calls[e] = <<>> /\ queue[e] = <<>> /\ gets[e] = <<>> /\ mainq[e] = <<>>
        BY <2>1 DEF Settled, Quiet
      <3>2. Range(queue[e]) = {} /\ Range(gets[e]) = {} /\ Range(mainq[e]) = {}
        BY <3>1, RangeOfEmpty
      <3> QED BY <3>1, <3>2 DEF Idle, OnlyFetches, Pending, Queued, Creating
    <2>3. Phase(d)'
      <3>1. CASE calls'[d] = calls[d]
        <4>1. Resting(d)'
          BY <3>1, <2>2 DEF Resting, OnlyFetches
        <4> QED BY <4>1 DEF Phase
      <3>2. ASSUME NEW b \in AuthBlocks, calls'[d] = Append(calls[d], b) PROVE Phase(d)'
        <4>1. calls'[d] = <<b>>
          <5>1. Append(<<>>, b) = <<b>>
            OBVIOUS
          <5> QED BY <5>1, <3>2, <2>2
        <4>2. Calling(d)'
          BY <4>1, <2>2 DEF Calling, Quiet
        <4> QED BY <4>2 DEF Phase
      <3> QED BY <3>1, <3>2
    <2>4. FetchesOf(d, current[d])'
      BY <2>2 DEF FetchesOf
    <2>5. \A e \in Devices : \A v : ~Pending(e, v)'
      BY <2>2 DEF Pending, Queued, Creating
    <2>6. \A e \in Devices : \A v : ~Pending(e, v)
      BY <2>2
    <2>7. ASSUME NEW e \in Devices \ {d}, Orphan(current[e]) PROVE Orphan(current[e])'
      BY <2>5, <2>7 DEF Orphan, Pending, Queued, Creating
    <2>8. \A e \in Devices \ {d} : Idle(e)
      BY <2>2
    <2> QED BY <2>1, <1>2, <2>3, <2>4, <2>5, <2>6, <2>7, <2>8, OrderlyKept
  <1> QED BY <1>1, <1>3, <1>4, <1>5 DEF SessionIndInv, Waiting

\* A touch that calls Auth or Storage.
LEMMA CallKept ==
    ASSUME SessionIndInv, NEW d \in Devices, NEW b \in AuthBlocks,
           hasty' = (hasty \/ \E e \in Devices : ~Settled(e)), UNCHANGED failed,
           Tap, Call(d, b), modal[d] # "none",
           UNCHANGED <<docs, queue, gets, mainq, accounts, current, tabUser, modal, crashes>>
    PROVE  SessionIndInv'
  <1>1. calls \in QueuesOf(AuthBlocks)
    BY DEF SessionIndInv, FlightOK
  <1>2. calls' = [calls EXCEPT ![d] = Append(calls[d], b)]
    BY DEF Call
  <1>3. Append(calls[d], b) \in Seq(AuthBlocks)
    <2>1. calls[d] \in Seq(AuthBlocks)
      BY <1>1, InQueue
    <2> QED BY <2>1, RangeOfAppend
  <1>4. /\ calls' \in QueuesOf(AuthBlocks) /\ calls'[d] = Append(calls[d], b)
        /\ \A e \in Devices \ {d} : calls'[e] = calls[e]
    BY <1>1, <1>2, <1>3 DEF QueuesOf
  <1>5. ops' \in 0..MaxOps
    BY SessionAssumption DEF Tap, SessionIndInv, SessionTypeOK
  <1>6. hasty' \in BOOLEAN
    OBVIOUS
  <1>7. SessionTypeOK'
    BY <1>5, <1>6 DEF SessionIndInv, SessionTypeOK
  <1> QED BY <1>4, <1>7, TouchKept

LEMMA NavigateKept ==
    ASSUME SessionIndInv, NEW d \in Devices, NEW from, NEW to \in Modals \ {"none"},
           hasty' = (hasty \/ \E e \in Devices : ~Settled(e)), UNCHANGED failed,
           Navigate(d, from, to)
    PROVE  SessionIndInv'
  <1>1. /\ modal' = [modal EXCEPT ![d] = to]
        /\ UNCHANGED <<docs, queue, gets, mainq, accounts, current, calls, tabUser, ops, crashes>>
    BY DEF Navigate
  <1>2. modal \in [Devices -> Modals]
    BY DEF SessionIndInv, SessionTypeOK
  <1>3. /\ modal' \in [Devices -> Modals] /\ modal'[d] = to
        /\ \A e \in Devices \ {d} : modal'[e] = modal[e]
    BY <1>1, <1>2
  <1>4. hasty' \in BOOLEAN
    OBVIOUS
  <1>5. SessionTypeOK'
    BY <1>1, <1>3, <1>4 DEF SessionIndInv, SessionTypeOK
  <1>6. calls' \in QueuesOf(AuthBlocks)
    BY <1>1 DEF SessionIndInv, FlightOK
  <1> QED BY <1>1, <1>3, <1>5, <1>6, TouchKept

LEMMA LogoutKept ==
    ASSUME SessionIndInv, NEW d \in Devices,
           hasty' = (hasty \/ \E e \in Devices : ~Settled(e)), UNCHANGED failed,
           handleLogout(d)
    PROVE  SessionIndInv'
  <1>1. /\ Tap /\ current' = [current EXCEPT ![d] = NoUser] /\ modal' = [modal EXCEPT ![d] = "login"]
        /\ UNCHANGED <<docs, queue, gets, mainq, accounts, calls, tabUser, crashes>>
    BY DEF handleLogout
  <1>2. modal \in [Devices -> Modals] /\ current \in [Devices -> Users \cup {NoUser}]
    BY DEF SessionIndInv, SessionTypeOK
  <1>3. /\ modal' \in [Devices -> Modals] /\ modal'[d] = "login"
        /\ \A e \in Devices \ {d} : modal'[e] = modal[e]
    BY <1>1, <1>2 DEF Modals
  <1>4. /\ current' \in [Devices -> Users \cup {NoUser}] /\ current'[d] = NoUser
        /\ \A e \in Devices \ {d} : current'[e] = current[e]
    BY <1>1, <1>2
  <1>5. ops' \in 0..MaxOps
    BY <1>1, SessionAssumption DEF Tap, SessionIndInv, SessionTypeOK
  <1>6. hasty' \in BOOLEAN
    OBVIOUS
  <1>7. SessionTypeOK'
    BY <1>1, <1>3, <1>4, <1>5, <1>6 DEF SessionIndInv, SessionTypeOK
  <1>8. calls' \in QueuesOf(AuthBlocks)
    BY <1>1 DEF SessionIndInv, FlightOK
  <1> QED BY <1>1, <1>3, <1>4, <1>7, <1>8, TouchKept

LEMMA TouchOK ==
    ASSUME SessionIndInv, NEW d \in Devices, Touch(d)
    PROVE  SessionIndInv'
  <1>1. hasty' = (hasty \/ \E e \in Devices : ~Settled(e)) /\ UNCHANGED failed
    BY DEF Touch
  <1>2. ASSUME NEW u \in Users, handleLogin(d, u) PROVE SessionIndInv'
    <2>1. SignedIn(u) \in AuthBlocks
      BY DEF AuthBlocks
    <2> QED BY <1>1, <1>2, <2>1, CallKept DEF handleLogin
  <1>3. ASSUME NEW u \in Users, handleSignUp(d, u) PROVE SessionIndInv'
    <2>1. Uploaded(u) \in AuthBlocks
      BY DEF AuthBlocks
    <2> QED BY <1>1, <1>3, <2>1, CallKept DEF handleSignUp
  <1>4. ASSUME NEW u \in Users, handleResetPassword(d, u) PROVE SessionIndInv'
    <2>1. ResetSent(u) \in AuthBlocks
      BY DEF AuthBlocks
    <2> QED BY <1>1, <1>4, <2>1, CallKept DEF handleResetPassword
  <1>5. \A m \in {"login", "register", "reset"} : m \in Modals \ {"none"}
    BY DEF Modals
  <1>6. CASE handleShowSignUp(d)
    BY <1>1, <1>5, <1>6, NavigateKept DEF handleShowSignUp
  <1>7. CASE handleShowLogin(d)
    BY <1>1, <1>5, <1>7, NavigateKept DEF handleShowLogin
  <1>8. CASE handleShowForgotPassword(d)
    BY <1>1, <1>5, <1>8, NavigateKept DEF handleShowForgotPassword
  <1>9. CASE handleDismissal(d)
    BY <1>1, <1>5, <1>9, NavigateKept DEF handleDismissal
  <1>10. CASE handleLogout(d)
    BY <1>1, <1>10, LogoutKept
  <1> QED BY <1>2, <1>3, <1>4, <1>6, <1>7, <1>8, <1>9, <1>10 DEF Touch

-----------------------------------------------------------------------------
(* Completion blocks.                                                      *)

LEMMA IdleNotPending ==
    ASSUME NEW e \in Devices, Idle(e)
    PROVE  \A v : ~Pending(e, v)
  <1>1. ASSUME NEW v PROVE ~Creating(e, v)
    <2>1. PICK b : b = [then |-> Created(v), res |-> TRUE]
      OBVIOUS
    <2>2. b.then.kind # "fetchedUser"
      BY <2>1 DEF Created
    <2>3. b \notin Fetched
      BY <2>2, KindsApart
    <2> QED BY <2>1, <2>3 DEF Creating, Idle, OnlyFetches
  <1> QED BY <1>1 DEF Pending, Queued, Idle

LEMMA TakeFacts ==
    ASSUME SessionIndInv, NEW d \in Devices, mainq[d] # <<>>,
           NEW ws \in Seq(Writes), NEW rs \in Seq(Reads), Take(d, ws, rs)
    PROVE  /\ queue' \in QueuesOf(Writes) /\ gets' \in QueuesOf(Reads)
           /\ mainq' \in QueuesOf(Told \cup Fetched)
           /\ Head(mainq[d]) \in Told \cup Fetched
           /\ Taken(d, Head(mainq[d]), ws, rs)
  <1>1. /\ queue \in QueuesOf(Writes) /\ gets \in QueuesOf(Reads)
        /\ mainq \in QueuesOf(Told \cup Fetched)
    BY DEF SessionIndInv, FlightOK
  <1> QED BY <1>1, TakeOne

\* When users wait, the answer of a service is all there is.
LEMMA TellFacts ==
    ASSUME SessionIndInv, NEW d \in Devices, ~hasty, mainq[d] # <<>>, Head(mainq[d]) \in Told,
           NEW ws \in Seq(Writes), NEW rs \in Seq(Reads), Take(d, ws, rs)
    PROVE  /\ modal[d] # "none" /\ calls[d] = <<>>
           /\ queue'[d] = ws /\ gets'[d] = rs /\ mainq'[d] = <<>>
           /\ ~Idle(d) /\ \A e \in Devices \ {d} : Idle(e)
           /\ Head(mainq[d]).res /\ Head(mainq[d]).then.kind \in {"signedIn", "created", "registered"}
                => current[d] # NoUser
  <1>1. Orderly
    BY DEF SessionIndInv, Waiting
  <1>2. /\ queue \in QueuesOf(Writes) /\ gets \in QueuesOf(Reads)
        /\ mainq \in QueuesOf(Told \cup Fetched)
    BY DEF SessionIndInv, FlightOK
  <1>3. Head(mainq[d]) \in Range(mainq[d]) /\ Head(mainq[d]) \notin Fetched
    <2>1. mainq[d] \in Seq(Told \cup Fetched)
      BY <1>2, InQueue
    <2>2. Head(mainq[d]) \in Range(mainq[d])
      BY <2>1, RangeOfTail
    <2> QED BY <2>2, KindsApart
  <1>4. ~OnlyFetches(d)
    BY <1>3 DEF OnlyFetches
  <1>5. Answering(d)
    BY <1>1, <1>4 DEF Orderly, OneAtATime, Phase, Resting, Calling, Storing, Quiet
  <1>6. PICK b \in Told :
          /\ mainq[d] = <<b>>
          /\ b.res /\ b.then.kind \in {"signedIn", "created", "registered"} => current[d] # NoUser
    BY <1>5 DEF Answering
  <1>7. Head(mainq[d]) = b /\ Tail(mainq[d]) = <<>>
    BY <1>6
  <1>8. queue[d] = <<>> /\ gets[d] = <<>> /\ calls[d] = <<>> /\ modal[d] # "none"
    BY <1>5 DEF Answering
  <1>9. mainq'[d] = <<>>
    BY <1>2, <1>7 DEF Take, QueuesOf
  <1>10. queue'[d] = ws
    <2>1. queue'[d] = queue[d] \o ws
      BY <1>2 DEF Take, QueuesOf
    <2> QED BY <2>1, <1>8, ConcatEmptySeq
  <1>11. gets'[d] = rs
    <2>1. gets'[d] = gets[d] \o rs
      BY <1>2 DEF Take, QueuesOf
    <2> QED BY <2>1, <1>8, ConcatEmptySeq
  <1>12. ~Idle(d)
    BY <1>4 DEF Idle
  <1>13. \A e \in Devices \ {d} : Idle(e)
    BY <1>1, <1>12 DEF Orderly, OneAtATime
  <1> QED BY <1>6, <1>7, <1>8, <1>9, <1>10, <1>11, <1>12, <1>13

\* A block that ends a call to a service.
LEMMA TellKept ==
    ASSUME SessionIndInv, NEW d \in Devices, mainq[d] # <<>>, NEW b, b = Head(mainq[d]), b \in Told,
           NEW ws \in Seq(Writes), NEW rs \in Seq(Reads), Take(d, ws, rs),
           UNCHANGED <<accounts, current, tabUser, crashes, hasty, failed>>,
           SessionTypeOK', calls' \in QueuesOf(AuthBlocks),
           \A e \in Devices \ {d} : calls'[e] = calls[e] /\ modal'[e] = modal[e],
           \A u \in Users : b = [then |-> Created(u), res |-> TRUE] => Queued(d, u)',
           \A u \in Users : (\E w \in Range(ws) : UserDoc(u) \in w.paths) =>
                               b = [then |-> Created(u), res |-> TRUE],
           ~hasty => /\ Phase(d)' /\ FetchesOf(d, current[d])'
                     /\ modal'[d] = "none" => current'[d] # NoUser /\ TabsComing(d, current[d])'
    PROVE  SessionIndInv'
  <1>1. /\ queue' \in QueuesOf(Writes) /\ gets' \in QueuesOf(Reads)
        /\ mainq' \in QueuesOf(Told \cup Fetched)
        /\ Taken(d, b, ws, rs)
    BY TakeFacts
  <1>2. /\ docs' = docs
        /\ \A e \in Devices \ {d} : queue'[e] = queue[e] /\ gets'[e] = gets[e] /\ mainq'[e] = mainq[e]
        /\ Range(mainq[d]) = {b} \cup Range(mainq'[d])
        /\ Range(queue'[d]) = Range(queue[d]) \cup Range(ws)
        /\ Range(gets'[d]) = Range(gets[d]) \cup Range(rs)
    BY <1>1 DEF Taken
  <1>3. FlightOK'
    BY <1>1 DEF FlightOK
  <1>4. OthersKeep(d)
    BY <1>2 DEF OthersKeep
  <1>5. \A u \in Users : Creating(d, u) => Creating(d, u)' \/ Queued(d, u)'
    BY <1>2 DEF Creating
  <1>6. \A u : Queued(d, u) => Queued(d, u)'
    BY <1>2 DEF Queued
  <1>7. FetchesKnown' /\ TabsKnown' /\ ProfilesDue'
    <2>1. \A a \in Range(mainq'[d]) : a \in Range(mainq[d])
      BY <1>2
    <2> QED BY <1>2, <1>3, <1>4, <1>5, <1>6, <2>1, ProfilesKept
  <1>8. SignedInExist'
    BY DEF SessionIndInv, SignedInExist
  <1>9. ASSUME ~hasty' PROVE Orderly'
    <2>1. Orderly /\ ~hasty
      BY <1>9 DEF SessionIndInv, Waiting
    <2>2. ~Idle(d) /\ \A e \in Devices \ {d} : Idle(e)
      BY <2>1, TellFacts
    <2>3. \A e \in Devices \ {d} : \A v : ~Pending(e, v)
      BY <2>2, IdleNotPending
    <2>4. ASSUME NEW u \in Users, Pending(d, u)' PROVE Pending(d, u)
      <3>1. CASE Creating(d, u)'
        BY <3>1, <1>2 DEF Creating, Pending
      <3>2. CASE Queued(d, u)'
        <4>1. CASE Queued(d, u)
          BY <4>1 DEF Pending
        <4>2. CASE \E w \in Range(ws) : UserDoc(u) \in w.paths
          <5>1. b = [then |-> Created(u), res |-> TRUE]
            BY <4>2
          <5> QED BY <5>1, <1>2 DEF Creating, Pending
        <4> QED BY <3>2, <4>1, <4>2, <1>2 DEF Queued
      <3> QED BY <2>4, <3>1, <3>2 DEF Pending
    <2>5. \A u \in Users : Pending(d, u)' =>
               current'[d] = u /\ \A e \in Devices \ {d} : current[e] # u
      BY <2>1, <2>4 DEF Orderly, PendingIsCurrent
    <2>6. ASSUME NEW e \in Devices \ {d}, modal[e] = "none", Orphan(current[e])
          PROVE  Orphan(current[e])'
      <3>1. PICK v \in Users : v = current[e]
        BY <2>1, <2>6 DEF Orderly, Asked, SessionIndInv, SessionTypeOK
      <3>2. Orphan(v) /\ current'[e] = v
        BY <2>6, <3>1
      <3>3. docs'[UserDoc(v)] = NoDoc
        BY <3>2, <1>2 DEF Orphan
      <3>4. docs'[UserDoc(v)] = NoDoc /\ \A f \in Devices : ~Pending(f, v)'
        BY <1>4, <2>4, <3>2, <3>3, OrphanKept
      <3> QED BY <3>2, <3>4 DEF Orphan, Pending, Queued, Creating
    <2>7. /\ Phase(d)' /\ FetchesOf(d, current[d])'
          /\ modal'[d] = "none" => current'[d] # NoUser /\ TabsComing(d, current[d])'
      BY <2>1
    <2>8. \A e \in Devices \ {d} : \A u \in Users : Pending(e, u) => current'[d] # u
      BY <2>3
    <2>9. ~failed' => ~failed
      OBVIOUS
    <2> QED BY <2>1, <1>4, <2>2, <2>5, <2>6, <2>7, <2>8, <2>9, OrderlyKept
  <1> QED BY <1>3, <1>7, <1>8, <1>9 DEF SessionIndInv, Waiting

\* A block of a service.
LEMMA DueTold ==
    ASSUME SessionIndInv, NEW d \in Devices,
           NEW kind \in {"signedIn", "uploaded", "created", "resetSent", "registered"}, Due(d, kind)
    PROVE  /\ mainq[d] # <<>> /\ Head(mainq[d]) \in Told
           /\ Head(mainq[d]).then.kind = kind /\ Head(mainq[d]).then.u \in Users
           /\ Head(mainq[d]).res \in BOOLEAN
           /\ Head(mainq[d]) = [then |-> Head(mainq[d]).then, res |-> Head(mainq[d]).res]
           /\ Head(mainq[d]).then = [kind |-> kind, u |-> Head(mainq[d]).then.u]
  <1>1. mainq[d] # <<>> /\ Head(mainq[d]).then.kind = kind
    BY DEF Due
  <1>2. mainq[d] \in Seq(Told \cup Fetched)
    BY InQueue DEF SessionIndInv, FlightOK
  <1>3. Head(mainq[d]) \in Told \cup Fetched
    BY <1>1, <1>2, RangeOfTail
  <1>4. Head(mainq[d]) \in Told
    BY <1>1, <1>3, KindsApart
  <1> QED BY <1>1, <1>4, Blocks

\* A block that leaves all as it is.
LEMMA NothingMore ==
    ASSUME SessionIndInv, NEW d \in Devices,
           NEW kind \in {"signedIn", "uploaded", "created", "resetSent", "registered"}, Due(d, kind),
           kind = "created" => ~Result(d),
           Take(d, <<>>, <<>>), UNCHANGED <<appVars, history>>
    PROVE  SessionIndInv'
  <1>1. PICK b : b = Head(mainq[d])
    OBVIOUS
  <1>2. mainq[d] # <<>> /\ b \in Told /\ b.then.kind = kind
    BY <1>1, DueTold
  <1>3. /\ accounts' = accounts /\ current' = current /\ calls' = calls /\ tabUser' = tabUser
        /\ modal' = modal /\ ops' = ops /\ crashes' = crashes /\ hasty' = hasty /\ failed' = failed
    BY DEF appVars, history
  <1>4. docs' = docs
    BY DEF Take
  <1>5. SessionTypeOK'
    BY <1>3, <1>4 DEF SessionIndInv, SessionTypeOK
  <1>6. calls' \in QueuesOf(AuthBlocks)
    BY <1>3 DEF SessionIndInv, FlightOK
  <1>7. <<>> \in Seq(Writes) /\ <<>> \in Seq(Reads) /\ Range(<<>>) = {}
    BY RangeOfEmpty
  <1>8. \A u \in Users : b # [then |-> Created(u), res |-> TRUE]
    BY <1>1, <1>2 DEF Result, Created
  <1>9. ASSUME ~hasty
        PROVE  /\ Phase(d)' /\ FetchesOf(d, current[d])' /\ modal'[d] # "none"
    <2>1. /\ modal[d] # "none" /\ calls[d] = <<>>
          /\ queue'[d] = <<>> /\ gets'[d] = <<>> /\ mainq'[d] = <<>>
      BY <1>1, <1>2, <1>7, <1>9, TellFacts
    <2>2. Resting(d)'
      BY <2>1, <1>3, <1>7 DEF Resting, OnlyFetches
    <2> QED BY <2>1, <2>2, <1>3, <1>7 DEF Phase, FetchesOf
  <1> QED BY <1>1, <1>2, <1>3, <1>5, <1>6, <1>7, <1>8, <1>9, TellKept

\* authenticationDidComplete: the user is signed in when others waited, and is
\* fetched.
LEMMA AuthenticationDidCompleteOK ==
    ASSUME SessionIndInv, NEW d \in Devices, NEW kind \in {"signedIn", "registered"}, Due(d, kind),
           Result(d), authenticationDidComplete(d),
           UNCHANGED <<accounts, current, calls, tabUser, ops, crashes, history>>
    PROVE  SessionIndInv'
  <1>1. PICK b : b = Head(mainq[d])
    OBVIOUS
  <1>2. mainq[d] # <<>> /\ b \in Told /\ b.then.kind = kind /\ b.res
    BY <1>1, DueTold DEF Result
  <1>3. /\ accounts' = accounts /\ current' = current /\ calls' = calls /\ tabUser' = tabUser
        /\ ops' = ops /\ crashes' = crashes /\ hasty' = hasty /\ failed' = failed
    BY DEF history
  <1>4. Take(d, <<>>, fetchUser(d)) /\ modal' = [modal EXCEPT ![d] = "none"]
    BY DEF authenticationDidComplete
  <1>5. docs' = docs
    BY <1>4 DEF Take
  <1>6. modal \in [Devices -> Modals]
    BY DEF SessionIndInv, SessionTypeOK
  <1>7. /\ modal' \in [Devices -> Modals] /\ modal'[d] = "none"
        /\ \A e \in Devices \ {d} : modal'[e] = modal[e]
    BY <1>4, <1>6 DEF Modals
  <1>8. SessionTypeOK'
    BY <1>3, <1>5, <1>7 DEF SessionIndInv, SessionTypeOK
  <1>9. calls' \in QueuesOf(AuthBlocks)
    BY <1>3 DEF SessionIndInv, FlightOK
  <1>10. <<>> \in Seq(Writes) /\ Range(<<>>) = {}
    BY RangeOfEmpty
  <1>11. PICK rs : rs = fetchUser(d)
    OBVIOUS
  <1>12. /\ rs \in Seq(Reads)
         /\ \A r \in Range(rs) : r.then = FetchedUser(current[d])
         /\ current[d] # NoUser => \E r \in Range(rs) : r.then = FetchedUser(current[d])
    BY <1>11, FetchUserFacts
  <1>13. Take(d, <<>>, rs)
    BY <1>4, <1>11
  <1>14. \A u \in Users : b # [then |-> Created(u), res |-> TRUE]
    BY <1>2 DEF Created
  <1>15. ASSUME ~hasty
         PROVE  /\ Phase(d)' /\ FetchesOf(d, current[d])'
                /\ current'[d] # NoUser /\ TabsComing(d, current[d])'
    <2>1. /\ modal[d] # "none" /\ calls[d] = <<>>
          /\ queue'[d] = <<>> /\ gets'[d] = rs /\ mainq'[d] = <<>>
          /\ current[d] # NoUser
      BY <1>1, <1>2, <1>10, <1>12, <1>13, <1>15, TellFacts
    <2>2. Resting(d)'
      BY <2>1, <1>3, <1>10 DEF Resting, OnlyFetches
    <2>3. FetchesOf(d, current[d])'
      BY <2>1, <1>3, <1>10, <1>12 DEF FetchesOf
    <2>4. TabsComing(d, current[d])'
      BY <2>1, <1>3, <1>12 DEF TabsComing
    <2> QED BY <2>1, <2>2, <2>3, <2>4, <1>3 DEF Phase
  <1> QED BY <1>1, <1>2, <1>3, <1>7, <1>8, <1>9, <1>10, <1>12, <1>13, <1>14, <1>15, TellKept

LEMMA UploadedOK ==
    ASSUME SessionIndInv, NEW d \in Devices, uploaded(d), UNCHANGED history
    PROVE  SessionIndInv'
  <1>1. PICK b : b = Head(mainq[d])
    OBVIOUS
  <1>2. Due(d, "uploaded")
    BY DEF uploaded
  <1>3. mainq[d] # <<>> /\ b \in Told /\ b.then.kind = "uploaded" /\ b.then.u \in Users
    BY <1>1, <1>2, DueTold
  <1>4. /\ Take(d, <<>>, <<>>)
        /\ UNCHANGED <<accounts, current, tabUser, modal, ops, crashes>>
    BY DEF uploaded
  <1>5. CASE ~Result(d)
    <2>1. UNCHANGED appVars
      BY <1>4, <1>5 DEF uploaded, appVars
    <2> QED BY <1>2, <1>4, <2>1, NothingMore
  <1>6. CASE Result(d)
    <2>1. /\ accounts' = accounts /\ current' = current /\ tabUser' = tabUser /\ modal' = modal
          /\ ops' = ops /\ crashes' = crashes /\ hasty' = hasty /\ failed' = failed
      BY <1>4 DEF history
    <2>2. docs' = docs
      BY <1>4 DEF Take
    <2>3. SessionTypeOK'
      BY <2>1, <2>2 DEF SessionIndInv, SessionTypeOK
    <2>4. PICK a : a = Created(b.then.u)
      OBVIOUS
    <2>5. a \in AuthBlocks
      BY <1>3, <2>4 DEF AuthBlocks
    <2>6. calls \in QueuesOf(AuthBlocks)
      BY DEF SessionIndInv, FlightOK
    <2>7. Append(calls[d], a) \in Seq(AuthBlocks)
      <3>1. calls[d] \in Seq(AuthBlocks)
        BY <2>6, InQueue
      <3> QED BY <3>1, <2>5, RangeOfAppend
    <2>8. calls' = [calls EXCEPT ![d] = Append(calls[d], a)]
      BY <1>1, <1>6, <2>4 DEF uploaded, Call, Block
    <2>9. /\ calls' \in QueuesOf(AuthBlocks) /\ calls'[d] = Append(calls[d], a)
          /\ \A e \in Devices \ {d} : calls'[e] = calls[e]
      BY <2>6, <2>7, <2>8 DEF QueuesOf
    <2>10. <<>> \in Seq(Writes) /\ <<>> \in Seq(Reads) /\ Range(<<>>) = {}
      BY RangeOfEmpty
    <2>11. \A u \in Users : b # [then |-> Created(u), res |-> TRUE]
      BY <1>3 DEF Created
    <2>12. ASSUME ~hasty
           PROVE  /\ Phase(d)' /\ FetchesOf(d, current[d])' /\ modal'[d] # "none"
      <3>1. /\ modal[d] # "none" /\ calls[d] = <<>>
            /\ queue'[d] = <<>> /\ gets'[d] = <<>> /\ mainq'[d] = <<>>
        BY <1>1, <1>3, <1>4, <2>10, <2>12, TellFacts
      <3>2. calls'[d] = <<a>>
        <4>1. Append(<<>>, a) = <<a>>
          OBVIOUS
        <4> QED BY <4>1, <3>1, <2>9
      <3>3. Calling(d)'
        BY <3>1, <3>2, <2>1, <2>5 DEF Calling, Quiet
      <3> QED BY <3>1, <3>3, <2>1, <2>10 DEF Phase, FetchesOf
    <2> QED BY <1>1, <1>3, <1>4, <2>1, <2>3, <2>9, <2>10, <2>11, <2>12, TellKept
  <1> QED BY <1>5, <1>6

LEMMA CreatedOK ==
    ASSUME SessionIndInv, NEW d \in Devices, created(d), UNCHANGED history
    PROVE  SessionIndInv'
  <1>1. PICK b : b = Head(mainq[d])
    OBVIOUS
  <1>2. Due(d, "created")
    BY DEF created
  <1>3. /\ mainq[d] # <<>> /\ b \in Told /\ b.then.kind = "created" /\ b.then.u \in Users
        /\ b.res \in BOOLEAN /\ b = [then |-> b.then, res |-> b.res]
        /\ b.then = [kind |-> "created", u |-> b.then.u]
    BY <1>1, <1>2, DueTold
  <1>4. /\ Take(d, IF Result(d) THEN storeUser(Block(d).u) ELSE <<>>, <<>>)
        /\ UNCHANGED <<accounts, current, calls, tabUser, modal, ops, crashes>>
    BY DEF created
  <1>5. CASE ~Result(d)
    <2>1. UNCHANGED appVars
      BY <1>4 DEF appVars
    <2> QED BY <1>2, <1>4, <1>5, <2>1, NothingMore
  <1>6. CASE Result(d)
    <2>1. PICK u \in Users : u = b.then.u
      BY <1>3
    <2>2. PICK w : w = setData(UserDoc(u), Profile, Registered(u))
      OBVIOUS
    <2>3. /\ storeUser(u) = <<w>> /\ w \in Writes /\ w.paths = {UserDoc(u)} /\ w.then # NoThen
      BY <2>2, WriteFacts
    <2>4. Take(d, <<w>>, <<>>)
      BY <1>1, <1>4, <1>6, <2>1, <2>3 DEF Block
    <2>5. b = [then |-> Created(u), res |-> TRUE]
      BY <1>1, <1>3, <1>6, <2>1 DEF Result, Created
    <2>6. /\ accounts' = accounts /\ current' = current /\ tabUser' = tabUser /\ modal' = modal
          /\ calls' = calls
          /\ ops' = ops /\ crashes' = crashes /\ hasty' = hasty /\ failed' = failed
      BY <1>4 DEF history
    <2>7. docs' = docs
      BY <2>4 DEF Take
    <2>8. SessionTypeOK'
      BY <2>6, <2>7 DEF SessionIndInv, SessionTypeOK
    <2>9. calls' \in QueuesOf(AuthBlocks)
      BY <2>6 DEF SessionIndInv, FlightOK
    <2>10. PICK ws : ws = <<w>>
      OBVIOUS
    <2>11. /\ ws \in Seq(Writes) /\ <<>> \in Seq(Reads)
           /\ Range(ws) = {w} /\ Range(<<>>) = {}
      BY <2>3, <2>10, RangeOfEmpty, RangeOfOne
    <2>12. Take(d, ws, <<>>)
      BY <2>4, <2>10
    <2>13. Taken(d, b, ws, <<>>)
      BY <1>1, <1>3, <2>11, <2>12, TakeFacts
    <2>14. \A v \in Users : b = [then |-> Created(v), res |-> TRUE] => Queued(d, v)'
      <3>1. ASSUME NEW v \in Users, b = [then |-> Created(v), res |-> TRUE] PROVE Queued(d, v)'
        <4>1. b.then.u = v
          BY <3>1 DEF Created
        <4>2. w \in Range(queue'[d])
          BY <2>11, <2>13 DEF Taken
        <4> QED BY <4>1, <4>2, <2>1, <2>3 DEF Queued
      <3> QED BY <3>1
    <2>15. \A v \in Users : (\E x \in Range(ws) : UserDoc(v) \in x.paths) =>
                               b = [then |-> Created(v), res |-> TRUE]
      <3>1. ASSUME NEW v \in Users, NEW x \in Range(ws), UserDoc(v) \in x.paths PROVE v = u
        BY <3>1, <2>3, <2>11, UserDocs
      <3> QED BY <3>1, <2>5
    <2>16. ASSUME ~hasty
           PROVE  /\ Phase(d)' /\ FetchesOf(d, current[d])' /\ modal'[d] # "none"
      <3>1. /\ modal[d] # "none" /\ calls[d] = <<>>
            /\ queue'[d] = ws /\ gets'[d] = <<>> /\ mainq'[d] = <<>>
            /\ b.res /\ b.then.kind \in {"signedIn", "created", "registered"} => current[d] # NoUser
        BY <1>1, <1>3, <2>11, <2>12, <2>16, TellFacts
      <3>2. current[d] # NoUser
        BY <3>1, <1>3, <2>5
      <3>3. Storing(d)'
        BY <3>1, <3>2, <2>3, <2>6, <2>10 DEF Storing
      <3> QED BY <3>1, <3>3, <2>6, <2>11 DEF Phase, FetchesOf
    <2>17. /\ mainq[d] # <<>> /\ b = Head(mainq[d]) /\ b \in Told
           /\ ws \in Seq(Writes) /\ <<>> \in Seq(Reads)
      BY <1>1, <1>3, <2>11
    <2> QED BY <2>17, <2>6, <2>8, <2>9, <2>12, <2>14, <2>15, <2>16, TellKept
  <1> QED BY <1>5, <1>6

\* The block of fetchUser: the tabs are those of an account with a document.
LEMMA FetchedUserOK ==
    ASSUME SessionIndInv, NEW d \in Devices, fetchedUser(d), UNCHANGED history
    PROVE  SessionIndInv'
  <1>1. PICK b : b = Head(mainq[d])
    OBVIOUS
  <1>2. /\ mainq[d] # <<>> /\ b.then.kind = "fetchedUser"
        /\ Take(d, <<>>, <<>>)
        /\ UNCHANGED <<accounts, current, calls, modal, ops, crashes>>
        /\ tabUser' = IF b.res[UserDoc(b.then.u)] = NoDoc THEN tabUser
                      ELSE [tabUser EXCEPT ![d] = b.then.u]
    BY <1>1 DEF fetchedUser, Due, Result, Block, configureViewControllers
  <1>3. <<>> \in Seq(Writes) /\ <<>> \in Seq(Reads) /\ Range(<<>>) = {}
    BY RangeOfEmpty
  <1>4. /\ queue' \in QueuesOf(Writes) /\ gets' \in QueuesOf(Reads)
        /\ mainq' \in QueuesOf(Told \cup Fetched)
        /\ b \in Told \cup Fetched
        /\ Taken(d, b, <<>>, <<>>)
    BY <1>1, <1>2, <1>3, TakeFacts
  <1>5. b \in Fetched
    BY <1>2, <1>4, KindsApart
  <1>6. b.then.u \in Users /\ b.then = FetchedUser(b.then.u)
    BY <1>5, Blocks
  <1>7. /\ docs' = docs
        /\ \A e \in Devices \ {d} : queue'[e] = queue[e] /\ gets'[e] = gets[e] /\ mainq'[e] = mainq[e]
        /\ Range(mainq[d]) = {b} \cup Range(mainq'[d])
        /\ Range(queue'[d]) = Range(queue[d])
        /\ Range(gets'[d]) = Range(gets[d])
    BY <1>3, <1>4 DEF Taken
  <1>8. /\ accounts' = accounts /\ current' = current /\ calls' = calls
        /\ modal' = modal /\ ops' = ops /\ crashes' = crashes /\ hasty' = hasty /\ failed' = failed
    BY <1>2 DEF history
  <1>9. tabUser \in [Devices -> Users \cup {NoUser}]
    BY DEF SessionIndInv, SessionTypeOK
  <1>10. /\ tabUser' \in [Devices -> Users \cup {NoUser}]
         /\ \A e \in Devices \ {d} : tabUser'[e] = tabUser[e]
         /\ b.res[UserDoc(b.then.u)] = NoDoc => tabUser'[d] = tabUser[d]
         /\ b.res[UserDoc(b.then.u)] # NoDoc => tabUser'[d] = b.then.u
    BY <1>2, <1>6, <1>9
  <1>11. SessionTypeOK'
    BY <1>7, <1>8, <1>10 DEF SessionIndInv, SessionTypeOK
  <1>12. FlightOK'
    BY <1>4, <1>8 DEF SessionIndInv, FlightOK
  <1>13. OthersKeep(d)
    BY <1>7, <1>8, <1>10 DEF OthersKeep
  <1>14. \A u : Queued(d, u)' <=> Queued(d, u)
    BY <1>7 DEF Queued
  <1>15. \A u : Creating(d, u)' <=> Creating(d, u)
    <2>1. \A u : b # [then |-> Created(u), res |-> TRUE]
      BY <1>2 DEF Created
    <2> QED BY <2>1, <1>7 DEF Creating
  <1>16. FetchesKnown' /\ TabsKnown' /\ ProfilesDue'
    <2>1. \A a \in Range(mainq'[d]) : a \in Range(mainq[d])
      BY <1>7
    <2>2. ASSUME ~failed' PROVE tabUser'[d] \in {tabUser[d], NoUser} \/ Known(d, tabUser[d])'
      <3>1. CASE b.res[UserDoc(b.then.u)] = NoDoc
        BY <3>1, <1>10
      <3>2. CASE b.res[UserDoc(b.then.u)] # NoDoc
        <4>1. Known(d, b.then.u)
          BY <3>2, <2>2, <1>5, <1>7, <1>8 DEF SessionIndInv, FetchesKnown
        <4>2. tabUser'[d] = b.then.u
          BY <3>2, <1>10
        <4> QED BY <4>1, <4>2, <1>7 DEF Known, Queued
      <3> QED BY <3>1, <3>2
    <2>3. \A u \in accounts' \ accounts : Creating(d, u)'
      BY <1>8
    <2>4. crashes' = 0 => /\ crashes = 0
                          /\ \A v \in Users : Creating(d, v) => Creating(d, v)' \/ Queued(d, v)'
      BY <1>8, <1>15
    <2> QED BY <1>7, <1>8, <1>11, <1>12, <1>13, <1>14, <2>1, <2>2, <2>3, <2>4, ProfilesKept
  <1>17. SignedInExist'
    BY <1>8 DEF SessionIndInv, SignedInExist
  <1>18. ASSUME ~hasty' PROVE Orderly'
    <2>1. Orderly
      BY <1>8, <1>18 DEF SessionIndInv, Waiting
    <2>2. Range(mainq[d]) # {} /\ mainq[d] # <<>>
      BY <1>2, <1>7
    <2>3. Resting(d)
      <3>1. ~Answering(d)
        <4>1. SUFFICES ASSUME NEW a \in Told, mainq[d] = <<a>> PROVE FALSE
          BY DEF Answering
        <4>2. b = a
          BY <4>1, <1>1
        <4> QED BY <4>1, <4>2, <1>5, KindsApart
      <3> QED BY <2>1, <2>2, <3>1 DEF Orderly, OneAtATime, Phase, Calling, Storing, Quiet
    <2>4. Resting(d)'
      BY <2>3, <1>7, <1>8 DEF Resting, OnlyFetches
    <2>5. Idle(d)' \/ ~Idle(d)
      BY <1>7, <1>8 DEF Idle, OnlyFetches
    <2>6. FetchesOf(d, current[d])
      BY <2>1 DEF Orderly, FetchesCurrent
    <2>7. FetchesOf(d, current[d])'
      BY <2>6, <1>7, <1>8 DEF FetchesOf
    <2>8. b.then.u = current[d]
      <3>1. b.then = FetchedUser(current[d])
        BY <2>6, <1>5, <1>7 DEF FetchesOf
      <3> QED BY <3>1, <1>6, UserDocs
    <2>9. \A v : Pending(d, v)' <=> Pending(d, v)
      BY <1>14, <1>15 DEF Pending
    <2>10. \A v \in Users : Pending(d, v)' =>
               current'[d] = v /\ \A e \in Devices \ {d} : current[e] # v
      BY <2>1, <2>9, <1>8 DEF Orderly, PendingIsCurrent
    <2>11. \A e \in Devices \ {d} : \A v \in Users : Pending(e, v) => current'[d] # v
      BY <2>1, <1>8 DEF Orderly, PendingIsCurrent
    <2>12. modal'[d] = "none" => current'[d] # NoUser
      BY <2>1, <1>8 DEF Orderly, Asked
    <2>13. \A e \in Devices : \A v : Pending(e, v)' <=> Pending(e, v)
      BY <2>9, <1>13, OthersSame
    <2>14. \A e \in Devices : Orphan(current[e])' <=> Orphan(current[e])
      BY <2>13, <1>7, <1>8 DEF Orphan, Pending, Queued, Creating
    <2>15. ASSUME ~failed', modal'[d] = "none" PROVE TabsComing(d, current[d])' \/ Orphan(current[d])'
      <3>1. CASE b.res[UserDoc(b.then.u)] # NoDoc
        BY <3>1, <2>8, <1>8, <1>10 DEF TabsComing
      <3>2. CASE b.res[UserDoc(b.then.u)] = NoDoc
        <4>1. TabsComing(d, current[d]) \/ Orphan(current[d])
          BY <2>1, <2>15, <1>8 DEF Orderly, TabsDue
        <4>2. CASE TabsComing(d, current[d])
          BY <4>2, <3>2, <1>7, <1>8, <1>10 DEF TabsComing
        <4>3. CASE Orphan(current[d])
          BY <4>3, <2>14
        <4> QED BY <4>1, <4>2, <4>3
      <3> QED BY <3>1, <3>2
    <2> QED BY <2>1, <1>8, <1>13, <2>4, <2>5, <2>7, <2>10, <2>11, <2>12, <2>14, <2>15, OrderlyKept DEF Phase
  <1> QED BY <1>11, <1>12, <1>16, <1>17, <1>18 DEF SessionIndInv, Waiting

LEMMA MainQueueOK ==
    ASSUME SessionIndInv, NEW d \in Devices, MainQueue(d), UNCHANGED history
    PROVE  SessionIndInv'
  <1>1. CASE signedIn(d)
    <2>1. CASE Result(d)
      BY <1>1, <2>1, AuthenticationDidCompleteOK DEF signedIn
    <2>2. CASE ~Result(d)
      BY <1>1, <2>2, NothingMore DEF signedIn, appVars
    <2> QED BY <2>1, <2>2
  <1>2. CASE uploaded(d)
    BY <1>2, UploadedOK
  <1>3. CASE created(d)
    BY <1>3, CreatedOK
  <1>4. CASE registered(d)
    <2>1. CASE Result(d)
      BY <1>4, <2>1, AuthenticationDidCompleteOK DEF registered
    <2>2. CASE ~Result(d)
      BY <1>4, <2>2, NothingMore DEF registered, appVars
    <2> QED BY <2>1, <2>2
  <1>5. CASE resetSent(d)
    BY <1>5, NothingMore DEF resetSent
  <1>6. CASE fetchedUser(d)
    BY <1>6, FetchedUserOK
  <1> QED BY <1>1, <1>2, <1>3, <1>4, <1>5, <1>6 DEF MainQueue

-----------------------------------------------------------------------------
(* The app is killed.                                                      *)

LEMMA CrashOK ==
    ASSUME SessionIndInv, NEW d \in Devices, Crash(d), UNCHANGED history
    PROVE  SessionIndInv'
  <1>1. /\ crashes < MaxCrashes /\ crashes' = crashes + 1
        /\ calls' = [calls EXCEPT ![d] = <<>>]
        /\ tabUser' = [tabUser EXCEPT ![d] = NoUser]
        /\ modal' = [modal EXCEPT ![d] = checkIfUserIsLoggedIn(current[d])]
        /\ Restart(d, fetchUser(d))
        /\ accounts' = accounts /\ current' = current /\ ops' = ops
        /\ hasty' = hasty /\ failed' = failed
    BY DEF Crash, history
  <1>2. PICK rs : rs = fetchUser(d)
    OBVIOUS
  <1>3. /\ rs \in Seq(Reads)
        /\ \A r \in Range(rs) : r.then = FetchedUser(current[d])
        /\ current[d] # NoUser => \E r \in Range(rs) : r.then = FetchedUser(current[d])
    BY <1>2, FetchUserFacts
  <1>4. /\ queue \in QueuesOf(Writes) /\ gets \in QueuesOf(Reads)
        /\ mainq \in QueuesOf(Told \cup Fetched) /\ calls \in QueuesOf(AuthBlocks)
    BY DEF SessionIndInv, FlightOK
  <1>5. \A w \in Writes : [w EXCEPT !.then = NoThen] \in Writes
    BY WriteFacts
  <1>6. Restart(d, rs)
    BY <1>1, <1>2
  <1>7. /\ queue' \in QueuesOf(Writes) /\ gets' \in QueuesOf(Reads)
        /\ mainq' \in QueuesOf(Told \cup Fetched)
        /\ Restarted(d, rs)
    BY <1>3, <1>4, <1>5, <1>6, RestartOne
  <1>8. /\ docs' = docs
        /\ \A e \in Devices \ {d} : queue'[e] = queue[e] /\ gets'[e] = gets[e] /\ mainq'[e] = mainq[e]
        /\ mainq'[d] = <<>> /\ gets'[d] = rs
        /\ Range(queue'[d]) = {[w EXCEPT !.then = NoThen] : w \in Range(queue[d])}
    BY <1>7 DEF Restarted
  <1>9. Range(mainq'[d]) = {}
    BY <1>8, RangeOfEmpty
  <1>10. Range(queue[d]) \subseteq Writes
    BY <1>4, InQueue
  <1>11. /\ calls' \in QueuesOf(AuthBlocks) /\ calls'[d] = <<>>
         /\ \A e \in Devices \ {d} : calls'[e] = calls[e]
    BY <1>1, <1>4 DEF QueuesOf
  <1>12. /\ tabUser \in [Devices -> Users \cup {NoUser}] /\ modal \in [Devices -> Modals]
         /\ current \in [Devices -> Users \cup {NoUser}]
    BY DEF SessionIndInv, SessionTypeOK
  <1>13. /\ tabUser' \in [Devices -> Users \cup {NoUser}] /\ tabUser'[d] = NoUser
         /\ \A e \in Devices \ {d} : tabUser'[e] = tabUser[e]
    BY <1>1, <1>12
  <1>14. /\ modal' \in [Devices -> Modals]
         /\ modal'[d] = "none" => current[d] # NoUser
         /\ \A e \in Devices \ {d} : modal'[e] = modal[e]
    BY <1>1, <1>12 DEF checkIfUserIsLoggedIn, Modals
  <1>15. crashes' \in 0..MaxCrashes /\ crashes' # 0
    BY <1>1, SessionAssumption DEF SessionIndInv, SessionTypeOK
  <1>16. SessionTypeOK'
    BY <1>1, <1>8, <1>13, <1>14, <1>15 DEF SessionIndInv, SessionTypeOK
  <1>17. FlightOK'
    BY <1>7, <1>11 DEF FlightOK
  <1>18. OthersKeep(d)
    BY <1>1, <1>8, <1>11, <1>13, <1>14 DEF OthersKeep
  <1>19. \A u : Queued(d, u)' <=> Queued(d, u)
    <2>1. ASSUME NEW u, Queued(d, u) PROVE Queued(d, u)'
      <3>1. PICK w \in Range(queue[d]) : UserDoc(u) \in w.paths
        BY <2>1 DEF Queued
      <3>2. /\ [w EXCEPT !.then = NoThen] \in Range(queue'[d])
            /\ [w EXCEPT !.then = NoThen].paths = w.paths
        BY <1>8, <1>10, WriteFacts
      <3> QED BY <3>1, <3>2 DEF Queued
    <2>2. ASSUME NEW u, Queued(d, u)' PROVE Queued(d, u)
      <3>1. PICK x \in Range(queue'[d]) : UserDoc(u) \in x.paths
        BY <2>2 DEF Queued
      <3>2. PICK w \in Range(queue[d]) : x = [w EXCEPT !.then = NoThen]
        BY <1>8
      <3>3. x.paths = w.paths
        BY <3>2, <1>10, WriteFacts
      <3> QED BY <3>1, <3>3 DEF Queued
    <2> QED BY <2>1, <2>2
  <1>20. \A u : ~Creating(d, u)'
    BY <1>9 DEF Creating
  <1>21. FetchesKnown' /\ TabsKnown' /\ ProfilesDue'
    BY <1>1, <1>8, <1>9, <1>13, <1>15, <1>16, <1>17, <1>18, <1>19, ProfilesKept
  <1>22. SignedInExist'
    BY <1>1 DEF SessionIndInv, SignedInExist
  <1>23. ASSUME ~hasty' PROVE Orderly'
    <2>1. Orderly
      BY <1>1, <1>23 DEF SessionIndInv, Waiting
    <2>2. ASSUME NEW x \in Range(queue'[d]) PROVE x.then = NoThen
      <3>1. PICK w \in Range(queue[d]) : x = [w EXCEPT !.then = NoThen]
        BY <1>8
      <3>2. w \in Writes
        BY <1>10
      <3> QED BY <3>1, <3>2, WriteFacts
    <2>3. Resting(d)'
      BY <2>2, <1>9, <1>11 DEF Resting, OnlyFetches
    <2>4. Idle(d)' \/ ~Idle(d)
      <3>1. Range(queue[d]) = {} => Range(queue'[d]) = {}
        BY <1>8
      <3> QED BY <3>1, <1>9, <1>11 DEF Idle, OnlyFetches
    <2>5. FetchesOf(d, current[d])'
      BY <1>1, <1>3, <1>8, <1>9 DEF FetchesOf
    <2>6. \A u : Pending(d, u)' => Pending(d, u)
      BY <1>19, <1>20 DEF Pending
    <2>7. \A v \in Users : Pending(d, v)' =>
               current'[d] = v /\ \A e \in Devices \ {d} : current[e] # v
      BY <2>1, <2>6, <1>1 DEF Orderly, PendingIsCurrent
    <2>8. \A e \in Devices \ {d} : \A v \in Users : Pending(e, v) => current'[d] # v
      BY <2>1, <1>1 DEF Orderly, PendingIsCurrent
    <2>9. modal'[d] = "none" => current'[d] # NoUser
      BY <1>1, <1>14
    <2>10. modal'[d] = "none" => TabsComing(d, current[d])'
      BY <1>1, <1>3, <1>8, <1>14 DEF TabsComing
    <2>11. ASSUME NEW e \in Devices \ {d}, modal[e] = "none", Orphan(current[e])
           PROVE  Orphan(current[e])'
      <3>1. PICK v \in Users : v = current[e]
        BY <2>1, <2>11 DEF Orderly, Asked, SessionIndInv, SessionTypeOK
      <3>2. Orphan(v) /\ current'[e] = v
        BY <2>11, <3>1, <1>1
      <3>3. docs'[UserDoc(v)] = NoDoc
        BY <3>2, <1>8 DEF Orphan
      <3>4. docs'[UserDoc(v)] = NoDoc /\ \A f \in Devices : ~Pending(f, v)'
        BY <1>18, <2>6, <3>2, <3>3, OrphanKept
      <3> QED BY <3>2, <3>4 DEF Orphan, Pending, Queued, Creating
    <2> QED BY <2>1, <1>1, <1>18, <2>3, <2>4, <2>5, <2>7, <2>8, <2>9, <2>10, <2>11, OrderlyKept DEF Phase
  <1> QED BY <1>16, <1>17, <1>21, <1>22, <1>23 DEF SessionIndInv, Waiting

-----------------------------------------------------------------------------
(* The initial state, and all together.                                    *)

LEMMA InitOK == Init => SessionIndInv
  <1> SUFFICES ASSUME Init PROVE SessionIndInv
    OBVIOUS
  <1>1. /\ accounts = InitialAccounts
        /\ docs = [x \in {UserDoc(u) : u \in Users} |-> IF x[2] \in InitialAccounts THEN Profile ELSE NoDoc]
        /\ current \in [Devices -> InitialAccounts \cup {NoUser}]
        /\ queue = [d \in Devices |-> <<>>] /\ gets  = [d \in Devices |-> fetchUser(d)]
        /\ mainq = [d \in Devices |-> <<>>] /\ calls = [d \in Devices |-> <<>>]
        /\ tabUser = [d \in Devices |-> NoUser]
        /\ modal = [d \in Devices |-> checkIfUserIsLoggedIn(current[d])]
        /\ ops = 0 /\ crashes = 0 /\ hasty = FALSE /\ failed = FALSE
    BY DEF Init
  <1>2. SessionTypeOK
    <2>1. current \in [Devices -> Users \cup {NoUser}]
      BY <1>1, SessionAssumption
    <2>2. modal \in [Devices -> Modals]
      BY <1>1 DEF checkIfUserIsLoggedIn, Modals
    <2>3. docs \in [{UserDoc(u) : u \in Users} -> {Profile, NoDoc}]
      BY <1>1
    <2>4. accounts \subseteq Users
      BY <1>1, SessionAssumption
    <2>5. tabUser \in [Devices -> Users \cup {NoUser}]
      BY <1>1
    <2>6. ops \in 0..MaxOps /\ crashes \in 0..MaxCrashes
      BY <1>1, SessionAssumption
    <2>7. hasty \in BOOLEAN /\ failed \in BOOLEAN
      BY <1>1
    <2> QED BY <2>1, <2>2, <2>3, <2>4, <2>5, <2>6, <2>7 DEF SessionTypeOK
  <1>3. ASSUME NEW d \in Devices
        PROVE  /\ fetchUser(d) \in Seq(Reads)
               /\ \A r \in Range(fetchUser(d)) : r.then = FetchedUser(current[d])
               /\ current[d] # NoUser => \E r \in Range(fetchUser(d)) : r.then = FetchedUser(current[d])
    <2>1. CASE current[d] = NoUser
      BY <2>1, RangeOfEmpty DEF fetchUser
    <2>2. CASE current[d] # NoUser
      <3>1. PICK r : r = getDocument(UserDoc(current[d]), FetchedUser(current[d]))
        OBVIOUS
      <3>2. current[d] \in Users
        BY <1>2, <2>2 DEF SessionTypeOK
      <3>3. r \in Reads /\ r.then = FetchedUser(current[d])
        BY <3>1, <3>2, ReadFacts
      <3>4. fetchUser(d) = <<r>> /\ Range(<<r>>) = {r}
        BY <2>2, <3>1, RangeOfOne DEF fetchUser
      <3> QED BY <2>2, <3>3, <3>4
    <2> QED BY <2>1, <2>2
  <1>4. FlightOK
    <2>1. gets \in QueuesOf(Reads)
      BY <1>1, <1>3 DEF QueuesOf
    <2> QED BY <1>1, <2>1 DEF FlightOK, QueuesOf
  <1>5. ASSUME NEW d \in Devices
        PROVE  /\ queue[d] = <<>> /\ mainq[d] = <<>> /\ calls[d] = <<>> /\ gets[d] = fetchUser(d)
               /\ Range(queue[d]) = {} /\ Range(mainq[d]) = {}
    BY <1>1, RangeOfEmpty
  <1>6. FetchesKnown /\ TabsKnown
    BY <1>1, <1>5 DEF FetchesKnown, TabsKnown
  <1>7. ProfilesDue
    <2>1. ASSUME NEW u \in accounts PROVE docs[UserDoc(u)] # NoDoc
      <3>1. u \in Users /\ u \in InitialAccounts
        BY <1>1, SessionAssumption
      <3>2. UserDoc(u) \in {UserDoc(v) : v \in Users} /\ UserDoc(u)[2] = u
        BY <3>1 DEF UserDoc
      <3> QED BY <1>1, <3>1, <3>2, SessionAssumption
    <2> QED BY <2>1 DEF ProfilesDue
  <1>8. SignedInExist
    BY <1>1 DEF SignedInExist
  <1>9. Orderly
    <2>1. \A d \in Devices : Resting(d) /\ Idle(d)
      BY <1>5 DEF Resting, Idle, OnlyFetches
    <2>2. OneAtATime
      BY <2>1 DEF OneAtATime, Phase
    <2>3. FetchesCurrent
      BY <1>3, <1>5 DEF FetchesCurrent, FetchesOf
    <2>4. PendingIsCurrent
      BY <1>5 DEF PendingIsCurrent, Pending, Queued, Creating
    <2>5. Asked
      BY <1>1 DEF Asked, checkIfUserIsLoggedIn
    <2>6. TabsDue
      BY <2>5, <1>3, <1>5 DEF Asked, TabsDue, TabsComing
    <2> QED BY <2>2, <2>3, <2>4, <2>5, <2>6 DEF Orderly
  <1> QED BY <1>2, <1>4, <1>6, <1>7, <1>8, <1>9 DEF SessionIndInv, Waiting

LEMMA NextOK == SessionIndInv /\ [Next]_vars => SessionIndInv'
  <1> SUFFICES ASSUME SessionIndInv, [Next]_vars PROVE SessionIndInv'
    OBVIOUS
  <1>1. ASSUME NEW d \in Devices, Touch(d) PROVE SessionIndInv'
    BY <1>1, TouchOK
  <1>2. ASSUME NEW d \in Devices, Deliver(d) PROVE SessionIndInv'
    BY <1>2, DeliverOK
  <1>3. ASSUME NEW d \in Devices, MainQueue(d), UNCHANGED history PROVE SessionIndInv'
    BY <1>3, MainQueueOK
  <1>4. ASSUME NEW d \in Devices, Crash(d), UNCHANGED history PROVE SessionIndInv'
    BY <1>4, CrashOK
  <1>5. ASSUME NEW d \in Devices, NEW k \in DOMAIN calls[d], AuthAnswer(d, k) PROVE SessionIndInv'
    BY <1>5, AuthAnswerOK
  <1>6. CASE UNCHANGED vars
    <2>1. /\ docs' = docs /\ queue' = queue /\ gets' = gets /\ mainq' = mainq
          /\ accounts' = accounts /\ current' = current /\ calls' = calls /\ tabUser' = tabUser
          /\ modal' = modal /\ ops' = ops /\ crashes' = crashes /\ hasty' = hasty /\ failed' = failed
      BY <1>6 DEF vars, appVars, history
    <2>2. SessionTypeOK' /\ FlightOK'
      BY <2>1 DEF SessionIndInv, SessionTypeOK, FlightOK
    <2>3. FetchesKnown' /\ TabsKnown' /\ ProfilesDue' /\ SignedInExist'
      BY <2>1 DEF SessionIndInv, FetchesKnown, TabsKnown, ProfilesDue, SignedInExist,
                  Known, Queued, Creating
    <2>4. Orderly' <=> Orderly
      BY <2>1 DEF Orderly, OneAtATime, FetchesCurrent, PendingIsCurrent, Asked, TabsDue,
                  Phase, Resting, Calling, Answering, Storing, Idle, OnlyFetches, Quiet,
                  FetchesOf, Pending, Queued, Creating, Orphan, TabsComing
    <2> QED BY <2>1, <2>2, <2>3, <2>4 DEF SessionIndInv, Waiting
  <1> QED BY <1>1, <1>2, <1>3, <1>4, <1>5, <1>6 DEF Next

-----------------------------------------------------------------------------
(* The theorems.                                                           *)

\* What is in flight when nothing is.
LEMMA SettledRanges ==
    ASSUME NEW d \in Devices, Settled(d)
    PROVE  /\ Range(queue[d]) = {} /\ Range(gets[d]) = {} /\ Range(mainq[d]) = {}
           /\ \A u : ~Queued(d, u) /\ ~Creating(d, u)
  <1>1. Quiet(d)
    BY DEF Settled
  <1>2. Range(queue[d]) = {} /\ Range(gets[d]) = {} /\ Range(mainq[d]) = {}
    BY <1>1, QuietRanges
  <1> QED BY <1>2 DEF Queued, Creating

\* Every step of the screens, of Firebase and of a relaunch keeps the inductive
\* invariant: what is in flight, whose documents are known, and what is under
\* way for users who wait.
THEOREM SessionInvariant == Spec => []SessionIndInv
  BY InitOK, NextOK, PTL DEF Spec

\* MainTabController's tabs are those of an account whose document the device
\* has, unless a service failed: fetchUser returns early where there is none,
\* and no document of an account is ever deleted.
THEOREM TabsKeepProfiles == Spec => []SessionInv
  <1>1. SessionIndInv => SessionInv
    <2> SUFFICES ASSUME SessionIndInv, ~failed, NEW d \in Devices, tabUser[d] # NoUser
                 PROVE  View(d, UserDoc(tabUser[d])) # NoDoc
      BY DEF SessionInv, TabsHaveProfile, SessionIndInv
    <2>1. PICK u : u = tabUser[d]
      OBVIOUS
    <2>2. FlightOK /\ u \in Users /\ Known(d, u)
      BY <2>1 DEF SessionIndInv, TabsKnown, SessionTypeOK
    <2> QED BY <2>1, <2>2, ViewIsKnown
  <1> QED BY <1>1, SessionInvariant, PTL

\* AuthService.registerUser stores the document of every account it creates,
\* however often it was called and whatever else runs, unless the app is killed
\* or a service fails in between.
THEOREM AccountsGetProfiles == Spec => []AccountsHaveProfiles
  <1>1. SessionIndInv => AccountsHaveProfiles
    <2> SUFFICES ASSUME SessionIndInv, crashes = 0, ~failed, \A d \in Devices : Settled(d),
                        NEW u \in accounts
                 PROVE  docs[UserDoc(u)] # NoDoc
      BY DEF AccountsHaveProfiles
    <2>1. \A d \in Devices : ~Queued(d, u) /\ ~Creating(d, u)
      BY SettledRanges
    <2> QED BY <2>1 DEF SessionIndInv, ProfilesDue
  <1> QED BY <1>1, SessionInvariant, PTL

\* Users who wait for every answer see a login screen when they are signed out
\* and the tabs of the account that is signed in otherwise, wherever the app is
\* killed: a read started for one account never ends up on another's screen.
THEOREM ScreensStayTruthful == Spec => []ScreensTruthful
  <1>1. SessionIndInv => LoginIsAsked
    BY DEF SessionIndInv, Waiting, Orderly, Asked, LoginIsAsked
  <1>2. SessionIndInv => TabsAreCurrent
    <2> SUFFICES ASSUME SessionIndInv, ~hasty, ~failed, NEW d \in Devices, Settled(d),
                        modal[d] = "none", docs[UserDoc(current[d])] # NoDoc
                 PROVE  tabUser[d] = current[d]
      BY DEF TabsAreCurrent
    <2>1. TabsComing(d, current[d]) \/ Orphan(current[d])
      BY DEF SessionIndInv, Waiting, Orderly, TabsDue
    <2>2. Range(gets[d]) = {} /\ Range(mainq[d]) = {}
      BY SettledRanges
    <2> QED BY <2>1, <2>2 DEF TabsComing, Orphan
  <1>3. SessionIndInv => ScreensTruthful
    BY <1>1, <1>2 DEF ScreensTruthful
  <1> QED BY <1>3, SessionInvariant, PTL
=============================================================================
