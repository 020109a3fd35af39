-------------------------- MODULE EditProfileProofs --------------------------
(***************************************************************************)
(* Proofs about EditProfile, for every set of posts and every bound.  The  *)
(* loader is treated for any number of devices, the pictures for one       *)
(* device; both need the server and Storage to answer every call.          *)
(***************************************************************************)
EXTENDS EditProfile, FirestoreProofs

OneDevice == \A d, e \in Devices : d = e

-----------------------------------------------------------------------------
(* What may be stored and in flight.                                       *)

Ks       == 1..MaxScreens
EditDocs == {UserDoc} \cup PostDocs
Screens  == [image : Nat, selected : BOOLEAN, changed : BOOLEAN]

SavedThens       == {Saved(k, more) : k \in Ks, more \in BOOLEAN}
UploadedThens(i) == {Uploaded(k, i) : k \in Ks}
UpdatedThens(i)  == {Updated(k, i) : k \in Ks}

\* The writes: of saveUserData, of the account's picture i and of the posts'.
SaveWrites      == [paths : {{UserDoc}}, data : Nat, upd : {FALSE}, then : SavedThens]
UpdateWrites(i) == [paths : {{UserDoc}}, data : {i}, upd : {TRUE}, then : UpdatedThens(i)]
PostsWrites(i)  == [paths : SUBSET PostDocs, data : {i}, upd : {TRUE}, then : {NoThen}]
EditWrites      == SaveWrites \cup UNION {UpdateWrites(i) \cup PostsWrites(i) : i \in Nat}

PostsRead(i) == getDocuments(PostDocs, FoundPosts(i))
EditReads    == {PostsRead(i) : i \in Nat}

SaveBlocks      == [then : SavedThens, res : BOOLEAN]
UploadBlocks(i) == [then : UploadedThens(i), res : {TRUE}]
UpdateBlocks(i) == [then : UpdatedThens(i), res : BOOLEAN]
FoundBlocks(i)  == [then : {FoundPosts(i)}, res : [PostDocs -> Nat]]
EditBlocks      == SaveBlocks \cup UNION {UploadBlocks(i) \cup UpdateBlocks(i) \cup FoundBlocks(i) : i \in Nat}

Deletes(i) == [op : {"delete"}, img : {i}, k : Ks]
Uploads(i) == [op : {"upload"}, img : {i}, k : Ks]
EditCalls  == UNION {Deletes(i) \cup Uploads(i) : i \in Nat}

FlightOK ==
    /\ queue \in QueuesOf(EditWrites)
    /\ gets \in QueuesOf(EditReads)
    /\ mainq \in QueuesOf(EditBlocks)
    /\ calls \in QueuesOf(EditCalls)

StateOK ==
    /\ docs \in [EditDocs -> Nat]
    /\ storage \subseteq Nat
    /\ profile \in [Devices -> Nat]
    /\ edits \in QueuesOf(Screens)
    /\ \A d \in Devices : Len(edits[d]) <= MaxScreens
    /\ open \in [Devices -> BOOLEAN]
    /\ \A d \in Devices : open[d] => edits[d] # <<>>
    /\ hud \in [Devices -> Huds({"edit"})]
    /\ uploads \in Nat
    /\ haste \subseteq {"screen", "done"}

\* Every picture that is named anywhere was handed out, and every block is of an
\* edit screen that was opened.
Known(i) == i <= uploads
Opened(d, k) == k <= Len(edits[d])

WriteKnown(d, w) == Known(w.data) /\ (w.then # NoThen => Opened(d, w.then.k))
BlockKnown(d, b) ==
    /\ b.then.kind # "saved" => Known(b.then.img)
    /\ b.then.kind # "foundPosts" => Opened(d, b.then.k)
CallKnown(d, c) == Known(c.img) /\ Opened(d, c.k)

KnownAt(d) ==
    /\ \A w \in Range(queue[d]) : WriteKnown(d, w)
    /\ \A r \in Range(gets[d]) : Known(r.then.img)
    /\ \A b \in Range(mainq[d]) : BlockKnown(d, b)
    /\ \A c \in Range(calls[d]) : CallKnown(d, c)

ShownKnown ==
    /\ \A x \in EditDocs : Known(docs[x])
    /\ \A i \in storage : Known(i)
    /\ \A d \in Devices : Known(profile[d]) /\ \A k \in DOMAIN edits[d] : Known(edits[d][k].image)

KnownInv == ShownKnown /\ \A d \in Devices : KnownAt(d)

TypesInv == FlightOK /\ StateOK /\ KnownInv

-----------------------------------------------------------------------------
(* The loader.                                                             *)

\* A block that dismisses the loader of d is to come.
SaveComing(d) ==
    \/ \E c \in Range(calls[d]) : c.op = "upload"
    \/ \E w \in Range(queue[d]) : w.then # NoThen
    \/ \E b \in Range(mainq[d]) : b.then.kind # "foundPosts"

LoaderInv == \A d \in Devices : Stays(hud[d]) => SaveComing(d)

-----------------------------------------------------------------------------
(* The pictures, on the one device.                                        *)

Image(d) == edits[d][Len(edits[d])].image

\* The blocks in flight on d are the last edit screen's.
LastScreen(d) ==
    LET n == Len(edits[d])
    IN  /\ \A w \in Range(queue[d]) : w.then # NoThen => w.then.k = n
        /\ \A b \in Range(mainq[d]) : b.then.kind # "foundPosts" => b.then.k = n
        /\ \A c \in Range(calls[d]) : c.k = n

\* A save that uploads a picture follows every later save in a queue.
MoreLast(s) == \A i, j \in DOMAIN s : i < j /\ s[i].then.more => s[j].then.more

\* No picture was uploaded from the last edit screen: nothing but the names is in
\* flight, with the picture that the account, the profile and the screen agree on.
Early(d) ==
    /\ calls[d] = <<>> /\ gets[d] = <<>>
    /\ \A w \in Range(queue[d]) : w \in SaveWrites /\ w.data = profile[d]
    /\ \A b \in Range(mainq[d]) : b \in SaveBlocks
    /\ docs[UserDoc] = profile[d] /\ profile[d] \in storage
    /\ edits[d] # <<>> => Image(d) = profile[d]
    /\ MoreLast(mainq[d]) /\ MoreLast(queue[d])
    /\ (\E b \in Range(mainq[d]) : b.then.more) => \A w \in Range(queue[d]) : w.then.more
    /\ (\E x \in Range(mainq[d]) \cup Range(queue[d]) : x.then.more) => Last(edits[d]).selected
    /\ Range(mainq[d]) \cup Range(queue[d]) # {} => Last(edits[d]).changed

\* At most one element of s is in T.
AtMostOne(s, T) == \A i, j \in DOMAIN s : s[i] \in T /\ s[j] \in T => i = j

\* Where the picture i is on its way to the account: to Storage, to the server, or
\* in a completion block.
TokenBlocks(i)  == UploadBlocks(i) \cup UpdateBlocks(i)
Uploading(d, i) == \E c \in Range(calls[d]) : c \in Uploads(i)
Updating(d, i)  == \E w \in Range(queue[d]) : w \in UpdateWrites(i)
Passing(d, i)   == \E b \in Range(mainq[d]) : b \in TokenBlocks(i)
Deleting(d, i)  == \E c \in Range(calls[d]) : c \in Deletes(i)
Safe(d, i)      == i \in storage /\ ~Deleting(d, i)

\* It is in one place, was never the screen's and stays in Storage.
TokenAt(d, i) ==
    /\ AtMostOne(calls[d], Uploads(i)) /\ AtMostOne(queue[d], UpdateWrites(i))
    /\ AtMostOne(mainq[d], TokenBlocks(i))
    /\ Uploading(d, i) => ~Updating(d, i) /\ ~Passing(d, i) /\ ~Deleting(d, i)
    /\ Updating(d, i) => ~Passing(d, i)
    /\ Uploading(d, i) \/ Updating(d, i) \/ Passing(d, i) => Image(d) # i
    /\ Updating(d, i) \/ Passing(d, i) => Safe(d, i)

\* A picture is still to be written to the account.
Coming(d) ==
    \/ \E w \in Range(queue[d]) : w \in SaveWrites
    \/ \E b \in Range(mainq[d]) : b \in SaveBlocks
    \/ \E i \in Nat : Uploading(d, i) \/ Updating(d, i)
    \/ \E i \in Nat : \E b \in Range(mainq[d]) : b \in UploadBlocks(i)

\* The last of the blocks of s that replace the profile's picture p, or else p
\* itself, is the picture i.
IsUpdate(b) == b.then.kind = "updated"
Shows(s, p, i) ==
    \/ \E n \in DOMAIN s : /\ IsUpdate(s[n]) /\ s[n].then.img = i
                           /\ \A m \in DOMAIN s : m > n => ~IsUpdate(s[m])
    \/ p = i /\ \A n \in DOMAIN s : ~IsUpdate(s[n])
ShowsLast(d, i) == Shows(mainq[d], profile[d], i)

\* A picture was uploaded from the last edit screen.
Late(d) ==
    /\ edits[d] # <<>> /\ Last(edits[d]).selected
    /\ \A w \in Range(queue[d]) : w \in SaveWrites => w.then.more
    /\ \A b \in Range(mainq[d]) : b \in SaveBlocks => b.then.more
    /\ \A b \in Range(mainq[d]) : IsUpdate(b) => b.res
    /\ \A i \in Nat : TokenAt(d, i)
    /\ ~Coming(d) => Safe(d, docs[UserDoc]) /\ ShowsLast(d, docs[UserDoc])

PictureAt(d) == LastScreen(d) /\ (Early(d) \/ Late(d))

PictureInv == "screen" \notin haste => \A d \in Devices : PictureAt(d)

-----------------------------------------------------------------------------
(* The posts, when users let every touch settle.                           *)

AnyUploading(d) == \E c \in Range(calls[d]) : c.op = "upload"
AllUploads == UNION {Uploads(i) : i \in Nat}

\* At most one thing, apart from deletions in Storage, is in flight.
OneThing(d) ==
    /\ queue[d] # <<>> => Len(queue[d]) = 1 /\ gets[d] = <<>> /\ mainq[d] = <<>> /\ ~AnyUploading(d)
    /\ gets[d] # <<>> => Len(gets[d]) = 1 /\ queue[d] = <<>> /\ mainq[d] = <<>> /\ ~AnyUploading(d)
    /\ mainq[d] # <<>> => Len(mainq[d]) = 1 /\ queue[d] = <<>> /\ gets[d] = <<>> /\ ~AnyUploading(d)
    /\ AtMostOne(calls[d], AllUploads)

AllShow == \A x \in PostDocs : docs[x] = docs[UserDoc]

\* What is in flight is the next step towards posts that show the account's picture.
WriteAgrees(w) ==
    /\ w \in SaveWrites => AllShow /\ w.data = docs[UserDoc]
    /\ w.then = NoThen => w.data = docs[UserDoc] /\ \A x \in PostDocs \ w.paths : docs[x] = docs[UserDoc]
BlockAgrees(b) ==
    /\ b \in SaveBlocks => AllShow
    /\ b.then.kind \in {"updated", "foundPosts"} => b.then.img = docs[UserDoc]

PostsAt(d) ==
    /\ OneThing(d)
    /\ edits[d] # <<>> => Image(d) = profile[d]
    /\ \A w \in Range(queue[d]) : WriteAgrees(w)
    /\ \A b \in Range(mainq[d]) : BlockAgrees(b)
    /\ \A r \in Range(gets[d]) : r.then.img = docs[UserDoc]
    /\ Quiet(d) /\ ~AnyUploading(d) => AllShow

PostsInv == haste = {} => \A d \in Devices : PostsAt(d)
-----------------------------------------------------------------------------
(* Shapes of documents, writes, reads, blocks and calls.                   *)

LEMMA DocFacts ==
    UserDoc \in EditDocs /\ PostDocs \subseteq EditDocs /\ UserDoc \notin PostDocs
  BY DEF EditDocs, UserDoc, PostDocs, PostDoc

LEMMA ThenFacts ==
    /\ \A x \in SavedThens : x.kind = "saved" /\ x.k \in Ks /\ x.more \in BOOLEAN /\ x # NoThen
    /\ \A i \in Nat : \A x \in UploadedThens(i) : x.kind = "uploaded" /\ x.k \in Ks /\ x.img = i
    /\ \A i \in Nat : \A x \in UpdatedThens(i) : x.kind = "updated" /\ x.k \in Ks /\ x.img = i /\ x # NoThen
    /\ \A i \in Nat : FoundPosts(i).kind = "foundPosts" /\ FoundPosts(i).img = i
  <1>1. ASSUME NEW x \in SavedThens PROVE x.kind = "saved" /\ x.k \in Ks /\ x.more \in BOOLEAN /\ x # NoThen
    <2>1. x \in [kind : {"saved"}, k : 1..MaxScreens, more : BOOLEAN]
      BY DEF SavedThens, Saved, Ks
    <2> QED BY <2>1, EditAssumption DEF Ks
  <1>2. \A i \in Nat : \A x \in UploadedThens(i) : x.kind = "uploaded" /\ x.k \in Ks /\ x.img = i
    BY DEF UploadedThens, Uploaded
  <1>3. ASSUME NEW i \in Nat, NEW x \in UpdatedThens(i)
        PROVE  x.kind = "updated" /\ x.k \in Ks /\ x.img = i /\ x # NoThen
    <2>1. x \in [kind : {"updated"}, k : 1..MaxScreens, img : {i}]
      BY DEF UpdatedThens, Updated, Ks
    <2>2. x \in [kind : {"updated"}, k : 1..MaxScreens, img : Nat]
      BY <2>1
    <2> QED BY <2>1, <2>2, EditAssumption DEF Ks
  <1>4. \A i \in Nat : FoundPosts(i).kind = "foundPosts" /\ FoundPosts(i).img = i
    BY DEF FoundPosts
  <1> QED BY <1>1, <1>2, <1>3, <1>4

LEMMA SaveFacts ==
    ASSUME NEW w \in SaveWrites
    PROVE  /\ w \in EditWrites /\ w.paths = {UserDoc} /\ w.data \in Nat /\ ~w.upd
           /\ w.then \in SavedThens /\ w.then.kind = "saved" /\ w.then # NoThen
  <1>1. w.paths = {UserDoc} /\ w.data \in Nat /\ ~w.upd /\ w.then \in SavedThens
    BY DEF SaveWrites
  <1> QED BY <1>1, ThenFacts DEF EditWrites

LEMMA UpdateFacts ==
    ASSUME NEW i \in Nat, NEW w \in UpdateWrites(i)
    PROVE  /\ w \in EditWrites /\ w.paths = {UserDoc} /\ w.data = i /\ w.upd /\ w.then \in UpdatedThens(i)
           /\ w.then.kind = "updated" /\ w.then.img = i /\ w.then # NoThen
  <1>1. w.paths = {UserDoc} /\ w.data = i /\ w.upd /\ w.then \in UpdatedThens(i)
    BY DEF UpdateWrites
  <1> QED BY <1>1, ThenFacts DEF EditWrites

LEMMA PostsFacts ==
    ASSUME NEW i \in Nat, NEW w \in PostsWrites(i)
    PROVE  /\ w \in EditWrites /\ w.paths \subseteq PostDocs /\ w.data = i /\ w.upd /\ w.then = NoThen
           /\ \A path : /\ Trimmed(w, path) \in PostsWrites(i)
                        /\ Trimmed(w, path).paths = w.paths \ {path}
                        /\ Trimmed(w, path).data = i /\ Trimmed(w, path).then = NoThen
  <1>1. w.paths \subseteq PostDocs /\ w.data = i /\ w.upd /\ w.then = NoThen
    BY DEF PostsWrites
  <1>2. \A path : /\ Trimmed(w, path) \in PostsWrites(i)
                  /\ Trimmed(w, path).paths = w.paths \ {path}
                  /\ Trimmed(w, path).data = i /\ Trimmed(w, path).then = NoThen
    BY DEF PostsWrites, Trimmed
  <1> QED BY <1>1, <1>2 DEF EditWrites

LEMMA WriteCases ==
    ASSUME NEW w \in EditWrites
    PROVE  w \in SaveWrites \/ \E i \in Nat : w \in UpdateWrites(i) \/ w \in PostsWrites(i)
  BY DEF EditWrites

\* A write is known by its block.
LEMMA KindOfWrite ==
    ASSUME NEW w \in EditWrites
    PROVE  /\ w.data \in Nat /\ w.paths \subseteq EditDocs
           /\ w.then = NoThen => w \in PostsWrites(w.data)
           /\ w.then.kind = "saved" => w.then = NoThen \/ w \in SaveWrites
           /\ w.then # NoThen => w.then.kind \in {"saved", "updated"} /\ w.paths = {UserDoc} /\ w.then.k \in Ks
           /\ w.then # NoThen /\ w.then.kind = "updated" => w \in UpdateWrites(w.data) /\ w.then.img = w.data
  <1>1. CASE w \in SaveWrites
    BY <1>1, SaveFacts, ThenFacts, DocFacts
  <1>2. ASSUME NEW i \in Nat, w \in UpdateWrites(i)
        PROVE  /\ w.data = i /\ w.paths = {UserDoc} /\ w.then # NoThen /\ w.then.kind = "updated"
               /\ w.then.k \in Ks /\ w.then.img = i
    BY <1>2, UpdateFacts, ThenFacts
  <1>3. ASSUME NEW i \in Nat, w \in PostsWrites(i)
        PROVE  w.data = i /\ w.paths \subseteq PostDocs /\ w.then = NoThen
    BY <1>3, PostsFacts
  <1> QED BY <1>1, <1>2, <1>3, WriteCases, DocFacts

LEMMA WriteTells ==
    ASSUME NEW w \in EditWrites
    PROVE  /\ Tells(w, EditBlocks)
           /\ \A path \in w.paths : w.paths # {path} => Trimmed(w, path) \in EditWrites
  <1>1. CASE w \in SaveWrites
    <2>1. \A a \in BOOLEAN : [then |-> w.then, res |-> a] \in SaveBlocks
      BY <1>1, SaveFacts DEF SaveBlocks
    <2>2. Tells(w, EditBlocks)
      BY <2>1 DEF Tells, EditBlocks
    <2> QED BY <1>1, <2>2, SaveFacts
  <1>2. ASSUME NEW i \in Nat, w \in UpdateWrites(i)
        PROVE  /\ Tells(w, EditBlocks)
               /\ \A path \in w.paths : w.paths # {path} => Trimmed(w, path) \in EditWrites
    <2>1. \A a \in BOOLEAN : [then |-> w.then, res |-> a] \in UpdateBlocks(i)
      BY <1>2, UpdateFacts DEF UpdateBlocks
    <2>2. Tells(w, EditBlocks)
      BY <2>1 DEF Tells, EditBlocks
    <2> QED BY <1>2, <2>2, UpdateFacts
  <1>3. ASSUME NEW i \in Nat, w \in PostsWrites(i)
        PROVE  /\ Tells(w, EditBlocks)
               /\ \A path \in w.paths : w.paths # {path} => Trimmed(w, path) \in EditWrites
    <2>1. Tells(w, EditBlocks)
      BY <1>3, PostsFacts DEF Tells
    <2>2. \A path : Trimmed(w, path) \in EditWrites
      BY <1>3, PostsFacts
    <2> QED BY <2>1, <2>2
  <1> QED BY <1>1, <1>2, <1>3, WriteCases

LEMMA ReadFacts ==
    /\ \A i \in Nat : /\ PostsRead(i) \in EditReads /\ PostsRead(i).paths = PostDocs /\ ~PostsRead(i).each
                      /\ PostsRead(i).then = FoundPosts(i) /\ PostsRead(i).then.img = i
    /\ \A r \in EditReads : r.then.img \in Nat /\ r = PostsRead(r.then.img) /\ ~r.each /\ r.paths = PostDocs
  <1>1. ASSUME NEW i \in Nat
        PROVE  /\ PostsRead(i) \in EditReads /\ PostsRead(i).paths = PostDocs /\ ~PostsRead(i).each
               /\ PostsRead(i).then = FoundPosts(i) /\ PostsRead(i).then.img = i
    <2>1. PostsRead(i) \in EditReads
      BY DEF EditReads
    <2>2. PostsRead(i).paths = PostDocs /\ ~PostsRead(i).each /\ PostsRead(i).then = FoundPosts(i)
      BY DEF PostsRead, getDocuments, Read
    <2> QED BY <2>1, <2>2, ThenFacts
  <1>2. ASSUME NEW r \in EditReads
        PROVE  r.then.img \in Nat /\ r = PostsRead(r.then.img) /\ ~r.each /\ r.paths = PostDocs
    <2>1. PICK i \in Nat : r = PostsRead(i)
      BY DEF EditReads
    <2> QED BY <1>1, <2>1
  <1> QED BY <1>1, <1>2

LEMMA BlockFacts ==
    /\ \A b \in SaveBlocks : b \in EditBlocks /\ b.then \in SavedThens /\ b.then.kind = "saved" /\ b.then.k \in Ks
                             /\ b.then.more \in BOOLEAN
    /\ \A i \in Nat : \A b \in UploadBlocks(i) :
          b \in EditBlocks /\ b.then.kind = "uploaded" /\ b.then.img = i /\ b.then.k \in Ks
    /\ \A i \in Nat : \A b \in UpdateBlocks(i) :
          /\ b \in EditBlocks /\ b.then.kind = "updated" /\ b.then.img = i /\ b.then.k \in Ks
          /\ b.res \in BOOLEAN
    /\ \A i \in Nat : \A b \in FoundBlocks(i) :
          b \in EditBlocks /\ b.then.kind = "foundPosts" /\ b.then.img = i
  <1>1. \A b \in SaveBlocks : b \in EditBlocks /\ b.then \in SavedThens
    BY DEF EditBlocks, SaveBlocks
  <1>2. \A i \in Nat : \A b \in UploadBlocks(i) : b \in EditBlocks /\ b.then \in UploadedThens(i)
    <2>1. \A i \in Nat : \A b \in UploadBlocks(i) : b \in EditBlocks
      BY DEF EditBlocks
    <2>2. \A i : \A b \in UploadBlocks(i) : b.then \in UploadedThens(i)
      BY DEF UploadBlocks
    <2> QED BY <2>1, <2>2
  <1>3. \A i \in Nat : \A b \in UpdateBlocks(i) : b \in EditBlocks /\ b.then \in UpdatedThens(i) /\ b.res \in BOOLEAN
    BY DEF EditBlocks, UpdateBlocks
  <1>4. \A i \in Nat : \A b \in FoundBlocks(i) : b \in EditBlocks /\ b.then = FoundPosts(i)
    BY DEF EditBlocks, FoundBlocks
  <1> QED BY <1>1, <1>2, <1>3, <1>4, ThenFacts

LEMMA BlockCases ==
    ASSUME NEW b \in EditBlocks
    PROVE  \/ b \in SaveBlocks
           \/ \E i \in Nat : b \in UploadBlocks(i) \/ b \in UpdateBlocks(i) \/ b \in FoundBlocks(i)
  BY DEF EditBlocks

\* A block is known by its kind.
LEMMA KindOfBlock ==
    ASSUME NEW b \in EditBlocks
    PROVE  /\ b.then.kind \in {"saved", "uploaded", "updated", "foundPosts"}
           /\ b.then.kind = "saved" => b \in SaveBlocks
           /\ b.then.kind = "uploaded" => b.then.img \in Nat /\ b \in UploadBlocks(b.then.img)
           /\ b.then.kind = "updated" => b.then.img \in Nat /\ b \in UpdateBlocks(b.then.img)
           /\ b.then.kind = "foundPosts" => b.then.img \in Nat /\ b \in FoundBlocks(b.then.img)
           /\ b.then.kind # "saved" => b.then.img \in Nat
           /\ b.then.kind # "foundPosts" => b.then.k \in Ks
  BY BlockCases, BlockFacts

LEMMA CallFacts ==
    /\ \A i \in Nat : \A c \in Uploads(i) : c \in EditCalls /\ c.op = "upload" /\ c.img = i /\ c.k \in Ks
    /\ \A i \in Nat : \A c \in Deletes(i) : c \in EditCalls /\ c.op = "delete" /\ c.img = i /\ c.k \in Ks
    /\ \A c \in EditCalls : /\ c.img \in Nat /\ c.k \in Ks /\ c.op \in {"upload", "delete"}
                            /\ c.op = "upload" => c \in Uploads(c.img)
                            /\ c.op = "delete" => c \in Deletes(c.img)
  <1>1. \A i \in Nat : \A c \in Uploads(i) : c \in EditCalls /\ c.op = "upload" /\ c.img = i /\ c.k \in Ks
    BY DEF Uploads, EditCalls
  <1>2. \A i \in Nat : \A c \in Deletes(i) : c \in EditCalls /\ c.op = "delete" /\ c.img = i /\ c.k \in Ks
    BY DEF Deletes, EditCalls
  <1>3. \A c \in EditCalls : \E i \in Nat : c \in Uploads(i) \/ c \in Deletes(i)
    BY DEF EditCalls
  <1> QED BY <1>1, <1>2, <1>3

-----------------------------------------------------------------------------
(* What the steps do to the queues.                                        *)

\* Nothing is in flight on d that was not before, but for the writes W, the reads
\* R, the blocks B and the calls C; nothing is new on the other devices.
Adds(d, W, R, B, C) ==
    /\ \A e \in Devices \ {d} : /\ queue'[e] = queue[e] /\ gets'[e] = gets[e]
                                /\ mainq'[e] = mainq[e] /\ calls'[e] = calls[e]
    /\ Range(queue'[d]) \subseteq Range(queue[d]) \cup W
    /\ Range(gets'[d]) \subseteq Range(gets[d]) \cup R
    /\ Range(mainq'[d]) \subseteq Range(mainq[d]) \cup B
    /\ Range(calls'[d]) \subseteq Range(calls[d]) \cup C

\* More pictures and screens may be known afterwards.
Grows ==
    /\ uploads' \in Nat /\ uploads <= uploads'
    /\ \A e \in Devices : Len(edits'[e]) \in Nat /\ Len(edits[e]) <= Len(edits'[e])

LEMMA FlightFacts ==
    ASSUME TypesInv, NEW d \in Devices
    PROVE  /\ queue[d] \in Seq(EditWrites) /\ Range(queue[d]) \subseteq EditWrites
           /\ gets[d] \in Seq(EditReads) /\ Range(gets[d]) \subseteq EditReads
           /\ mainq[d] \in Seq(EditBlocks) /\ Range(mainq[d]) \subseteq EditBlocks
           /\ calls[d] \in Seq(EditCalls) /\ Range(calls[d]) \subseteq EditCalls
           /\ edits[d] \in Seq(Screens) /\ Range(edits[d]) \subseteq Screens /\ Len(edits[d]) \in Nat
  <1>1. queue[d] \in Seq(EditWrites) /\ Range(queue[d]) \subseteq EditWrites
    BY InQueue DEF TypesInv, FlightOK
  <1>2. gets[d] \in Seq(EditReads) /\ Range(gets[d]) \subseteq EditReads
    BY InQueue DEF TypesInv, FlightOK
  <1>3. mainq[d] \in Seq(EditBlocks) /\ Range(mainq[d]) \subseteq EditBlocks
    BY InQueue DEF TypesInv, FlightOK
  <1>4. calls[d] \in Seq(EditCalls) /\ Range(calls[d]) \subseteq EditCalls
    BY InQueue DEF TypesInv, FlightOK
  <1>5. edits[d] \in Seq(Screens) /\ Range(edits[d]) \subseteq Screens
    BY InQueue DEF TypesInv, StateOK
  <1>6. Len(edits[d]) \in Nat
    BY <1>5
  <1> QED BY <1>1, <1>2, <1>3, <1>4, <1>5, <1>6

\* What is in flight stays known.
LEMMA KnownGrows ==
    ASSUME TypesInv, Grows, NEW e \in Devices
    PROVE  /\ \A i \in Nat : Known(i) => Known(i)'
           /\ \A k \in Nat : Opened(e, k) => Opened(e, k)'
           /\ \A w \in EditWrites : WriteKnown(e, w) => WriteKnown(e, w)'
           /\ \A r \in EditReads : Known(r.then.img) => Known(r.then.img)'
           /\ \A b \in EditBlocks : BlockKnown(e, b) => BlockKnown(e, b)'
           /\ \A c \in EditCalls : CallKnown(e, c) => CallKnown(e, c)'
  <1>1. \A i \in Nat : Known(i) => Known(i)'
    BY DEF TypesInv, StateOK, Grows, Known
  <1>2. \A k \in Nat : Opened(e, k) => Opened(e, k)'
    <2>1. Len(edits[e]) \in Nat
      BY FlightFacts
    <2> QED BY <2>1 DEF Grows, Opened
  <1>3. Ks \subseteq Nat
    BY DEF Ks
  <1>4. ASSUME NEW w \in EditWrites, WriteKnown(e, w) PROVE WriteKnown(e, w)'
    <2>1. w.data \in Nat /\ (w.then # NoThen => w.then.k \in Nat)
      BY <1>3, KindOfWrite
    <2> QED BY <1>1, <1>2, <1>4, <2>1 DEF WriteKnown
  <1>5. \A r \in EditReads : Known(r.then.img) => Known(r.then.img)'
    BY <1>1, ReadFacts
  <1>6. ASSUME NEW b \in EditBlocks, BlockKnown(e, b) PROVE BlockKnown(e, b)'
    <2>1. b.then.kind # "saved" => b.then.img \in Nat
      BY KindOfBlock
    <2>2. b.then.kind # "foundPosts" => b.then.k \in Nat
      BY <1>3, KindOfBlock
    <2> QED BY <1>1, <1>2, <1>6, <2>1, <2>2 DEF BlockKnown
  <1>7. \A c \in EditCalls : CallKnown(e, c) => CallKnown(e, c)'
    BY <1>1, <1>2, <1>3, CallFacts DEF CallKnown
  <1> QED BY <1>1, <1>2, <1>4, <1>5, <1>6, <1>7

LEMMA KnownAdds ==
    ASSUME TypesInv, Grows, NEW d \in Devices, NEW W, NEW R, NEW B, NEW C, Adds(d, W, R, B, C),
           \A w \in W : WriteKnown(d, w)', \A r \in R : Known(r.then.img)',
           \A b \in B : BlockKnown(d, b)', \A c \in C : CallKnown(d, c)'
    PROVE  \A e \in Devices : KnownAt(e)'
  <1> SUFFICES ASSUME NEW e \in Devices PROVE KnownAt(e)'
    OBVIOUS
  <1>1. KnownAt(e)
    BY DEF TypesInv, KnownInv
  <1>2. /\ \A w \in Range(queue[e]) : WriteKnown(e, w)'
        /\ \A r \in Range(gets[e]) : Known(r.then.img)'
        /\ \A b \in Range(mainq[e]) : BlockKnown(e, b)'
        /\ \A c \in Range(calls[e]) : CallKnown(e, c)'
    BY <1>1, FlightFacts, KnownGrows DEF KnownAt
  <1>3. CASE e # d
    <2>1. queue'[e] = queue[e] /\ gets'[e] = gets[e] /\ mainq'[e] = mainq[e] /\ calls'[e] = calls[e]
      BY <1>3 DEF Adds
    <2> QED BY <1>2, <2>1 DEF KnownAt
  <1>4. CASE e = d
    BY <1>2, <1>4 DEF KnownAt, Adds
  <1> QED BY <1>3, <1>4

\* The documents, Storage and the screens stay known when they do not change.
LEMMA ShownGrows ==
    ASSUME TypesInv, Grows
    PROVE  /\ \A x \in EditDocs : docs[x] \in Nat /\ docs[x] <= uploads'
           /\ \A i \in storage : i \in Nat /\ i <= uploads'
           /\ \A e \in Devices : profile[e] \in Nat /\ profile[e] <= uploads'
           /\ \A e \in Devices : \A k \in DOMAIN edits[e] : edits[e][k].image \in Nat /\ edits[e][k].image <= uploads'
  <1>0. \A i \in Nat : Known(i) => i <= uploads'
    BY DEF TypesInv, StateOK, Grows, Known
  <1>1. \A x \in EditDocs : docs[x] \in Nat /\ Known(docs[x])
    BY DEF TypesInv, StateOK, KnownInv, ShownKnown
  <1>2. \A i \in storage : i \in Nat /\ Known(i)
    BY DEF TypesInv, StateOK, KnownInv, ShownKnown
  <1>3. \A e \in Devices : profile[e] \in Nat /\ Known(profile[e])
    BY DEF TypesInv, StateOK, KnownInv, ShownKnown
  <1>4. ASSUME NEW e \in Devices, NEW k \in DOMAIN edits[e]
        PROVE  edits[e][k].image \in Nat /\ Known(edits[e][k].image)
    <2>1. edits[e][k] \in Screens
      BY FlightFacts
    <2> QED BY <2>1 DEF Screens, TypesInv, KnownInv, ShownKnown
  <1> QED BY <1>0, <1>1, <1>2, <1>3, <1>4

\* What is unchanged apart from the queues.
LEMMA StateKept ==
    ASSUME TypesInv, UNCHANGED <<storage, profile, edits, open, hud, uploads>>, haste' \subseteq {"screen", "done"},
           docs' \in [EditDocs -> Nat], \A x \in EditDocs : docs'[x] <= uploads
    PROVE  StateOK' /\ Grows /\ ShownKnown'
  <1>1. Grows
    <2>1. \A e \in Devices : Len(edits[e]) \in Nat
      BY FlightFacts
    <2> QED BY <2>1 DEF Grows, TypesInv, StateOK
  <1>2. StateOK'
    BY DEF TypesInv, StateOK
  <1>3. ShownKnown'
    BY DEF TypesInv, KnownInv, ShownKnown, Known
  <1> QED BY <1>1, <1>2, <1>3

\* The oldest write of d is answered.
AnsweredHead(d, done, w, path) ==
    /\ AnsweredPart(d, done, w, path) /\ path \in w.paths
    /\ queue[d] # <<>> /\ w = Head(queue[d])
    /\ queue'[d] = IF w.paths = {path} THEN Tail(queue[d]) ELSE <<Trimmed(w, path)>> \o Tail(queue[d])

LEMMA AnswerHead ==
    ASSUME TypesInv, NEW d \in Devices, NEW done \in BOOLEAN, Answer(d, done)
    PROVE  /\ queue' \in QueuesOf(EditWrites) /\ mainq' \in QueuesOf(EditBlocks)
           /\ \E w \in EditWrites : \E path : AnsweredHead(d, done, w, path)
  <1>1. PICK w : w = Head(queue[d])
    OBVIOUS
  <1>2. queue[d] # <<>>
    BY DEF Answer
  <1>3. w \in EditWrites
    BY <1>1, <1>2, FlightFacts, RangeOfTail
  <1>4. PICK path \in w.paths :
            /\ docs' = IF done /\ Accepts(w, path) THEN [docs EXCEPT ![path] = w.data] ELSE docs
            /\ queue' = [queue EXCEPT ![d] =
                 IF w.paths = {path} THEN Tail(@)
                 ELSE <<[w EXCEPT !.paths = @ \ {path}]>> \o Tail(@)]
            /\ mainq' = IF w.then = NoThen THEN mainq
                        ELSE [mainq EXCEPT ![d] = Append(@, [then |-> w.then, res |-> done /\ Accepts(w, path)])]
    BY <1>1 DEF Answer
  <1>5. queue \in [Devices -> Seq(EditWrites)] /\ mainq \in [Devices -> Seq(EditBlocks)]
    BY DEF TypesInv, FlightOK, QueuesOf
  <1>6. queue'[d] = IF w.paths = {path} THEN Tail(queue[d]) ELSE <<Trimmed(w, path)>> \o Tail(queue[d])
    BY <1>4, <1>5 DEF Trimmed
  <1>7. PICK ans : ans = [then |-> w.then, res |-> done /\ Accepts(w, path)]
    OBVIOUS
  <1>8. mainq'[d] = IF w.then = NoThen THEN mainq[d] ELSE Append(mainq[d], ans)
    BY <1>4, <1>5, <1>7
  <1>9. \A e \in Devices \ {d} : queue'[e] = queue[e] /\ mainq'[e] = mainq[e]
    BY <1>4, <1>5
  <1>10. Tail(queue[d]) \in Seq(EditWrites) /\ Range(queue[d]) = {w} \cup Range(Tail(queue[d]))
    BY <1>1, <1>2, FlightFacts, RangeOfTail
  <1>11. /\ queue'[d] \in Seq(EditWrites)
         /\ Range(queue'[d]) = Range(Tail(queue[d])) \cup (IF w.paths = {path} THEN {} ELSE {Trimmed(w, path)})
    <2>1. CASE w.paths = {path}
      BY <1>6, <1>10, <2>1
    <2>2. CASE w.paths # {path}
      <3>1. PICK x : x = Trimmed(w, path)
        OBVIOUS
      <3>2. x \in EditWrites
        BY <1>3, <1>4, <2>2, <3>1, WriteTells
      <3>3. <<x>> \in Seq(EditWrites) /\ Range(<<x>>) = {x}
        BY <3>2, RangeOfOne
      <3>4. <<x>> \o Tail(queue[d]) \in Seq(EditWrites) /\ Range(<<x>> \o Tail(queue[d])) = Range(<<x>>) \cup Range(Tail(queue[d]))
        <4>1. PICK u, v : u = <<x>> /\ v = Tail(queue[d])
          OBVIOUS
        <4>2. u \in Seq(EditWrites) /\ v \in Seq(EditWrites)
          BY <1>10, <3>3, <4>1
        <4>3. u \o v \in Seq(EditWrites) /\ Range(u \o v) = Range(u) \cup Range(v)
          BY <4>2, RangeOfConcat
        <4> QED BY <4>1, <4>3
      <3> QED BY <1>6, <2>2, <3>1, <3>3, <3>4
    <2> QED BY <2>1, <2>2
  <1>12. /\ mainq'[d] \in Seq(EditBlocks)
         /\ Range(mainq'[d]) = Range(mainq[d]) \cup (IF w.then = NoThen THEN {} ELSE {ans})
    <2>1. mainq[d] \in Seq(EditBlocks)
      BY FlightFacts
    <2>2. CASE w.then = NoThen
      BY <1>8, <2>1, <2>2
    <2>3. CASE w.then # NoThen
      <3>1. ans \in EditBlocks
        <4>1. Tells(w, EditBlocks)
          BY <1>3, WriteTells
        <4>2. (done /\ Accepts(w, path)) \in BOOLEAN
          BY DEF Accepts
        <4> QED BY <1>7, <2>3, <4>1, <4>2 DEF Tells
      <3> QED BY <1>8, <2>1, <2>3, <3>1, RangeOfAppend
    <2> QED BY <2>2, <2>3
  <1>13. queue' \in QueuesOf(EditWrites)
    <2>1. DOMAIN queue' = Devices /\ queue' = [e \in Devices |-> queue'[e]]
      BY <1>4, <1>5
    <2> QED BY <1>5, <1>9, <1>11, <2>1 DEF QueuesOf
  <1>14. mainq' \in QueuesOf(EditBlocks)
    <2>1. DOMAIN mainq' = Devices /\ mainq' = [e \in Devices |-> mainq'[e]]
      BY <1>4, <1>5
    <2> QED BY <1>5, <1>9, <1>12, <2>1 DEF QueuesOf
  <1>15. gets' = gets
    BY DEF Answer
  <1>16. docs' = IF done /\ Accepts(w, path) THEN [docs EXCEPT ![path] = w.data] ELSE docs
    BY <1>4
  <1>17. AnsweredPart(d, done, w, path)
    BY <1>7, <1>8, <1>9, <1>10, <1>11, <1>12, <1>15, <1>16 DEF AnsweredPart
  <1>18. AnsweredHead(d, done, w, path)
    BY <1>1, <1>2, <1>6, <1>17 DEF AnsweredHead
  <1> QED BY <1>3, <1>13, <1>14, <1>18

LEMMA AnswerTypes ==
    ASSUME TypesInv, NEW d \in Devices, NEW done \in BOOLEAN, Answer(d, done), UNCHANGED appVars, haste' = haste
    PROVE  TypesInv'
  <1>1. queue' \in QueuesOf(EditWrites) /\ mainq' \in QueuesOf(EditBlocks)
    BY AnswerHead
  <1>2. PICK w \in EditWrites : \E path : AnsweredHead(d, done, w, path)
    BY AnswerHead
  <1>3. PICK path : AnsweredHead(d, done, w, path)
    BY <1>2
  <1>4. AnsweredPart(d, done, w, path) /\ path \in w.paths
    BY <1>3 DEF AnsweredHead
  <1>5. UNCHANGED <<storage, calls, profile, edits, open, hud, uploads>> /\ gets' = gets
    BY <1>4 DEF appVars, AnsweredPart
  <1>6. FlightOK'
    BY <1>1, <1>5 DEF TypesInv, FlightOK
  <1>7. WriteKnown(d, w) /\ w.data \in Nat /\ w.paths \subseteq EditDocs
    <2>1. w \in Range(queue[d])
      BY <1>4 DEF AnsweredPart
    <2> QED BY <2>1, KindOfWrite DEF TypesInv, KnownInv, KnownAt
  <1>8. docs' \in [EditDocs -> Nat] /\ \A x \in EditDocs : docs'[x] <= uploads
    <2>1. docs' = docs \/ docs' = [docs EXCEPT ![path] = w.data]
      BY <1>4 DEF AnsweredPart
    <2>2. docs \in [EditDocs -> Nat] /\ \A x \in EditDocs : docs[x] <= uploads
      BY DEF TypesInv, StateOK, KnownInv, ShownKnown, Known
    <2>3. w.data <= uploads
      BY <1>7 DEF WriteKnown, Known
    <2> QED BY <1>4, <1>7, <2>1, <2>2, <2>3
  <1>9. StateOK' /\ Grows /\ ShownKnown'
    <2>1. haste' \subseteq {"screen", "done"}
      BY DEF TypesInv, StateOK
    <2> QED BY <1>5, <1>8, <2>1, StateKept
  <1>10. Adds(d, {Trimmed(w, path)}, {}, IF w.then = NoThen THEN {} ELSE {[then |-> w.then, res |-> done /\ Accepts(w, path)]}, {})
    BY <1>4, <1>5 DEF AnsweredPart, Adds
  <1>11. WriteKnown(d, Trimmed(w, path))'
    <2>1. Trimmed(w, path).data = w.data /\ Trimmed(w, path).then = w.then
      <3>1. w \in [paths : {w.paths}, data : {w.data}, upd : {w.upd}, then : {w.then}]
        BY WriteCases DEF SaveWrites, UpdateWrites, PostsWrites
      <3> QED BY <3>1 DEF Trimmed
    <2>2. WriteKnown(d, Trimmed(w, path))
      BY <1>7, <2>1 DEF WriteKnown
    <2>3. edits' = edits /\ uploads' = uploads
      BY <1>5
    <2>4. w.data <= uploads /\ (w.then # NoThen => w.then.k <= Len(edits[d]))
      BY <1>7 DEF WriteKnown, Known, Opened
    <2> QED BY <2>1, <2>3, <2>4 DEF WriteKnown, Known, Opened
  <1>12. \A b \in (IF w.then = NoThen THEN {} ELSE {[then |-> w.then, res |-> done /\ Accepts(w, path)]}) : BlockKnown(d, b)'
    <2> SUFFICES ASSUME w.then # NoThen, NEW b, b.then = w.then PROVE BlockKnown(d, b)'
      OBVIOUS
    <2>1. w.data <= uploads /\ w.then.k <= Len(edits[d])
      BY <1>7 DEF WriteKnown, Known, Opened
    <2>2. w.then.kind = "saved" \/ w.then.img = w.data
      BY KindOfWrite
    <2> QED BY <1>5, <2>1, <2>2 DEF BlockKnown, Known, Opened
  <1>13. \A e \in Devices : KnownAt(e)'
    <2>1. PICK B : B = IF w.then = NoThen THEN {} ELSE {[then |-> w.then, res |-> done /\ Accepts(w, path)]}
      OBVIOUS
    <2>2. PICK y : y = Trimmed(w, path)
      OBVIOUS
    <2>3. Adds(d, {y}, {}, B, {}) /\ \A b \in B : BlockKnown(d, b)'
      BY <1>10, <1>12, <2>1, <2>2
    <2>4. \A v \in {y} : WriteKnown(d, v)'
      BY <1>11, <2>2
    <2> QED BY <1>9, <2>3, <2>4, KnownAdds
  <1> QED BY <1>6, <1>9, <1>13 DEF TypesInv, KnownInv

\* A read is answered.
LEMMA ResolveEdit ==
    ASSUME TypesInv, NEW d \in Devices, NEW k \in DOMAIN gets[d], Resolve(d, k)
    PROVE  /\ gets' \in QueuesOf(EditReads) /\ mainq' \in QueuesOf(EditBlocks)
           /\ \E r \in EditReads : \E b \in FoundBlocks(r.then.img) :
                /\ Resolved(d, r) /\ mainq'[d] = Append(mainq[d], b)
                /\ Range(mainq'[d]) = Range(mainq[d]) \cup {b}
                /\ Len(gets[d]) = Len(gets'[d]) + 1
  <1>1. gets \in QueuesOf(EditReads) /\ mainq \in QueuesOf(EditBlocks) /\ queue \in QueuesOf(EditWrites)
    BY DEF TypesInv, FlightOK
  <1>2. \A r \in EditReads : ~r.each
    BY ReadFacts
  <1>3. \A x \in PostDocs : View(d, x) \in Nat
    <2> SUFFICES ASSUME NEW x \in PostDocs PROVE View(d, x) \in Nat
      OBVIOUS
    <2>1. \/ View(d, x) = docs[x] \/ \E w \in Range(queue[d]) : x \in w.paths /\ View(d, x) = w.data
      BY <1>1, ViewFrom
    <2>2. docs[x] \in Nat
      BY DocFacts DEF TypesInv, StateOK
    <2>3. \A w \in Range(queue[d]) : w.data \in Nat
      BY FlightFacts, KindOfWrite
    <2> QED BY <2>1, <2>2, <2>3
  <1>4. ASSUME NEW r \in EditReads
        PROVE  [then |-> r.then, res |-> [path \in r.paths |-> View(d, path)]] \in FoundBlocks(r.then.img)
    <2>1. r.paths = PostDocs /\ r.then = FoundPosts(r.then.img) /\ r.then.img \in Nat
      BY ReadFacts
    <2>2. [path \in r.paths |-> View(d, path)] \in [PostDocs -> Nat]
      BY <1>3, <2>1
    <2> QED BY <2>1, <2>2 DEF FoundBlocks
  <1>5. \A r \in EditReads : [then |-> r.then, res |-> [path \in r.paths |-> View(d, path)]] \in EditBlocks
    BY <1>4, ReadFacts, BlockFacts
  <1>6. /\ gets' \in QueuesOf(EditReads) /\ mainq' \in QueuesOf(EditBlocks)
        /\ \E r \in EditReads :
              /\ Resolved(d, r)
              /\ mainq'[d] = Append(mainq[d], [then |-> r.then, res |-> [path \in r.paths |-> View(d, path)]])
    BY <1>1, <1>2, <1>5, ResolveOne
  <1>7. PICK r \in EditReads :
              /\ Resolved(d, r)
              /\ mainq'[d] = Append(mainq[d], [then |-> r.then, res |-> [path \in r.paths |-> View(d, path)]])
    BY <1>6
  <1>8. PICK b \in FoundBlocks(r.then.img) : b = [then |-> r.then, res |-> [path \in r.paths |-> View(d, path)]]
    BY <1>4
  <1>9. Range(mainq'[d]) = Range(mainq[d]) \cup {b}
    BY <1>7, <1>8 DEF Resolved
  <1>10. Len(gets[d]) = Len(gets'[d]) + 1
    <2>1. PICK ps \in Part(gets[d][k]) : gets' = Rest(d, k, ps)
      BY DEF Resolve
    <2>2. gets[d] \in Seq(EditReads)
      BY FlightFacts
    <2>3. gets[d][k] \in EditReads
      BY <2>2
    <2>4. ps = gets[d][k].paths
      BY <1>2, <2>1, <2>3 DEF Part
    <2>5. gets'[d] = RemoveAt(gets[d], k)
      BY <1>1, <2>1, <2>4 DEF Rest, QueuesOf
    <2>6. Len(RemoveAt(gets[d], k)) = Len(gets[d]) - 1 /\ Len(gets[d]) \in Nat
      BY <2>2, RangeOfRemoveAt
    <2> QED BY <2>5, <2>6
  <1> QED BY <1>6, <1>7, <1>8, <1>9, <1>10

LEMMA ReadTypes ==
    ASSUME TypesInv, NEW d \in Devices, NEW k \in DOMAIN gets[d], Resolve(d, k) \/ Lose(d, k),
           UNCHANGED appVars, haste' = haste
    PROVE  TypesInv'
  <1>1. UNCHANGED <<docs, queue, storage, calls, profile, edits, open, hud, uploads>>
    BY DEF appVars, Resolve, Lose
  <1>2. StateOK' /\ Grows /\ ShownKnown'
    <2>1. haste' \subseteq {"screen", "done"} /\ docs' \in [EditDocs -> Nat]
      BY <1>1 DEF TypesInv, StateOK
    <2>2. \A x \in EditDocs : docs'[x] <= uploads
      BY <1>1 DEF TypesInv, KnownInv, ShownKnown, Known
    <2> QED BY <1>1, <2>1, <2>2, StateKept
  <1>3. CASE Resolve(d, k)
    <2>1. gets' \in QueuesOf(EditReads) /\ mainq' \in QueuesOf(EditBlocks)
      BY <1>3, ResolveEdit
    <2>2. PICK r \in EditReads : \E b \in FoundBlocks(r.then.img) :
                /\ Resolved(d, r) /\ mainq'[d] = Append(mainq[d], b)
                /\ Range(mainq'[d]) = Range(mainq[d]) \cup {b}
      BY <1>3, ResolveEdit
    <2>3. PICK b \in FoundBlocks(r.then.img) :
                Resolved(d, r) /\ Range(mainq'[d]) = Range(mainq[d]) \cup {b}
      BY <2>2
    <2>4. FlightOK'
      BY <1>1, <2>1 DEF TypesInv, FlightOK
    <2>5. Adds(d, {}, {}, {b}, {})
      BY <1>1, <2>3 DEF Resolved, Adds
    <2>6. r.then.img <= uploads
      BY <2>3 DEF Resolved, TypesInv, KnownInv, KnownAt, Known
    <2>7. b.then.kind = "foundPosts" /\ b.then.img = r.then.img
      BY ReadFacts, BlockFacts
    <2>8. \A x \in {b} : BlockKnown(d, x)'
      BY <1>1, <2>6, <2>7 DEF BlockKnown, Known
    <2>9. \A e \in Devices : KnownAt(e)'
      BY <1>2, <2>5, <2>8, KnownAdds
    <2> QED BY <1>2, <2>4, <2>9 DEF TypesInv, KnownInv
  <1>4. CASE Lose(d, k)
    <2>1. gets \in QueuesOf(EditReads) /\ \A r \in EditReads : ~r.each
      BY ReadFacts DEF TypesInv, FlightOK
    <2>2. gets' \in QueuesOf(EditReads) /\ \E r \in EditReads : Lost(d, r)
      BY <1>4, <2>1, LoseOne
    <2>3. PICK r \in EditReads : Lost(d, r)
      BY <2>2
    <2>4. FlightOK'
      BY <1>1, <2>2, <2>3 DEF TypesInv, FlightOK, Lost
    <2>5. Adds(d, {}, {}, {}, {})
      BY <1>1, <2>3 DEF Lost, Adds
    <2>6. \A e \in Devices : KnownAt(e)'
      BY <1>2, <2>5, KnownAdds
    <2> QED BY <1>2, <2>4, <2>6 DEF TypesInv, KnownInv
  <1> QED BY <1>3, <1>4

LEMMA DeliverTypes ==
    ASSUME TypesInv, NEW d \in Devices, Deliver(d), haste' = haste
    PROVE  TypesInv'
  <1>1. UNCHANGED appVars
    BY DEF Deliver
  <1>2. CASE Commit(d)
    <2>1. Answer(d, TRUE) /\ TRUE \in BOOLEAN
      BY <1>2 DEF Commit
    <2> QED BY <1>1, <2>1, AnswerTypes
  <1>3. CASE Refuse(d)
    <2>1. Answer(d, FALSE) /\ FALSE \in BOOLEAN
      BY <1>3 DEF Refuse
    <2> QED BY <1>1, <2>1, AnswerTypes
  <1>4. ASSUME NEW k \in DOMAIN gets[d], Resolve(d, k) \/ Lose(d, k) PROVE TypesInv'
    BY <1>1, <1>4, ReadTypes
  <1> QED BY <1>2, <1>3, <1>4 DEF Deliver, Network, Serve, Fail

\* Storage answers.
Removed(d, c) ==
    /\ \A e \in Devices \ {d} : calls'[e] = calls[e]
    /\ Range(calls[d]) = {c} \cup Range(calls'[d])

LEMMA CallsRemoved ==
    ASSUME TypesInv, NEW d \in Devices, NEW i \in DOMAIN calls[d], calls' = [calls EXCEPT ![d] = RemoveAt(@, i)]
    PROVE  /\ calls' \in QueuesOf(EditCalls) /\ calls'[d] = RemoveAt(calls[d], i)
           /\ calls[d][i] \in EditCalls /\ Removed(d, calls[d][i])
  <1>1. calls \in [Devices -> Seq(EditCalls)]
    BY DEF TypesInv, FlightOK, QueuesOf
  <1>2. /\ calls[d][i] \in EditCalls /\ RemoveAt(calls[d], i) \in Seq(EditCalls)
        /\ Range(calls[d]) = {calls[d][i]} \cup Range(RemoveAt(calls[d], i))
    BY FlightFacts, RangeOfRemoveAt
  <1>3. PICK s : s = RemoveAt(calls[d], i)
    OBVIOUS
  <1>4. calls' = [calls EXCEPT ![d] = s]
    BY <1>3
  <1>5. calls'[d] = s /\ calls' \in [Devices -> Seq(EditCalls)] /\ \A e \in Devices \ {d} : calls'[e] = calls[e]
    BY <1>1, <1>2, <1>3, <1>4
  <1> QED BY <1>2, <1>3, <1>5 DEF QueuesOf, Removed

\* A picture was deleted, or is stored and its block is due.
StorageMoved(d, i, c) ==
    /\ calls' \in QueuesOf(EditCalls) /\ Removed(d, c) /\ c = calls[d][i] /\ calls'[d] = RemoveAt(calls[d], i)
    /\ UNCHANGED <<docs, queue, gets, profile, edits, open, hud, uploads, dones>>
    /\ \/ Failures /\ storage' = storage /\ mainq' = mainq
       \/ c.op = "delete" /\ storage' = storage \ {c.img} /\ mainq' = mainq
       \/ /\ c.op = "upload" /\ storage' = storage \cup {c.img}
          /\ mainq' \in QueuesOf(EditBlocks)
          /\ \A e \in Devices \ {d} : mainq'[e] = mainq[e]
          /\ \E b \in UploadBlocks(c.img) :
               /\ b.then = Uploaded(c.k, c.img)
               /\ mainq'[d] = Append(mainq[d], b) /\ Range(mainq'[d]) = Range(mainq[d]) \cup {b}

LEMMA StorageFacts ==
    ASSUME TypesInv, NEW d \in Devices, NEW i \in DOMAIN calls[d], StorageAnswer(d, i)
    PROVE  \E c \in EditCalls : StorageMoved(d, i, c)
  <1>1. PICK c : c = calls[d][i]
    OBVIOUS
  <1>2. PICK ok \in BOOLEAN :
        /\ ~ok => Failures
        /\ calls' = [calls EXCEPT ![d] = RemoveAt(@, i)]
        /\ storage' = CASE ~ok -> storage
                        [] ok /\ c.op = "delete" -> storage \ {c.img}
                        [] ok /\ c.op = "upload" -> storage \cup {c.img}
        /\ mainq' = IF ok /\ c.op = "upload"
                    THEN [mainq EXCEPT ![d] = Append(@, [then |-> Uploaded(c.k, c.img), res |-> TRUE])]
                    ELSE mainq
    BY <1>1 DEF StorageAnswer
  <1>3. UNCHANGED <<docs, queue, gets, profile, edits, open, hud, uploads, dones>>
    BY DEF StorageAnswer
  <1>4. /\ c \in EditCalls /\ calls' \in QueuesOf(EditCalls) /\ Removed(d, c)
        /\ c = calls[d][i] /\ calls'[d] = RemoveAt(calls[d], i)
    BY <1>1, <1>2, CallsRemoved
  <1>5. c.op \in {"upload", "delete"} /\ c.img \in Nat /\ c.k \in Ks
    BY <1>4, CallFacts
  <1>6. CASE ~ok
    <2>1. Failures /\ storage' = storage /\ mainq' = mainq
      BY <1>2, <1>6
    <2> QED BY <1>3, <1>4, <2>1 DEF StorageMoved
  <1>7. CASE ok /\ c.op = "delete"
    <2>1. storage' = storage \ {c.img} /\ mainq' = mainq
      BY <1>2, <1>7
    <2> QED BY <1>3, <1>4, <1>7, <2>1 DEF StorageMoved
  <1>8. CASE ok /\ c.op = "upload"
    <2>1. storage' = storage \cup {c.img}
      BY <1>2, <1>8
    <2>2. PICK b : b = [then |-> Uploaded(c.k, c.img), res |-> TRUE]
      OBVIOUS
    <2>3. mainq' = [mainq EXCEPT ![d] = Append(@, b)]
      BY <1>2, <1>8, <2>2
    <2>4. b \in UploadBlocks(c.img) /\ b.then = Uploaded(c.k, c.img)
      BY <1>5, <2>2 DEF UploadBlocks, UploadedThens
    <2>5. b \in EditBlocks
      BY <1>5, <2>4, BlockFacts
    <2>6. Append(mainq[d], b) \in Seq(EditBlocks) /\ Range(Append(mainq[d], b)) = Range(mainq[d]) \cup {b}
      BY <2>5, FlightFacts, RangeOfAppend
    <2>7. mainq \in [Devices -> Seq(EditBlocks)]
      BY DEF TypesInv, FlightOK, QueuesOf
    <2>8. /\ mainq'[d] = Append(mainq[d], b) /\ mainq' \in QueuesOf(EditBlocks)
          /\ \A e \in Devices \ {d} : mainq'[e] = mainq[e]
      <3>1. PICK s \in Seq(EditBlocks) : s = Append(mainq[d], b)
        BY <2>6
      <3>2. mainq' = [mainq EXCEPT ![d] = s]
        BY <2>3, <3>1
      <3> QED BY <2>7, <3>1, <3>2 DEF QueuesOf
    <2> QED BY <1>3, <1>4, <1>8, <2>1, <2>4, <2>6, <2>8 DEF StorageMoved
  <1> QED BY <1>5, <1>6, <1>7, <1>8

LEMMA StorageTypes ==
    ASSUME TypesInv, NEW d \in Devices, NEW i \in DOMAIN calls[d], StorageAnswer(d, i), haste' = haste
    PROVE  TypesInv'
  <1>0. PICK c \in EditCalls : StorageMoved(d, i, c)
    BY StorageFacts
  <1>1. /\ calls' \in QueuesOf(EditCalls) /\ Removed(d, c)
        /\ UNCHANGED <<docs, queue, gets, profile, edits, open, hud, uploads, dones>>
        /\ \/ storage' = storage /\ mainq' = mainq
           \/ storage' = storage \ {c.img} /\ mainq' = mainq
           \/ /\ storage' = storage \cup {c.img}
              /\ mainq' \in QueuesOf(EditBlocks)
              /\ \A e \in Devices \ {d} : mainq'[e] = mainq[e]
              /\ \E b \in UploadBlocks(c.img) :
                   b.then = Uploaded(c.k, c.img) /\ Range(mainq'[d]) = Range(mainq[d]) \cup {b}
    BY <1>0 DEF StorageMoved
  <1>2. c.img \in Nat /\ c.k \in Ks /\ c.img <= uploads /\ c.k <= Len(edits[d])
    <2>1. c \in Range(calls[d])
      BY <1>1 DEF Removed
    <2> QED BY <2>1, CallFacts DEF TypesInv, KnownInv, KnownAt, CallKnown, Known, Opened
  <1>3. FlightOK'
    BY <1>1 DEF TypesInv, FlightOK
  <1>4. storage' \subseteq storage \cup {c.img}
    BY <1>1
  <1>5. Grows
    <2>1. \A e \in Devices : Len(edits[e]) \in Nat
      BY FlightFacts
    <2> QED BY <1>1, <2>1 DEF Grows, TypesInv, StateOK
  <1>6. StateOK'
    <2>1. storage' \subseteq Nat
      BY <1>2, <1>4 DEF TypesInv, StateOK
    <2> QED BY <1>1, <2>1 DEF TypesInv, StateOK
  <1>7. ShownKnown'
    BY <1>1, <1>2, <1>4 DEF TypesInv, KnownInv, ShownKnown, Known
  <1>8. \A e \in Devices : KnownAt(e)'
    <2>1. CASE mainq' = mainq
      <3>1. Adds(d, {}, {}, {}, {})
        BY <1>1, <2>1 DEF Adds, Removed
      <3> QED BY <1>5, <3>1, KnownAdds
    <2>2. ASSUME NEW b \in UploadBlocks(c.img), b.then = Uploaded(c.k, c.img),
                 \A e \in Devices \ {d} : mainq'[e] = mainq[e], Range(mainq'[d]) = Range(mainq[d]) \cup {b}
          PROVE  \A e \in Devices : KnownAt(e)'
      <3>1. Adds(d, {}, {}, {b}, {})
        BY <1>1, <2>2 DEF Adds, Removed
      <3>2. b.then.kind = "uploaded" /\ b.then.img = c.img /\ b.then.k = c.k
        BY <2>2 DEF Uploaded
      <3>3. \A x \in {b} : BlockKnown(d, x)'
        BY <1>1, <1>2, <3>2 DEF BlockKnown, Known, Opened
      <3> QED BY <1>5, <3>1, <3>3, KnownAdds
    <2> QED BY <1>1, <2>1, <2>2
  <1> QED BY <1>3, <1>6, <1>7, <1>8 DEF TypesInv, KnownInv

LEMMA AppendTwo ==
    ASSUME NEW S, NEW s \in Seq(S), NEW x \in S, NEW y \in S
    PROVE  s \o <<x, y>> = Append(Append(s, x), y)
  <1>1. PICK a, b : a = <<x>> /\ b = <<y>>
    OBVIOUS
  <1>2. a \in Seq(S) /\ b \in Seq(S)
    BY <1>1
  <1>3. Append(s, x) = s \o a /\ s \o a \in Seq(S)
    BY <1>1, <1>2, AppendIsConcat, ConcatProperties
  <1>4. Append(s \o a, y) = (s \o a) \o b
    BY <1>1, <1>3, AppendIsConcat
  <1>5. (s \o a) \o b = s \o (a \o b)
    BY <1>2, ConcatAssociative
  <1>6. a \o b = <<x, y>>
    <2>1. PICK c \in Seq(S) : c = <<x, y>>
      <3>1. <<x, y>> \in Seq(S)
        OBVIOUS
      <3> QED BY <3>1
    <2>2. Len(c) = 2 /\ c[1] = x /\ c[2] = y
      BY <2>1
    <2>3. Len(a) = 1 /\ a[1] = x /\ Len(b) = 1 /\ b[1] = y
      BY <1>1
    <2>4. PICK z : z = a \o b
      OBVIOUS
    <2>5. /\ z \in Seq(S) /\ Len(z) = Len(a) + Len(b)
          /\ \A i \in 1 .. Len(a) + Len(b) : z[i] = IF i <= Len(a) THEN a[i] ELSE b[i - Len(a)]
      BY <1>2, <2>4, ConcatProperties
    <2>7. Len(z) = 2 /\ \A i \in 1..2 : z[i] = IF i <= 1 THEN a[i] ELSE b[i - 1]
      BY <2>3, <2>5
    <2>8. z[1] = x /\ z[2] = y
      BY <2>3, <2>7
    <2>9. \A i \in 1..Len(c) : z[i] = c[i]
      BY <2>2, <2>8
    <2>10. z = c
      BY <2>2, <2>5, <2>7, <2>9, SeqEqual
    <2> QED BY <2>1, <2>4, <2>10
  <1> QED BY <1>3, <1>4, <1>5, <1>6

\* updateProfileImage: the picture of the k-th screen is being deleted and a new
\* one uploaded.
Started(d, k) ==
    /\ uploads' = uploads + 1 /\ calls' \in QueuesOf(EditCalls)
    /\ \A e \in Devices \ {d} : calls'[e] = calls[e]
    /\ \E x \in Deletes(edits[d][k].image) : \E y \in Uploads(uploads + 1) :
          /\ x.k = k /\ y.k = k
          /\ calls'[d] = Append(Append(calls[d], x), y)
          /\ Range(calls'[d]) = Range(calls[d]) \cup {x, y}

LEMMA ScreenFacts ==
    ASSUME TypesInv, NEW d \in Devices, NEW k \in Ks, k <= Len(edits[d])
    PROVE  /\ k \in DOMAIN edits[d] /\ k \in 1..Len(edits[d]) /\ edits[d][k] \in Screens
           /\ edits[d][k].image \in Nat /\ edits[d][k].image <= uploads
  <1>1. edits[d] \in Seq(Screens) /\ Len(edits[d]) \in Nat
    BY FlightFacts
  <1>2. k \in DOMAIN edits[d] /\ k \in 1..Len(edits[d])
    BY <1>1 DEF Ks
  <1>3. edits[d][k] \in Screens
    BY <1>1, <1>2
  <1> QED BY <1>2, <1>3 DEF Screens, TypesInv, KnownInv, ShownKnown, Known

LEMMA updateProfileImageFacts ==
    ASSUME TypesInv, NEW d \in Devices, NEW k \in Ks, k <= Len(edits[d]), updateProfileImage(d, k)
    PROVE  Started(d, k)
  <1>1. PICK i \in Nat : i = edits[d][k].image
    BY ScreenFacts
  <1>2. uploads + 1 \in Nat
    BY DEF TypesInv, StateOK
  <1>3. PICK x : x = [op |-> "delete", img |-> i, k |-> k]
    OBVIOUS
  <1>4. PICK y : y = [op |-> "upload", img |-> uploads + 1, k |-> k]
    OBVIOUS
  <1>5. x \in Deletes(i) /\ x.k = k /\ y \in Uploads(uploads + 1) /\ y.k = k
    BY <1>3, <1>4 DEF Deletes, Uploads
  <1>6. x \in EditCalls /\ y \in EditCalls
    BY <1>1, <1>2, <1>5, CallFacts
  <1>7. calls' = [calls EXCEPT ![d] = @ \o <<x, y>>]
    BY <1>1, <1>3, <1>4 DEF updateProfileImage
  <1>8. calls \in [Devices -> Seq(EditCalls)]
    BY DEF TypesInv, FlightOK, QueuesOf
  <1>9. PICK s \in Seq(EditCalls) : s = calls[d]
    BY <1>8
  <1>10. s \o <<x, y>> = Append(Append(s, x), y)
    BY <1>6, <1>9, AppendTwo
  <1>11. PICK t \in Seq(EditCalls) : t = Append(s, x) /\ Range(t) = Range(s) \cup {x}
    <2>1. Append(s, x) \in Seq(EditCalls) /\ Range(Append(s, x)) = Range(s) \cup {x}
      BY <1>6, RangeOfAppend
    <2> QED BY <2>1
  <1>12. PICK u \in Seq(EditCalls) : u = Append(t, y) /\ Range(u) = Range(t) \cup {y}
    <2>1. Append(t, y) \in Seq(EditCalls) /\ Range(Append(t, y)) = Range(t) \cup {y}
      BY <1>6, RangeOfAppend
    <2> QED BY <2>1
  <1>13. calls' = [calls EXCEPT ![d] = u]
    BY <1>7, <1>9, <1>10, <1>11, <1>12
  <1>14. calls'[d] = u /\ calls' \in QueuesOf(EditCalls) /\ \A e \in Devices \ {d} : calls'[e] = calls[e]
    BY <1>8, <1>13 DEF QueuesOf
  <1>15. calls'[d] = Append(Append(calls[d], x), y) /\ Range(calls'[d]) = Range(calls[d]) \cup {x, y}
    BY <1>9, <1>11, <1>12, <1>14
  <1>16. uploads' = uploads + 1
    BY DEF updateProfileImage
  <1> QED BY <1>1, <1>5, <1>14, <1>15, <1>16 DEF Started

\* The block b at the head of the main queue of d runs.
HeadTaken(d, b) ==
    /\ mainq[d] # <<>> /\ b = Head(mainq[d]) /\ mainq'[d] = Tail(mainq[d])
    /\ Range(mainq[d]) = {b} \cup Range(mainq'[d]) /\ docs' = docs
    /\ \A e \in Devices \ {d} : queue'[e] = queue[e] /\ gets'[e] = gets[e] /\ mainq'[e] = mainq[e]

\* It issues the writes ws and the reads rs.
LEMMA TakeEdit ==
    ASSUME TypesInv, NEW d \in Devices, mainq[d] # <<>>,
           NEW ws \in Seq(EditWrites), NEW rs \in Seq(EditReads), Take(d, ws, rs)
    PROVE  /\ queue' \in QueuesOf(EditWrites) /\ gets' \in QueuesOf(EditReads) /\ mainq' \in QueuesOf(EditBlocks)
           /\ Head(mainq[d]) \in EditBlocks /\ HeadTaken(d, Head(mainq[d]))
           /\ queue'[d] = queue[d] \o ws /\ Range(queue'[d]) = Range(queue[d]) \cup Range(ws)
           /\ gets'[d] = gets[d] \o rs /\ Range(gets'[d]) = Range(gets[d]) \cup Range(rs)
  <1>1. queue \in QueuesOf(EditWrites) /\ gets \in QueuesOf(EditReads) /\ mainq \in QueuesOf(EditBlocks)
    BY DEF TypesInv, FlightOK
  <1>2. /\ queue' \in QueuesOf(EditWrites) /\ gets' \in QueuesOf(EditReads) /\ mainq' \in QueuesOf(EditBlocks)
        /\ Head(mainq[d]) \in EditBlocks /\ Taken(d, Head(mainq[d]), ws, rs)
    BY <1>1, TakeOne
  <1>3. queue'[d] = queue[d] \o ws /\ gets'[d] = gets[d] \o rs /\ mainq'[d] = Tail(mainq[d])
    BY <1>1 DEF Take, QueuesOf
  <1>4. HeadTaken(d, Head(mainq[d])) /\ Range(queue'[d]) = Range(queue[d]) \cup Range(ws)
        /\ Range(gets'[d]) = Range(gets[d]) \cup Range(rs)
    BY <1>2, <1>3 DEF Taken, HeadTaken
  <1> QED BY <1>2, <1>3, <1>4

\* It issues nothing, one write or one read.
LEMMA TakeNone ==
    ASSUME TypesInv, NEW d \in Devices, mainq[d] # <<>>, Take(d, <<>>, <<>>)
    PROVE  /\ queue' \in QueuesOf(EditWrites) /\ gets' \in QueuesOf(EditReads) /\ mainq' \in QueuesOf(EditBlocks)
           /\ Head(mainq[d]) \in EditBlocks /\ HeadTaken(d, Head(mainq[d]))
           /\ queue'[d] = queue[d] /\ gets'[d] = gets[d]
  <1>1. PICK e : e = <<>>
    OBVIOUS
  <1>2. e \in Seq(EditWrites) /\ e \in Seq(EditReads) /\ Take(d, e, e)
    BY <1>1
  <1>3. /\ queue' \in QueuesOf(EditWrites) /\ gets' \in QueuesOf(EditReads) /\ mainq' \in QueuesOf(EditBlocks)
        /\ Head(mainq[d]) \in EditBlocks /\ HeadTaken(d, Head(mainq[d]))
        /\ queue'[d] = queue[d] \o e /\ gets'[d] = gets[d] \o e
    BY <1>2, TakeEdit
  <1>4. queue[d] \o <<>> = queue[d] /\ gets[d] \o <<>> = gets[d]
    BY FlightFacts, ConcatEmptySeq
  <1> QED BY <1>1, <1>3, <1>4

LEMMA TakeWrite ==
    ASSUME TypesInv, NEW d \in Devices, mainq[d] # <<>>, NEW w \in EditWrites, Take(d, <<w>>, <<>>)
    PROVE  /\ queue' \in QueuesOf(EditWrites) /\ gets' \in QueuesOf(EditReads) /\ mainq' \in QueuesOf(EditBlocks)
           /\ Head(mainq[d]) \in EditBlocks /\ HeadTaken(d, Head(mainq[d]))
           /\ queue'[d] = Append(queue[d], w) /\ Range(queue'[d]) = Range(queue[d]) \cup {w}
           /\ gets'[d] = gets[d]
  <1>1. PICK ws, rs : ws = <<w>> /\ rs = <<>>
    OBVIOUS
  <1>2. ws \in Seq(EditWrites) /\ rs \in Seq(EditReads) /\ Take(d, ws, rs) /\ Range(ws) = {w}
    BY <1>1, RangeOfOne
  <1>3. /\ queue' \in QueuesOf(EditWrites) /\ gets' \in QueuesOf(EditReads) /\ mainq' \in QueuesOf(EditBlocks)
        /\ Head(mainq[d]) \in EditBlocks /\ HeadTaken(d, Head(mainq[d]))
        /\ queue'[d] = queue[d] \o ws /\ Range(queue'[d]) = Range(queue[d]) \cup Range(ws)
        /\ gets'[d] = gets[d] \o rs
    BY <1>2, TakeEdit
  <1>4. queue[d] \o <<w>> = Append(queue[d], w)
    BY FlightFacts, AppendIsConcat
  <1>5. gets[d] \o <<>> = gets[d]
    BY FlightFacts, ConcatEmptySeq
  <1> QED BY <1>1, <1>2, <1>3, <1>4, <1>5

LEMMA TakeRead ==
    ASSUME TypesInv, NEW d \in Devices, mainq[d] # <<>>, NEW r \in EditReads, Take(d, <<>>, <<r>>)
    PROVE  /\ queue' \in QueuesOf(EditWrites) /\ gets' \in QueuesOf(EditReads) /\ mainq' \in QueuesOf(EditBlocks)
           /\ Head(mainq[d]) \in EditBlocks /\ HeadTaken(d, Head(mainq[d]))
           /\ gets'[d] = Append(gets[d], r) /\ Range(gets'[d]) = Range(gets[d]) \cup {r}
           /\ queue'[d] = queue[d]
  <1>1. PICK ws, rs : ws = <<>> /\ rs = <<r>>
    OBVIOUS
  <1>2. ws \in Seq(EditWrites) /\ rs \in Seq(EditReads) /\ Take(d, ws, rs) /\ Range(rs) = {r}
    BY <1>1, RangeOfOne
  <1>3. /\ queue' \in QueuesOf(EditWrites) /\ gets' \in QueuesOf(EditReads) /\ mainq' \in QueuesOf(EditBlocks)
        /\ Head(mainq[d]) \in EditBlocks /\ HeadTaken(d, Head(mainq[d]))
        /\ gets'[d] = gets[d] \o rs /\ Range(gets'[d]) = Range(gets[d]) \cup Range(rs)
        /\ queue'[d] = queue[d] \o ws
    BY <1>2, TakeEdit
  <1>4. gets[d] \o <<r>> = Append(gets[d], r)
    BY FlightFacts, AppendIsConcat
  <1>5. queue[d] \o <<>> = queue[d]
    BY FlightFacts, ConcatEmptySeq
  <1> QED BY <1>1, <1>2, <1>3, <1>4, <1>5

\* Showing, dismissing and animating the loader.
LEMMA HudFacts ==
    ASSUME NEW h \in Huds({"edit"})
    PROVE  /\ show(h, "edit") \in Huds({"edit"})
           /\ dismiss(h) \in Huds({"edit"}) /\ ~Stays(dismiss(h))
           /\ Animating(h) => animated(h) \in Huds({"edit"}) /\ (Stays(animated(h)) => Stays(h))
  <1>1. /\ h \in [view : {"edit", NoView}, phase : Phases, late : BOOLEAN]
        /\ (h.view = NoView) <=> (h.phase = "hidden")
        /\ h.late => h.phase \in {"showing", "hiding"}
    BY DEF Huds
  <1>2. NoView # "edit"
    BY EditAssumption
  <1>3. show(h, "edit") \in Huds({"edit"})
    BY <1>1, <1>2 DEF Huds, show, Phases
  <1>4. dismiss(h) \in Huds({"edit"}) /\ ~Stays(dismiss(h))
    <2>1. CASE h.phase \in {"showing", "hiding"}
      <3>1. dismiss(h) = [h EXCEPT !.late = TRUE]
        BY <2>1 DEF dismiss
      <3> QED BY <1>1, <1>2, <2>1, <3>1 DEF Huds, Phases, Stays
    <2>2. CASE h.phase = "shown"
      <3>1. dismiss(h) = [h EXCEPT !.phase = "hiding"]
        BY <2>2 DEF dismiss
      <3> QED BY <1>1, <1>2, <2>2, <3>1 DEF Huds, Phases, Stays
    <2>3. CASE h.phase = "hidden"
      <3>1. dismiss(h) = h
        BY <2>3 DEF dismiss
      <3> QED BY <1>1, <1>2, <2>3, <3>1 DEF Stays
    <2> QED BY <1>1, <2>1, <2>2, <2>3 DEF Phases
  <1>5. ASSUME Animating(h) PROVE animated(h) \in Huds({"edit"}) /\ (Stays(animated(h)) => Stays(h))
    <2>1. CASE h.phase = "showing" /\ h.late
      <3>1. animated(h) = [h EXCEPT !.phase = "hiding", !.late = FALSE]
        BY <2>1 DEF animated
      <3> QED BY <1>1, <1>2, <2>1, <3>1 DEF Huds, Phases, Stays
    <2>2. CASE h.phase = "showing" /\ ~h.late
      <3>1. animated(h) = [h EXCEPT !.phase = "shown"]
        BY <2>2 DEF animated
      <3> QED BY <1>1, <1>2, <2>2, <3>1 DEF Huds, Phases, Stays
    <2>3. CASE h.phase = "hiding"
      <3>1. animated(h) = Hidden
        BY <2>3 DEF animated
      <3> QED BY <1>2, <3>1 DEF Huds, Phases, Stays, Hidden
    <2> QED BY <1>1, <1>5, <2>1, <2>2, <2>3 DEF Animating
  <1> QED BY <1>3, <1>4, <1>5

\* One field of the k-th edit screen of d changes.
EditedOne(d, k, x) ==
    /\ edits' \in QueuesOf(Screens) /\ edits'[d][k] = x
    /\ \A e \in Devices : Len(edits'[e]) = Len(edits[e])
    /\ \A e \in Devices \ {d} : edits'[e] = edits[e]
    /\ DOMAIN edits'[d] = DOMAIN edits[d]
    /\ \A j \in DOMAIN edits[d] : j # k => edits'[d][j] = edits[d][j]

LEMMA EditOne ==
    ASSUME TypesInv, NEW d \in Devices, NEW k \in 1..Len(edits[d]), NEW x \in Screens,
           edits' = [edits EXCEPT ![d] = [edits[d] EXCEPT ![k] = x]]
    PROVE  EditedOne(d, k, x)
  <1>1. edits \in [Devices -> Seq(Screens)]
    BY DEF TypesInv, StateOK, QueuesOf
  <1>2. PICK s \in Seq(Screens) : s = edits[d]
    BY <1>1
  <1>3. PICK t : t = [s EXCEPT ![k] = x]
    OBVIOUS
  <1>4. t \in Seq(Screens) /\ Len(t) = Len(s) /\ t[k] = x /\ DOMAIN t = DOMAIN s
        /\ \A j \in DOMAIN s : j # k => t[j] = s[j]
    BY <1>2, <1>3
  <1>5. edits' = [edits EXCEPT ![d] = t]
    BY <1>2, <1>3
  <1>6. edits'[d] = t /\ edits' \in QueuesOf(Screens) /\ \A e \in Devices \ {d} : edits'[e] = edits[e]
    BY <1>1, <1>4, <1>5 DEF QueuesOf
  <1> QED BY <1>2, <1>4, <1>6 DEF EditedOne

\* ProfileController.controller(_:wantsToUpdate:).
LEMMA wantsToUpdateFacts ==
    ASSUME TypesInv, NEW d \in Devices, NEW k, NEW img \in Nat, wantsToUpdate(d, k, img)
    PROVE  /\ open' \in [Devices -> BOOLEAN] /\ \A e \in Devices : open'[e] => open[e]
           /\ profile' \in [Devices -> Nat] /\ profile'[d] = img
           /\ \A e \in Devices \ {d} : profile'[e] = profile[e]
  <1>1. open \in [Devices -> BOOLEAN] /\ profile \in [Devices -> Nat]
    BY DEF TypesInv, StateOK
  <1>2. profile' = [profile EXCEPT ![d] = img] /\ open' = [open EXCEPT ![d] = @ /\ k # Len(edits[d])]
    BY DEF wantsToUpdate
  <1>3. open' \in [Devices -> BOOLEAN] /\ \A e \in Devices : open'[e] => open[e]
    BY <1>1, <1>2
  <1> QED BY <1>1, <1>2, <1>3

FlightTyped == queue' \in QueuesOf(EditWrites) /\ gets' \in QueuesOf(EditReads) /\ mainq' \in QueuesOf(EditBlocks)

\* The block of a save runs: a picture's upload starts, or the profile is shown.
SavedMoved(d, b) ==
    /\ FlightTyped /\ HeadTaken(d, b) /\ queue'[d] = queue[d] /\ gets'[d] = gets[d]
    /\ UNCHANGED <<storage, edits, dones>>
    /\ b.then.k \in Ks /\ b.then.k <= Len(edits[d])
    /\ \/ /\ b.then.more /\ Started(d, b.then.k)
          /\ hud' = [hud EXCEPT ![d] = show(@, "edit")] /\ UNCHANGED <<profile, open>>
       \/ /\ ~b.then.more /\ UNCHANGED <<calls, uploads>>
          /\ hud' = [hud EXCEPT ![d] = dismiss(@)] /\ wantsToUpdate(d, b.then.k, edits[d][b.then.k].image)

LEMMA BlockScreen ==
    ASSUME TypesInv, NEW d \in Devices, NEW b \in Range(mainq[d]), b.then.kind # "foundPosts"
    PROVE  b.then.k \in Ks /\ b.then.k <= Len(edits[d])
  <1>1. b \in EditBlocks
    BY FlightFacts
  <1>2. b.then.k \in Ks
    BY <1>1, KindOfBlock
  <1> QED BY <1>2 DEF TypesInv, KnownInv, KnownAt, BlockKnown, Opened

LEMMA savedFacts ==
    ASSUME TypesInv, NEW d \in Devices, saved(d)
    PROVE  \E b \in SaveBlocks : SavedMoved(d, b)
  <1>1. mainq[d] # <<>> /\ Take(d, <<>>, <<>>)
    BY DEF saved, Due
  <1>2. PICK b : b = Head(mainq[d])
    OBVIOUS
  <1>3. /\ FlightTyped /\ b \in EditBlocks /\ HeadTaken(d, b) /\ queue'[d] = queue[d] /\ gets'[d] = gets[d]
    BY <1>1, <1>2, TakeNone DEF FlightTyped
  <1>4. b.then.kind = "saved" /\ b \in SaveBlocks
    BY <1>2, <1>3, KindOfBlock DEF saved, Due
  <1>5. b.then.k \in Ks /\ b.then.k <= Len(edits[d])
    BY <1>3, <1>4, BlockScreen DEF HeadTaken
  <1>6. UNCHANGED <<storage, edits, dones>>
    BY DEF saved
  <1>7. CASE b.then.more
    <2>1. updateProfileImage(d, b.then.k) /\ hud' = [hud EXCEPT ![d] = show(@, "edit")] /\ UNCHANGED <<profile, open>>
      BY <1>2, <1>7 DEF saved, Block
    <2>2. Started(d, b.then.k)
      BY <1>5, <2>1, updateProfileImageFacts
    <2> QED BY <1>3, <1>4, <1>5, <1>6, <1>7, <2>1, <2>2 DEF SavedMoved
  <1>8. CASE ~b.then.more
    <2>1. /\ hud' = [hud EXCEPT ![d] = dismiss(@)] /\ UNCHANGED <<calls, uploads>>
          /\ wantsToUpdate(d, b.then.k, edits[d][b.then.k].image)
      <3>1. Block(d) = b.then
        BY <1>2 DEF Block
      <3>2. wantsToUpdate(d, Block(d).k, edits[d][Block(d).k].image)
        BY <1>8, <3>1 DEF saved
      <3>3. hud' = [hud EXCEPT ![d] = dismiss(@)] /\ UNCHANGED <<calls, uploads>>
        BY <1>8, <3>1 DEF saved
      <3> QED BY <3>1, <3>2, <3>3
    <2> QED BY <1>3, <1>4, <1>5, <1>6, <1>8, <2>1 DEF SavedMoved
  <1> QED BY <1>7, <1>8

\* The picture is in Storage: the account's update is queued.
UploadedMoved(d, b, w) ==
    /\ FlightTyped /\ HeadTaken(d, b) /\ w.then.k = b.then.k
    /\ queue'[d] = Append(queue[d], w) /\ Range(queue'[d]) = Range(queue[d]) \cup {w}
    /\ gets'[d] = gets[d]
    /\ UNCHANGED <<storage, calls, profile, edits, open, hud, uploads, dones>>

LEMMA uploadedFacts ==
    ASSUME TypesInv, NEW d \in Devices, uploaded(d)
    PROVE  \E i \in Nat : \E b \in UploadBlocks(i) : \E w \in UpdateWrites(i) : UploadedMoved(d, b, w)
  <1>1. PICK b : b = Head(mainq[d])
    OBVIOUS
  <1>2. mainq[d] # <<>> /\ b.then.kind = "uploaded"
    BY <1>1 DEF uploaded, Due
  <1>3. b \in EditBlocks /\ b \in Range(mainq[d])
    BY <1>1, <1>2, FlightFacts, RangeOfTail
  <1>4. PICK i \in Nat : i = b.then.img /\ b \in UploadBlocks(i)
    BY <1>2, <1>3, KindOfBlock
  <1>5. PICK k \in Ks : k = b.then.k
    BY <1>2, <1>3, BlockScreen
  <1>6. PICK w : w = Write({UserDoc}, i, TRUE, Updated(k, i))
    OBVIOUS
  <1>7. w \in UpdateWrites(i) /\ w.then.k = k
    BY <1>6 DEF Write, UpdateWrites, UpdatedThens, Updated
  <1>8. w \in EditWrites
    BY <1>7, UpdateFacts
  <1>9. Take(d, <<w>>, <<>>)
    BY <1>1, <1>4, <1>5, <1>6 DEF uploaded, Block
  <1>10. /\ FlightTyped /\ HeadTaken(d, b)
         /\ queue'[d] = Append(queue[d], w) /\ Range(queue'[d]) = Range(queue[d]) \cup {w} /\ gets'[d] = gets[d]
    BY <1>1, <1>2, <1>8, <1>9, TakeWrite DEF FlightTyped
  <1>11. UNCHANGED <<storage, calls, profile, edits, open, hud, uploads, dones>>
    BY DEF uploaded, appVars
  <1>12. UploadedMoved(d, b, w)
    BY <1>5, <1>7, <1>10, <1>11 DEF UploadedMoved
  <1> QED BY <1>4, <1>7, <1>12

\* The account was updated, or the update was refused.
UpdatedMoved(d, i, b) ==
    /\ FlightTyped /\ HeadTaken(d, b) /\ queue'[d] = queue[d]
    /\ b.then.k \in Ks /\ b.then.k <= Len(edits[d])
    /\ hud' = [hud EXCEPT ![d] = dismiss(@)] /\ UNCHANGED <<storage, calls, uploads, dones>>
    /\ \/ /\ b.res
          /\ gets'[d] = Append(gets[d], PostsRead(i)) /\ Range(gets'[d]) = Range(gets[d]) \cup {PostsRead(i)}
          /\ edits' = [edits EXCEPT ![d] = [edits[d] EXCEPT ![b.then.k] = [edits[d][b.then.k] EXCEPT !.image = i]]]
          /\ wantsToUpdate(d, b.then.k, i)
       \/ ~b.res /\ gets'[d] = gets[d] /\ UNCHANGED <<edits, profile, open>>

LEMMA updatedFacts ==
    ASSUME TypesInv, NEW d \in Devices, updated(d)
    PROVE  \E i \in Nat : \E b \in UpdateBlocks(i) : UpdatedMoved(d, i, b)
  <1>1. PICK b : b = Head(mainq[d])
    OBVIOUS
  <1>2. mainq[d] # <<>> /\ b.then.kind = "updated"
    BY <1>1 DEF updated, Due
  <1>3. b \in EditBlocks /\ b \in Range(mainq[d])
    BY <1>1, <1>2, FlightFacts, RangeOfTail
  <1>4. PICK i \in Nat : i = b.then.img /\ b \in UpdateBlocks(i)
    BY <1>2, <1>3, KindOfBlock
  <1>5. b.then.k \in Ks /\ b.then.k <= Len(edits[d])
    BY <1>2, <1>3, BlockScreen
  <1>6. hud' = [hud EXCEPT ![d] = dismiss(@)] /\ UNCHANGED <<storage, calls, uploads, dones>>
    BY DEF updated
  <1>7. CASE b.res
    <2>1. PICK r : r = PostsRead(i)
      OBVIOUS
    <2>2. r \in EditReads
      BY <2>1, ReadFacts
    <2>3. Take(d, <<>>, <<r>>) /\ wantsToUpdate(d, b.then.k, i)
      <3>1. Block(d) = b.then /\ Result(d)
        BY <1>1, <1>7 DEF Block, Result
      <3>2. Take(d, <<>>, <<getDocuments(PostDocs, FoundPosts(Block(d).img))>>)
        BY <3>1 DEF updated
      <3>3. wantsToUpdate(d, Block(d).k, Block(d).img)
        BY <3>1 DEF updated
      <3>4. r = getDocuments(PostDocs, FoundPosts(Block(d).img))
        BY <1>4, <2>1, <3>1 DEF PostsRead
      <3> QED BY <1>4, <3>1, <3>2, <3>3, <3>4
    <2>4. edits' = [edits EXCEPT ![d][b.then.k].image = i]
      <3>1. Block(d) = b.then /\ Result(d)
        BY <1>1, <1>7 DEF Block, Result
      <3>2. edits' = [edits EXCEPT ![d][Block(d).k].image = Block(d).img]
        BY <3>1 DEF updated
      <3> QED BY <1>4, <3>1, <3>2
    <2>5. edits' = [edits EXCEPT ![d] = [edits[d] EXCEPT ![b.then.k] = [edits[d][b.then.k] EXCEPT !.image = i]]]
      BY <2>4
    <2>6. /\ FlightTyped /\ HeadTaken(d, b) /\ queue'[d] = queue[d]
          /\ gets'[d] = Append(gets[d], r) /\ Range(gets'[d]) = Range(gets[d]) \cup {r}
      BY <1>1, <1>2, <2>2, <2>3, TakeRead DEF FlightTyped
    <2>7. UpdatedMoved(d, i, b)
      BY <1>5, <1>6, <1>7, <2>1, <2>3, <2>5, <2>6 DEF UpdatedMoved
    <2> QED BY <1>4, <2>7
  <1>8. CASE ~b.res
    <2>1. Take(d, <<>>, <<>>) /\ UNCHANGED <<edits, profile, open>>
      BY <1>1, <1>8 DEF updated, Result
    <2>2. FlightTyped /\ HeadTaken(d, b) /\ queue'[d] = queue[d] /\ gets'[d] = gets[d]
      BY <1>1, <1>2, <2>1, TakeNone DEF FlightTyped
    <2>3. UpdatedMoved(d, i, b)
      BY <1>5, <1>6, <1>8, <2>1, <2>2 DEF UpdatedMoved
    <2> QED BY <1>4, <2>3
  <1> QED BY <1>7, <1>8

\* The posts were found: their updates are queued.
FoundMoved(d, i, b) ==
    /\ FlightTyped /\ HeadTaken(d, b) /\ gets'[d] = gets[d]
    /\ UNCHANGED <<storage, calls, profile, edits, open, hud, uploads, dones>>
    /\ \/ PostDocs = {} /\ queue'[d] = queue[d]
       \/ \E w \in PostsWrites(i) : /\ w.paths = PostDocs /\ queue'[d] = Append(queue[d], w)
                                    /\ Range(queue'[d]) = Range(queue[d]) \cup {w}

LEMMA foundPostsFacts ==
    ASSUME TypesInv, NEW d \in Devices, foundPosts(d)
    PROVE  \E i \in Nat : \E b \in FoundBlocks(i) : FoundMoved(d, i, b)
  <1>1. PICK b : b = Head(mainq[d])
    OBVIOUS
  <1>2. mainq[d] # <<>> /\ b.then.kind = "foundPosts"
    BY <1>1 DEF foundPosts, Due
  <1>3. b \in EditBlocks
    BY <1>1, <1>2, FlightFacts, RangeOfTail
  <1>4. PICK i \in Nat : i = b.then.img /\ b \in FoundBlocks(i)
    BY <1>2, <1>3, KindOfBlock
  <1>5. UNCHANGED <<storage, calls, profile, edits, open, hud, uploads, dones>>
    BY DEF foundPosts, appVars
  <1>6. CASE PostDocs = {}
    <2>1. Take(d, <<>>, <<>>)
      BY <1>6 DEF foundPosts
    <2>2. FlightTyped /\ HeadTaken(d, b) /\ queue'[d] = queue[d] /\ gets'[d] = gets[d]
      BY <1>1, <1>2, <2>1, TakeNone DEF FlightTyped
    <2>3. FoundMoved(d, i, b)
      BY <1>5, <1>6, <2>2 DEF FoundMoved
    <2> QED BY <1>4, <2>3
  <1>7. CASE PostDocs # {}
    <2>1. PICK w : w = Write(PostDocs, i, TRUE, NoThen)
      OBVIOUS
    <2>2. w \in PostsWrites(i) /\ w.paths = PostDocs
      BY <2>1 DEF Write, PostsWrites
    <2>3. w \in EditWrites
      BY <2>2, PostsFacts
    <2>4. Take(d, <<w>>, <<>>)
      BY <1>1, <1>4, <1>7, <2>1 DEF foundPosts, Block
    <2>5. /\ FlightTyped /\ HeadTaken(d, b) /\ gets'[d] = gets[d]
          /\ queue'[d] = Append(queue[d], w) /\ Range(queue'[d]) = Range(queue[d]) \cup {w}
      BY <1>1, <1>2, <2>3, <2>4, TakeWrite DEF FlightTyped
    <2>6. FoundMoved(d, i, b)
      BY <1>5, <2>2, <2>5 DEF FoundMoved
    <2> QED BY <1>4, <2>6
  <1> QED BY <1>6, <1>7

LEMMA HudSet ==
    ASSUME TypesInv, NEW d \in Devices, NEW h \in Huds({"edit"}), hud' = [hud EXCEPT ![d] = h]
    PROVE  /\ hud' \in [Devices -> Huds({"edit"})] /\ hud'[d] = h
           /\ \A e \in Devices \ {d} : hud'[e] = hud[e]
  <1>1. hud \in [Devices -> Huds({"edit"})]
    BY DEF TypesInv, StateOK
  <1> QED BY <1>1

LEMMA HudMoves ==
    ASSUME TypesInv, NEW d \in Devices,
           \/ hud' = [hud EXCEPT ![d] = show(@, "edit")]
           \/ hud' = [hud EXCEPT ![d] = dismiss(@)]
           \/ Animating(hud[d]) /\ hud' = [hud EXCEPT ![d] = animated(@)]
    PROVE  /\ hud' \in [Devices -> Huds({"edit"})] /\ \A e \in Devices \ {d} : hud'[e] = hud[e]
           /\ hud' = [hud EXCEPT ![d] = dismiss(@)] => ~Stays(hud'[d])
           /\ Animating(hud[d]) /\ hud' = [hud EXCEPT ![d] = animated(@)] => (Stays(hud'[d]) => Stays(hud[d]))
  <1>1. PICK h \in Huds({"edit"}) : h = hud[d]
    BY DEF TypesInv, StateOK
  <1>2. CASE hud' = [hud EXCEPT ![d] = show(@, "edit")]
    <2>1. PICK g \in Huds({"edit"}) : g = show(h, "edit")
      BY HudFacts
    <2>2. hud' = [hud EXCEPT ![d] = g]
      BY <1>1, <1>2, <2>1
    <2>3. hud' \in [Devices -> Huds({"edit"})] /\ \A e \in Devices \ {d} : hud'[e] = hud[e]
      BY <2>2, HudSet
    <2>4. hud'[d] = g
      BY <2>2, HudSet
    <2>5. ASSUME hud' = [hud EXCEPT ![d] = dismiss(@)] PROVE ~Stays(hud'[d])
      <3>1. hud'[d] = dismiss(h)
        BY <1>1, <2>5 DEF TypesInv, StateOK
      <3> QED BY <3>1, HudFacts
    <2>6. ASSUME Animating(hud[d]), hud' = [hud EXCEPT ![d] = animated(@)], Stays(hud'[d]) PROVE Stays(hud[d])
      <3>1. hud'[d] = animated(h)
        BY <1>1, <2>6 DEF TypesInv, StateOK
      <3> QED BY <1>1, <2>6, <3>1, HudFacts
    <2> QED BY <2>3, <2>5, <2>6
  <1>3. CASE hud' = [hud EXCEPT ![d] = dismiss(@)]
    <2>1. PICK g \in Huds({"edit"}) : g = dismiss(h) /\ ~Stays(g)
      BY HudFacts
    <2>2. hud' = [hud EXCEPT ![d] = g]
      BY <1>1, <1>3, <2>1
    <2>3. hud' \in [Devices -> Huds({"edit"})] /\ hud'[d] = g /\ \A e \in Devices \ {d} : hud'[e] = hud[e]
      BY <2>2, HudSet
    <2> QED BY <2>1, <2>3
  <1>4. CASE Animating(hud[d]) /\ hud' = [hud EXCEPT ![d] = animated(@)]
    <2>1. PICK g \in Huds({"edit"}) : g = animated(h) /\ (Stays(g) => Stays(h))
      BY <1>1, <1>4, HudFacts
    <2>2. hud' = [hud EXCEPT ![d] = g]
      BY <1>1, <1>4, <2>1
    <2>3. hud' \in [Devices -> Huds({"edit"})] /\ hud'[d] = g /\ \A e \in Devices \ {d} : hud'[e] = hud[e]
      BY <2>2, HudSet
    <2>4. ASSUME hud' = [hud EXCEPT ![d] = dismiss(@)] PROVE ~Stays(hud'[d])
      <3>1. hud'[d] = dismiss(h)
        BY <1>1, <2>4 DEF TypesInv, StateOK
      <3> QED BY <3>1, HudFacts
    <2> QED BY <1>1, <2>1, <2>3, <2>4
  <1> QED BY <1>2, <1>3, <1>4

\* An upload starts: what it names is known.
LEMMA StartedKnown ==
    ASSUME TypesInv, NEW d \in Devices, NEW k \in Ks, k <= Len(edits[d]), Started(d, k), edits' = edits,
           NEW c \in Range(calls'[d])
    PROVE  c \in Range(calls[d]) \/ CallKnown(d, c)'
  <1>1. uploads \in Nat /\ uploads' = uploads + 1
    BY DEF Started, TypesInv, StateOK
  <1>2. PICK i \in Nat : i = edits[d][k].image /\ i <= uploads
    BY ScreenFacts
  <1>3. PICK x \in Deletes(i) : \E y \in Uploads(uploads + 1) :
          x.k = k /\ y.k = k /\ Range(calls'[d]) = Range(calls[d]) \cup {x, y}
    BY <1>2 DEF Started
  <1>4. PICK y \in Uploads(uploads + 1) :
          x.k = k /\ y.k = k /\ Range(calls'[d]) = Range(calls[d]) \cup {x, y}
    BY <1>3
  <1>5. x.img = i /\ y.img = uploads + 1
    BY <1>1, CallFacts
  <1>6. CallKnown(d, x)' /\ CallKnown(d, y)'
    BY <1>1, <1>2, <1>4, <1>5 DEF CallKnown, Known, Opened
  <1> QED BY <1>4, <1>6

LEMMA savedTypes ==
    ASSUME TypesInv, NEW d \in Devices, saved(d), haste' = haste
    PROVE  TypesInv'
  <1>1. PICK b \in SaveBlocks : SavedMoved(d, b)
    BY savedFacts
  <1>2. PICK k \in Ks : k = b.then.k /\ k <= Len(edits[d])
    BY <1>1 DEF SavedMoved
  <1>3. /\ FlightTyped /\ HeadTaken(d, b) /\ queue'[d] = queue[d] /\ gets'[d] = gets[d]
        /\ storage' = storage /\ edits' = edits /\ docs' = docs
    BY <1>1 DEF SavedMoved, HeadTaken
  <1>4. edits[d][k].image \in Nat /\ edits[d][k].image <= uploads /\ uploads \in Nat
    BY <1>2, ScreenFacts DEF TypesInv, StateOK
  <1>5. \A e \in Devices : Len(edits[e]) \in Nat
    BY FlightFacts
  <1>6. hud' \in [Devices -> Huds({"edit"})]
    BY <1>1, HudMoves DEF SavedMoved
  <1>7. ASSUME Started(d, k), UNCHANGED <<profile, open>> PROVE TypesInv'
    <2>1. uploads' = uploads + 1 /\ calls' \in QueuesOf(EditCalls)
      BY <1>7 DEF Started
    <2>2. Grows
      BY <1>3, <1>4, <1>5, <2>1 DEF Grows
    <2>3. FlightOK'
      BY <1>3, <2>1 DEF FlightTyped, FlightOK
    <2>4. StateOK'
      BY <1>3, <1>4, <1>6, <1>7, <2>1 DEF TypesInv, StateOK
    <2>5. ShownKnown'
      BY <1>3, <1>7, <2>2, ShownGrows DEF ShownKnown, Known
    <2>6. PICK C : C = Range(calls'[d]) \ Range(calls[d])
      OBVIOUS
    <2>7. Adds(d, {}, {}, {}, C)
      BY <1>3, <1>7, <2>6 DEF Adds, HeadTaken, Started
    <2>8. \A c \in C : CallKnown(d, c)'
      BY <1>2, <1>3, <1>7, <2>6, StartedKnown
    <2>9. \A e \in Devices : KnownAt(e)'
      BY <2>2, <2>7, <2>8, KnownAdds
    <2> QED BY <2>3, <2>4, <2>5, <2>9 DEF TypesInv, KnownInv
  <1>8. ASSUME UNCHANGED <<calls, uploads>>, wantsToUpdate(d, k, edits[d][k].image) PROVE TypesInv'
    <2>1. PICK i \in Nat : i = edits[d][k].image
      BY <1>4
    <2>2. /\ open' \in [Devices -> BOOLEAN] /\ \A e \in Devices : open'[e] => open[e]
          /\ profile' \in [Devices -> Nat] /\ profile'[d] = i
          /\ \A e \in Devices \ {d} : profile'[e] = profile[e]
      BY <1>8, <2>1, wantsToUpdateFacts
    <2>3. Grows
      BY <1>3, <1>4, <1>5, <1>8 DEF Grows
    <2>4. FlightOK'
      BY <1>3, <1>8 DEF FlightTyped, FlightOK, TypesInv
    <2>5. StateOK'
      BY <1>3, <1>6, <1>8, <2>2 DEF TypesInv, StateOK
    <2>6. \A e \in Devices : profile'[e] <= uploads
      BY <1>4, <2>1, <2>2 DEF TypesInv, KnownInv, ShownKnown, Known
    <2>7. ShownKnown'
      BY <1>3, <1>8, <2>6 DEF TypesInv, KnownInv, ShownKnown, Known
    <2>8. Adds(d, {}, {}, {}, {})
      BY <1>3, <1>8 DEF Adds, HeadTaken
    <2>9. \A e \in Devices : KnownAt(e)'
      BY <2>3, <2>8, KnownAdds
    <2> QED BY <2>4, <2>5, <2>7, <2>9 DEF TypesInv, KnownInv
  <1> QED BY <1>1, <1>2, <1>7, <1>8 DEF SavedMoved

\* A step that only moves what is in flight.
LEMMA FlightOnly ==
    ASSUME TypesInv, UNCHANGED <<docs, storage, calls, profile, edits, open, uploads>>, haste' \subseteq {"screen", "done"},
           hud' \in [Devices -> Huds({"edit"})], FlightTyped,
           NEW d \in Devices, NEW W, NEW R, Adds(d, W, R, {}, {}),
           \A w \in W : WriteKnown(d, w), \A r \in R : Known(r.then.img)
    PROVE  TypesInv'
  <1>1. Grows
    <2>1. \A e \in Devices : Len(edits[e]) \in Nat
      BY FlightFacts
    <2> QED BY <2>1 DEF Grows, TypesInv, StateOK
  <1>2. StateOK'
    BY DEF TypesInv, StateOK
  <1>3. ShownKnown'
    BY DEF TypesInv, KnownInv, ShownKnown, Known
  <1>4. FlightOK'
    BY DEF TypesInv, FlightOK, FlightTyped
  <1>5. \A w \in W : WriteKnown(d, w)'
    BY DEF WriteKnown, Known, Opened
  <1>6. \A r \in R : Known(r.then.img)'
    BY DEF Known
  <1>7. \A e \in Devices : KnownAt(e)'
    BY <1>1, <1>5, <1>6, KnownAdds
  <1> QED BY <1>2, <1>3, <1>4, <1>7 DEF TypesInv, KnownInv

LEMMA uploadedTypes ==
    ASSUME TypesInv, NEW d \in Devices, uploaded(d), haste' = haste
    PROVE  TypesInv'
  <1>1. PICK i \in Nat : \E b \in UploadBlocks(i) : \E w \in UpdateWrites(i) : UploadedMoved(d, b, w)
    BY uploadedFacts
  <1>2. PICK b \in UploadBlocks(i) : \E w \in UpdateWrites(i) : UploadedMoved(d, b, w)
    BY <1>1
  <1>3. PICK w \in UpdateWrites(i) : UploadedMoved(d, b, w)
    BY <1>2
  <1>4. /\ UNCHANGED <<docs, storage, calls, profile, edits, open, hud, uploads>> /\ FlightTyped
        /\ Adds(d, {w}, {}, {}, {}) /\ b \in Range(mainq[d]) /\ w.then.k = b.then.k
    BY <1>3 DEF UploadedMoved, HeadTaken, Adds
  <1>5. BlockKnown(d, b) /\ b.then.kind = "uploaded" /\ b.then.img = i /\ w.data = i
    BY <1>4, BlockFacts, UpdateFacts DEF TypesInv, KnownInv, KnownAt
  <1>6. \A x \in {w} : WriteKnown(d, x)
    BY <1>4, <1>5 DEF WriteKnown, BlockKnown
  <1>7. hud' \in [Devices -> Huds({"edit"})] /\ haste' \subseteq {"screen", "done"}
    BY <1>4 DEF TypesInv, StateOK
  <1> QED BY <1>4, <1>6, <1>7, FlightOnly

LEMMA foundPostsTypes ==
    ASSUME TypesInv, NEW d \in Devices, foundPosts(d), haste' = haste
    PROVE  TypesInv'
  <1>1. PICK i \in Nat : \E b \in FoundBlocks(i) : FoundMoved(d, i, b)
    BY foundPostsFacts
  <1>2. PICK b \in FoundBlocks(i) : FoundMoved(d, i, b)
    BY <1>1
  <1>3. UNCHANGED <<docs, storage, calls, profile, edits, open, hud, uploads>> /\ FlightTyped /\ b \in Range(mainq[d])
    BY <1>2 DEF FoundMoved, HeadTaken
  <1>4. hud' \in [Devices -> Huds({"edit"})] /\ haste' \subseteq {"screen", "done"}
    BY <1>3 DEF TypesInv, StateOK
  <1>5. BlockKnown(d, b) /\ b.then.kind = "foundPosts" /\ b.then.img = i
    BY <1>3, BlockFacts DEF TypesInv, KnownInv, KnownAt
  <1>6. CASE queue'[d] = queue[d]
    <2>1. Adds(d, {}, {}, {}, {})
      BY <1>2, <1>6 DEF FoundMoved, HeadTaken, Adds
    <2> QED BY <1>3, <1>4, <2>1, FlightOnly
  <1>7. ASSUME NEW w \in PostsWrites(i), Range(queue'[d]) = Range(queue[d]) \cup {w} PROVE TypesInv'
    <2>1. Adds(d, {w}, {}, {}, {})
      BY <1>2, <1>7 DEF FoundMoved, HeadTaken, Adds
    <2>2. \A x \in {w} : WriteKnown(d, x)
      BY <1>5, PostsFacts DEF WriteKnown, BlockKnown
    <2> QED BY <1>3, <1>4, <2>1, <2>2, FlightOnly
  <1> QED BY <1>2, <1>6, <1>7 DEF FoundMoved

LEMMA updatedTypes ==
    ASSUME TypesInv, NEW d \in Devices, updated(d), haste' = haste
    PROVE  TypesInv'
  <1>1. PICK i \in Nat : \E b \in UpdateBlocks(i) : UpdatedMoved(d, i, b)
    BY updatedFacts
  <1>2. PICK b \in UpdateBlocks(i) : UpdatedMoved(d, i, b)
    BY <1>1
  <1>3. /\ UNCHANGED <<docs, storage, calls, uploads>> /\ FlightTyped /\ b \in Range(mainq[d])
        /\ queue'[d] = queue[d] /\ HeadTaken(d, b)
    <2>1. UNCHANGED <<storage, calls, uploads>> /\ FlightTyped /\ queue'[d] = queue[d] /\ HeadTaken(d, b)
      BY <1>2 DEF UpdatedMoved
    <2>2. docs' = docs /\ b \in Range(mainq[d])
      BY <2>1 DEF HeadTaken
    <2> QED BY <2>1, <2>2
  <1>4. hud' \in [Devices -> Huds({"edit"})] /\ haste' \subseteq {"screen", "done"}
    BY <1>2, HudMoves DEF TypesInv, StateOK, UpdatedMoved
  <1>5. i <= uploads
    <2>1. BlockKnown(d, b) /\ b.then.kind = "updated" /\ b.then.img = i
      BY <1>3, BlockFacts DEF TypesInv, KnownInv, KnownAt
    <2> QED BY <2>1 DEF BlockKnown, Known
  <1>6. CASE gets'[d] = gets[d] /\ UNCHANGED <<edits, profile, open>>
    <2>1. Adds(d, {}, {}, {}, {})
      BY <1>2, <1>3, <1>6 DEF UpdatedMoved, HeadTaken, Adds
    <2> QED BY <1>3, <1>4, <1>6, <2>1, FlightOnly
  <1>7. ASSUME Range(gets'[d]) = Range(gets[d]) \cup {PostsRead(i)}, wantsToUpdate(d, b.then.k, i),
               edits' = [edits EXCEPT ![d] = [edits[d] EXCEPT ![b.then.k] = [edits[d][b.then.k] EXCEPT !.image = i]]]
        PROVE  TypesInv'
    <2>1. PICK k \in Ks : k = b.then.k /\ k <= Len(edits[d])
      BY <1>2 DEF UpdatedMoved
    <2>2. k \in 1..Len(edits[d]) /\ edits[d][k] \in Screens
      BY <2>1, ScreenFacts
    <2>3. PICK x \in Screens : x = [edits[d][k] EXCEPT !.image = i] /\ x.image = i
      <3>1. PICK y \in Screens : y = edits[d][k]
        BY <2>2
      <3>2. [y EXCEPT !.image = i] \in Screens /\ [y EXCEPT !.image = i].image = i
        BY DEF Screens
      <3> QED BY <3>1, <3>2
    <2>4. edits' = [edits EXCEPT ![d] = [edits[d] EXCEPT ![k] = x]]
      BY <1>7, <2>1, <2>3
    <2>5. /\ edits' \in QueuesOf(Screens) /\ edits'[d][k] = x
          /\ \A e \in Devices : Len(edits'[e]) = Len(edits[e])
          /\ \A e \in Devices \ {d} : edits'[e] = edits[e]
          /\ DOMAIN edits'[d] = DOMAIN edits[d]
          /\ \A j \in DOMAIN edits[d] : j # k => edits'[d][j] = edits[d][j]
      <3>1. EditedOne(d, k, x)
        BY <2>2, <2>4, EditOne
      <3> QED BY <3>1 DEF EditedOne
    <2>6. /\ open' \in [Devices -> BOOLEAN] /\ \A e \in Devices : open'[e] => open[e]
          /\ profile' \in [Devices -> Nat] /\ profile'[d] = i
          /\ \A e \in Devices \ {d} : profile'[e] = profile[e]
      BY <1>7, wantsToUpdateFacts
    <2>7. \A e \in Devices : Len(edits[e]) \in Nat
      BY FlightFacts
    <2>8. Grows
      BY <1>3, <2>5, <2>7 DEF Grows, TypesInv, StateOK
    <2>9. FlightOK'
      BY <1>3 DEF FlightTyped, FlightOK, TypesInv
    <2>10. \A e \in Devices : edits'[e] # <<>> <=> edits[e] # <<>>
      <3> SUFFICES ASSUME NEW e \in Devices PROVE edits'[e] # <<>> <=> edits[e] # <<>>
        OBVIOUS
      <3>1. edits'[e] \in Seq(Screens) /\ edits[e] \in Seq(Screens)
        BY <2>5, FlightFacts DEF QueuesOf
      <3>2. PICK s, t \in Seq(Screens) : s = edits'[e] /\ t = edits[e] /\ Len(s) = Len(t)
        BY <2>5, <3>1
      <3>3. s = <<>> <=> t = <<>>
        BY <3>2, EmptySeq
      <3> QED BY <3>2, <3>3
    <2>11. StateOK'
      BY <1>3, <1>4, <2>5, <2>6, <2>10 DEF TypesInv, StateOK
    <2>12. \A e \in Devices : profile'[e] <= uploads
      BY <1>5, <2>6 DEF TypesInv, KnownInv, ShownKnown, Known
    <2>13. ASSUME NEW e \in Devices, NEW j \in DOMAIN edits'[e] PROVE edits'[e][j].image <= uploads
      <3>1. CASE e = d /\ j = k
        BY <1>5, <2>3, <2>5, <3>1
      <3>2. CASE e # d \/ j # k
        <4>1. j \in DOMAIN edits[e] /\ edits'[e][j] = edits[e][j]
          BY <2>5, <2>13, <3>2
        <4> QED BY <4>1 DEF TypesInv, KnownInv, ShownKnown, Known
      <3> QED BY <3>1, <3>2
    <2>14. ShownKnown'
      <3>1. (\A x1 \in EditDocs : docs[x1] <= uploads) /\ \A j \in storage : j <= uploads
        BY DEF TypesInv, KnownInv, ShownKnown, Known
      <3> QED BY <1>3, <2>12, <2>13, <3>1 DEF ShownKnown, Known
    <2>15. PICK r : r = PostsRead(i) /\ r.then.img = i
      BY ReadFacts
    <2>16. Adds(d, {}, {r}, {}, {})
      <3>1. Range(gets'[d]) = Range(gets[d]) \cup {r}
        BY <1>7, <2>15
      <3>2. Range(mainq'[d]) \subseteq Range(mainq[d])
        BY <1>3 DEF HeadTaken
      <3>3. \A e \in Devices \ {d} : queue'[e] = queue[e] /\ gets'[e] = gets[e] /\ mainq'[e] = mainq[e]
        BY <1>3 DEF HeadTaken
      <3>4. calls' = calls /\ queue'[d] = queue[d]
        BY <1>3
      <3> QED BY <3>1, <3>2, <3>3, <3>4 DEF Adds
    <2>17. \A y \in {r} : Known(y.then.img)'
      BY <1>3, <1>5, <2>15 DEF Known
    <2>18. \A e \in Devices : KnownAt(e)'
      BY <2>8, <2>16, <2>17, KnownAdds
    <2> QED BY <2>9, <2>11, <2>14, <2>18 DEF TypesInv, KnownInv
  <1> QED BY <1>2, <1>6, <1>7 DEF UpdatedMoved

\* A new edit screen is opened.
ShowMoved(d) ==
    /\ ~open[d] /\ Len(edits[d]) < MaxScreens
    /\ edits' \in QueuesOf(Screens) /\ edits'[d] = Append(edits[d], Screen(profile[d]))
    /\ edits'[d] # <<>> /\ Len(edits'[d]) = Len(edits[d]) + 1
    /\ \A k \in DOMAIN edits'[d] : \/ k \in DOMAIN edits[d] /\ edits'[d][k] = edits[d][k]
                                   \/ k = Len(edits'[d]) /\ edits'[d][k] = Screen(profile[d])
    /\ \A e \in Devices \ {d} : edits'[e] = edits[e]
    /\ UNCHANGED <<docs, queue, gets, mainq, storage, calls, profile, hud, uploads, dones>>

LEMMA showEditProfileControllerFacts ==
    ASSUME TypesInv, NEW d \in Devices, showEditProfileController(d)
    PROVE  ShowMoved(d) /\ open' \in [Devices -> BOOLEAN] /\ \A e \in Devices \ {d} : open'[e] = open[e]
  <1>1. profile[d] \in Nat /\ edits \in [Devices -> Seq(Screens)] /\ open \in [Devices -> BOOLEAN]
    BY DEF TypesInv, StateOK, QueuesOf
  <1>2. PICK x \in Screens : x = Screen(profile[d])
    <2>1. Screen(profile[d]) \in Screens
      BY <1>1 DEF Screen, Screens
    <2> QED BY <2>1
  <1>3. PICK s \in Seq(Screens) : s = edits[d]
    BY <1>1
  <1>4. PICK t : t = Append(s, x)
    OBVIOUS
  <1>5. t \in Seq(Screens) /\ t # <<>> /\ Len(t) = Len(s) + 1 /\ Len(s) \in Nat
    BY <1>4, AppendProperties
  <1>6. \A k \in DOMAIN t : (k \in DOMAIN s /\ t[k] = s[k]) \/ (k = Len(t) /\ t[k] = x)
    BY <1>4, <1>5
  <1>7. edits' = [edits EXCEPT ![d] = t]
    BY <1>2, <1>3, <1>4 DEF showEditProfileController
  <1>8. edits'[d] = t /\ edits' \in QueuesOf(Screens) /\ \A e \in Devices \ {d} : edits'[e] = edits[e]
    BY <1>1, <1>5, <1>7 DEF QueuesOf
  <1>9. open' \in [Devices -> BOOLEAN] /\ \A e \in Devices \ {d} : open'[e] = open[e]
    BY <1>1 DEF showEditProfileController
  <1>10. /\ ~open[d] /\ Len(edits[d]) < MaxScreens
         /\ UNCHANGED <<docs, queue, gets, mainq, storage, calls, profile, hud, uploads, dones>>
    BY DEF showEditProfileController
  <1>11. /\ edits'[d] = Append(edits[d], Screen(profile[d])) /\ edits'[d] # <<>> /\ Len(edits'[d]) = Len(edits[d]) + 1
    BY <1>2, <1>3, <1>4, <1>5, <1>8
  <1>12. \A k \in DOMAIN edits'[d] : \/ k \in DOMAIN edits[d] /\ edits'[d][k] = edits[d][k]
                                     \/ k = Len(edits'[d]) /\ edits'[d][k] = Screen(profile[d])
    BY <1>2, <1>3, <1>6, <1>8
  <1> QED BY <1>8, <1>9, <1>10, <1>11, <1>12 DEF ShowMoved

LEMMA showEditProfileControllerTypes ==
    ASSUME TypesInv, NEW d \in Devices, showEditProfileController(d), haste' \subseteq {"screen", "done"}
    PROVE  TypesInv'
  <1>1. ShowMoved(d) /\ open' \in [Devices -> BOOLEAN] /\ \A e \in Devices \ {d} : open'[e] = open[e]
    BY showEditProfileControllerFacts
  <1>2. UNCHANGED <<docs, queue, gets, mainq, storage, calls, profile, hud, uploads>>
    BY <1>1 DEF ShowMoved
  <1>3. \A e \in Devices : Len(edits[e]) \in Nat
    BY FlightFacts
  <1>4. /\ edits' \in QueuesOf(Screens) /\ edits'[d] # <<>> /\ Len(edits'[d]) = Len(edits[d]) + 1
        /\ \A e \in Devices \ {d} : edits'[e] = edits[e]
        /\ Len(edits[d]) < MaxScreens
    BY <1>1 DEF ShowMoved
  <1>5. Grows
    BY <1>2, <1>3, <1>4 DEF Grows, TypesInv, StateOK
  <1>6. StateOK'
    <2>1. \A e \in Devices : Len(edits'[e]) <= MaxScreens
      <3>1. \A e \in Devices : Len(edits[e]) <= MaxScreens
        BY DEF TypesInv, StateOK
      <3>2. Len(edits'[d]) <= MaxScreens
        BY <1>3, <1>4, EditAssumption
      <3> QED BY <1>4, <3>1, <3>2
    <2>2. \A e \in Devices : open'[e] => edits'[e] # <<>>
      BY <1>1, <1>4 DEF TypesInv, StateOK
    <2> QED BY <1>1, <1>2, <1>4, <2>1, <2>2 DEF TypesInv, StateOK
  <1>7. FlightOK'
    BY <1>2 DEF TypesInv, FlightOK
  <1>8. \A e \in Devices : \A k \in DOMAIN edits'[e] : edits'[e][k].image <= uploads
    <2>1. \A e \in Devices : profile[e] <= uploads /\ \A k \in DOMAIN edits[e] : edits[e][k].image <= uploads
      BY DEF TypesInv, KnownInv, ShownKnown, Known
    <2>2. Screen(profile[d]).image = profile[d]
      BY DEF Screen
    <2> QED BY <1>1, <2>1, <2>2 DEF ShowMoved
  <1>9. ShownKnown'
    BY <1>2, <1>8 DEF TypesInv, KnownInv, ShownKnown, Known
  <1>10. \A e \in Devices : KnownAt(e)'
    <2>1. Adds(d, {}, {}, {}, {})
      BY <1>2 DEF Adds
    <2> QED BY <1>5, <2>1, KnownAdds
  <1> QED BY <1>6, <1>7, <1>9, <1>10 DEF TypesInv, KnownInv

\* A picture is picked, or a name edited, on the last edit screen.
MarkMoved(d) ==
    /\ open[d] /\ edits[d] # <<>> /\ edits' \in QueuesOf(Screens)
    /\ \A e \in Devices : Len(edits'[e]) = Len(edits[e]) /\ DOMAIN edits'[e] = DOMAIN edits[e]
    /\ \A e \in Devices : edits'[e] # <<>> <=> edits[e] # <<>>
    /\ \A e \in Devices : \A k \in DOMAIN edits[e] :
          /\ edits'[e][k].image = edits[e][k].image
          /\ edits[e][k].selected => edits'[e][k].selected
          /\ edits[e][k].changed => edits'[e][k].changed
    /\ UNCHANGED <<docs, queue, gets, mainq, storage, calls, profile, open, hud, uploads, dones>>

LEMMA MarkOne ==
    ASSUME TypesInv, NEW d \in Devices, open[d], NEW x \in Screens,
           x.image = edits[d][Len(edits[d])].image,
           edits[d][Len(edits[d])].selected => x.selected, edits[d][Len(edits[d])].changed => x.changed,
           edits' = [edits EXCEPT ![d] = [edits[d] EXCEPT ![Len(edits[d])] = x]],
           UNCHANGED <<docs, queue, gets, mainq, storage, calls, profile, open, hud, uploads, dones>>
    PROVE  MarkMoved(d)
  <1>1. edits[d] # <<>> /\ edits[d] \in Seq(Screens)
    BY FlightFacts DEF TypesInv, StateOK
  <1>2. PICK n : n = Len(edits[d])
    OBVIOUS
  <1>3. n \in 1..Len(edits[d])
    BY <1>1, <1>2, EmptySeq
  <1>4. edits' = [edits EXCEPT ![d] = [edits[d] EXCEPT ![n] = x]]
    BY <1>2
  <1>5. /\ edits' \in QueuesOf(Screens) /\ edits'[d][n] = x
        /\ \A e \in Devices : Len(edits'[e]) = Len(edits[e])
        /\ \A e \in Devices \ {d} : edits'[e] = edits[e]
        /\ DOMAIN edits'[d] = DOMAIN edits[d]
        /\ \A j \in DOMAIN edits[d] : j # n => edits'[d][j] = edits[d][j]
    <2>1. EditedOne(d, n, x)
      BY <1>3, <1>4, EditOne
    <2> QED BY <2>1 DEF EditedOne
  <1>6. \A e \in Devices : DOMAIN edits'[e] = DOMAIN edits[e]
    BY <1>5
  <1>7. \A e \in Devices : edits'[e] # <<>> <=> edits[e] # <<>>
    <2> SUFFICES ASSUME NEW e \in Devices PROVE edits'[e] # <<>> <=> edits[e] # <<>>
      OBVIOUS
    <2>1. edits'[e] \in Seq(Screens) /\ edits[e] \in Seq(Screens)
      BY <1>5, FlightFacts DEF QueuesOf
    <2>2. PICK s, t \in Seq(Screens) : s = edits'[e] /\ t = edits[e] /\ Len(s) = Len(t)
      BY <1>5, <2>1
    <2>3. s = <<>> <=> t = <<>>
      BY <2>2, EmptySeq
    <2> QED BY <2>2, <2>3
  <1>8. ASSUME NEW e \in Devices, NEW k \in DOMAIN edits[e]
        PROVE  /\ edits'[e][k].image = edits[e][k].image
               /\ edits[e][k].selected => edits'[e][k].selected
               /\ edits[e][k].changed => edits'[e][k].changed
    <2>1. CASE e = d /\ k = n
      BY <1>2, <1>5, <2>1
    <2>2. CASE e # d \/ k # n
      BY <1>5, <2>2
    <2> QED BY <2>1, <2>2
  <1> QED BY <1>1, <1>5, <1>6, <1>7, <1>8 DEF MarkMoved

LEMMA MarkFacts ==
    ASSUME TypesInv, NEW d \in Devices, didFinishPickingMedia(d) \/ updateUserInfo(d)
    PROVE  MarkMoved(d)
  <1>1. open[d] /\ edits[d] # <<>> /\ edits[d] \in Seq(Screens)
    BY FlightFacts DEF TypesInv, StateOK, didFinishPickingMedia, updateUserInfo
  <1>2. PICK n : n = Len(edits[d])
    OBVIOUS
  <1>3. n \in 1..Len(edits[d])
    BY <1>1, <1>2, EmptySeq
  <1>4. PICK y \in Screens : y = edits[d][n]
    BY <1>1, <1>3
  <1>5. UNCHANGED <<docs, queue, gets, mainq, storage, calls, profile, open, hud, uploads, dones>>
    BY DEF didFinishPickingMedia, updateUserInfo
  <1>6. CASE didFinishPickingMedia(d)
    <2>1. edits' = [edits EXCEPT ![d][n].selected = TRUE]
      BY <1>2, <1>6 DEF didFinishPickingMedia
    <2>2. PICK x : x = [y EXCEPT !.selected = TRUE]
      OBVIOUS
    <2>3. edits' = [edits EXCEPT ![d] = [edits[d] EXCEPT ![n] = x]]
      BY <1>4, <2>1, <2>2
    <2>4. x \in Screens /\ x.image = y.image /\ x.selected /\ x.changed = y.changed
      BY <2>2 DEF Screens
    <2> QED BY <1>1, <1>2, <1>4, <1>5, <2>3, <2>4, MarkOne
  <1>7. CASE updateUserInfo(d)
    <2>1. edits' = [edits EXCEPT ![d][n].changed = TRUE]
      BY <1>2, <1>7 DEF updateUserInfo
    <2>2. PICK x : x = [y EXCEPT !.changed = TRUE]
      OBVIOUS
    <2>3. edits' = [edits EXCEPT ![d] = [edits[d] EXCEPT ![n] = x]]
      BY <1>4, <2>1, <2>2
    <2>4. x \in Screens /\ x.image = y.image /\ x.changed /\ x.selected = y.selected
      BY <2>2 DEF Screens
    <2> QED BY <1>1, <1>2, <1>4, <1>5, <2>3, <2>4, MarkOne
  <1> QED BY <1>6, <1>7

LEMMA MarkTypes ==
    ASSUME TypesInv, NEW d \in Devices, MarkMoved(d), haste' = haste
    PROVE  TypesInv'
  <1>1. UNCHANGED <<docs, queue, gets, mainq, storage, calls, profile, open, hud, uploads>>
    BY DEF MarkMoved
  <1>2. /\ edits' \in QueuesOf(Screens)
        /\ \A e \in Devices : Len(edits'[e]) = Len(edits[e]) /\ DOMAIN edits'[e] = DOMAIN edits[e]
        /\ \A e \in Devices : edits'[e] # <<>> <=> edits[e] # <<>>
        /\ \A e \in Devices : \A k \in DOMAIN edits[e] : edits'[e][k].image = edits[e][k].image
    BY DEF MarkMoved
  <1>3. \A e \in Devices : Len(edits[e]) \in Nat
    BY FlightFacts
  <1>4. Grows
    BY <1>1, <1>2, <1>3 DEF Grows, TypesInv, StateOK
  <1>5. StateOK'
    BY <1>1, <1>2 DEF TypesInv, StateOK
  <1>6. FlightOK'
    BY <1>1 DEF TypesInv, FlightOK
  <1>7. ShownKnown'
    BY <1>1, <1>2 DEF TypesInv, KnownInv, ShownKnown, Known
  <1>8. \A e \in Devices : KnownAt(e)'
    <2>1. Adds(d, {}, {}, {}, {})
      BY <1>1 DEF Adds
    <2> QED BY <1>4, <2>1, KnownAdds
  <1> QED BY <1>5, <1>6, <1>7, <1>8 DEF TypesInv, KnownInv

\* Done is tapped on the last edit screen: the names are saved, or an upload starts.
DoneMoved(d) ==
    LET n == Len(edits[d])
    IN  /\ open[d] /\ n \in Ks /\ n \in 1..Len(edits[d])
        /\ hud' = [hud EXCEPT ![d] = show(@, "edit")]
        /\ UNCHANGED <<docs, gets, mainq, storage, profile, edits, open>>
        /\ \/ /\ edits[d][n].changed /\ UNCHANGED <<calls, uploads>>
              /\ queue' \in QueuesOf(EditWrites) /\ \A e \in Devices \ {d} : queue'[e] = queue[e]
              /\ \E w \in SaveWrites : /\ w.data = edits[d][n].image /\ w.then.k = n /\ w.then.more = edits[d][n].selected
                                       /\ queue'[d] = Append(queue[d], w) /\ Range(queue'[d]) = Range(queue[d]) \cup {w}
           \/ /\ ~edits[d][n].changed /\ edits[d][n].selected
              /\ Started(d, n) /\ queue' = queue

LEMMA handleDoneFacts ==
    ASSUME TypesInv, NEW d \in Devices, handleDone(d)
    PROVE  DoneMoved(d)
  <1>1. open[d] /\ edits[d] # <<>> /\ edits[d] \in Seq(Screens) /\ Len(edits[d]) <= MaxScreens
    BY FlightFacts DEF TypesInv, StateOK, handleDone
  <1>2. PICK n : n = Len(edits[d])
    OBVIOUS
  <1>3. n \in 1..Len(edits[d]) /\ n \in Ks
    BY <1>1, <1>2, EmptySeq, EditAssumption DEF Ks
  <1>4. PICK y \in Screens : y = edits[d][n]
    BY <1>1, <1>3
  <1>5. hud' = [hud EXCEPT ![d] = show(@, "edit")] /\ UNCHANGED <<storage, profile, edits, open>>
    BY DEF handleDone
  <1>6. CASE y.changed
    <2>1. Issue(d, saveUserData(d, n, y.selected), <<>>) /\ UNCHANGED <<calls, uploads>>
      BY <1>2, <1>4, <1>6 DEF handleDone
    <2>2. PICK w : w = setData(UserDoc, y.image, Saved(n, y.selected))
      OBVIOUS
    <2>3. w \in SaveWrites /\ w.data = y.image /\ w.then.k = n /\ w.then.more = y.selected
      BY <1>3, <2>2 DEF setData, Write, SaveWrites, SavedThens, Saved, Screens
    <2>4. w \in EditWrites
      BY <2>3, SaveFacts
    <2>5. Issue(d, <<w>>, <<>>)
      BY <1>4, <2>1, <2>2 DEF saveUserData
    <2>6. queue \in [Devices -> Seq(EditWrites)] /\ gets \in [Devices -> Seq(EditReads)]
      BY DEF TypesInv, FlightOK, QueuesOf
    <2>7. queue[d] \o <<w>> = Append(queue[d], w)
      BY <2>4, FlightFacts, AppendIsConcat
    <2>8. Append(queue[d], w) \in Seq(EditWrites) /\ Range(Append(queue[d], w)) = Range(queue[d]) \cup {w}
      BY <2>4, FlightFacts, RangeOfAppend
    <2>9. PICK t \in Seq(EditWrites) : t = Append(queue[d], w)
      BY <2>8
    <2>10. queue' = [queue EXCEPT ![d] = t]
      BY <2>5, <2>7, <2>9 DEF Issue
    <2>11. queue'[d] = t /\ queue' \in QueuesOf(EditWrites) /\ \A e \in Devices \ {d} : queue'[e] = queue[e]
      BY <2>6, <2>10 DEF QueuesOf
    <2>12. gets[d] \o <<>> = gets[d]
      BY FlightFacts, ConcatEmptySeq
    <2>13. gets' = gets
      <3>1. gets' = [gets EXCEPT ![d] = gets[d] \o <<>>]
        BY <2>5 DEF Issue
      <3> QED BY <2>6, <2>12, <3>1
    <2>14. UNCHANGED <<docs, mainq>>
      BY <2>5 DEF Issue
    <2>15. queue'[d] = Append(queue[d], w) /\ Range(queue'[d]) = Range(queue[d]) \cup {w}
      BY <2>8, <2>9, <2>11
    <2> QED BY <1>1, <1>2, <1>3, <1>4, <1>5, <1>6, <2>1, <2>3, <2>11, <2>13, <2>14, <2>15 DEF DoneMoved
  <1>7. CASE ~y.changed
    <2>1. updateProfileImage(d, n) /\ UNCHANGED <<docs, queue, gets, mainq>> /\ y.selected
      BY <1>2, <1>4, <1>7 DEF handleDone
    <2>2. n <= Len(edits[d])
      BY <1>1, <1>2
    <2>3. Started(d, n)
      BY <1>3, <2>1, <2>2, updateProfileImageFacts
    <2> QED BY <1>1, <1>2, <1>3, <1>4, <1>5, <1>7, <2>1, <2>3 DEF DoneMoved
  <1> QED BY <1>6, <1>7

LEMMA handleDoneTypes ==
    ASSUME TypesInv, NEW d \in Devices, handleDone(d), haste' \subseteq {"screen", "done"}
    PROVE  TypesInv'
  <1>1. DoneMoved(d)
    BY handleDoneFacts
  <1>2. PICK n : n = Len(edits[d])
    OBVIOUS
  <1>3. n \in Ks /\ n <= Len(edits[d]) /\ UNCHANGED <<docs, gets, mainq, storage, profile, edits, open>>
    BY <1>1, <1>2 DEF DoneMoved, Ks
  <1>4. hud' \in [Devices -> Huds({"edit"})]
    BY <1>1, HudMoves DEF DoneMoved
  <1>5. edits[d][n].image \in Nat /\ edits[d][n].image <= uploads /\ uploads \in Nat
    BY <1>2, <1>3, ScreenFacts DEF TypesInv, StateOK
  <1>6. ASSUME NEW w \in SaveWrites, w.data = edits[d][n].image, w.then.k = n,
               Range(queue'[d]) = Range(queue[d]) \cup {w}, queue' \in QueuesOf(EditWrites),
               \A e \in Devices \ {d} : queue'[e] = queue[e], UNCHANGED <<calls, uploads>>
        PROVE  TypesInv'
    <2>1. FlightTyped
      BY <1>3, <1>6 DEF FlightTyped, TypesInv, FlightOK
    <2>2. Adds(d, {w}, {}, {}, {})
      BY <1>3, <1>6 DEF Adds
    <2>3. \A x \in {w} : WriteKnown(d, x)
      BY <1>3, <1>5, <1>6 DEF WriteKnown, Known, Opened
    <2>4. UNCHANGED <<docs, storage, calls, profile, edits, open, uploads>>
      BY <1>3, <1>6
    <2> QED BY <1>4, <2>1, <2>2, <2>3, <2>4, FlightOnly
  <1>7. ASSUME Started(d, n), queue' = queue PROVE TypesInv'
    <2>1. uploads' = uploads + 1 /\ calls' \in QueuesOf(EditCalls)
      BY <1>7 DEF Started
    <2>2. Grows
      <3>1. \A e \in Devices : Len(edits[e]) \in Nat
        BY FlightFacts
      <3> QED BY <1>3, <1>5, <2>1, <3>1 DEF Grows
    <2>3. FlightOK'
      BY <1>3, <1>7, <2>1 DEF FlightOK, TypesInv
    <2>4. StateOK'
      BY <1>3, <1>4, <1>5, <2>1 DEF TypesInv, StateOK
    <2>5. ShownKnown'
      BY <1>3, <2>2, ShownGrows DEF ShownKnown, Known
    <2>6. PICK C : C = Range(calls'[d]) \ Range(calls[d])
      OBVIOUS
    <2>7. Adds(d, {}, {}, {}, C)
      BY <1>3, <1>7, <2>6 DEF Adds, Started
    <2>8. \A c \in C : CallKnown(d, c)'
      BY <1>3, <1>7, <2>6, StartedKnown
    <2>9. \A e \in Devices : KnownAt(e)'
      BY <2>2, <2>7, <2>8, KnownAdds
    <2> QED BY <2>3, <2>4, <2>5, <2>9 DEF TypesInv, KnownInv
  <1> QED BY <1>1, <1>2, <1>6, <1>7 DEF DoneMoved

LEMMA IdleTypes ==
    ASSUME TypesInv, UNCHANGED <<docs, queue, gets, mainq, storage, calls, profile, edits, uploads>>,
           haste' \subseteq {"screen", "done"}, hud' \in [Devices -> Huds({"edit"})],
           open' \in [Devices -> BOOLEAN], \A e \in Devices : open'[e] => open[e]
    PROVE  TypesInv'
  <1>1. FlightOK'
    BY DEF TypesInv, FlightOK
  <1>2. StateOK'
    BY DEF TypesInv, StateOK
  <1>3. ShownKnown'
    BY DEF TypesInv, KnownInv, ShownKnown, Known
  <1>4. \A e \in Devices : KnownAt(e)'
    BY DEF TypesInv, KnownInv, KnownAt, WriteKnown, BlockKnown, CallKnown, Known, Opened
  <1> QED BY <1>1, <1>2, <1>3, <1>4 DEF TypesInv, KnownInv

LEMMA RememberTypes ==
    ASSUME TypesInv, NEW d, NEW tap \in {"screen", "done"}, Remember(d, tap)
    PROVE  haste' \subseteq {"screen", "done"}
  BY DEF TypesInv, StateOK, Remember

LEMMA NextTypes ==
    ASSUME TypesInv, [Next]_vars
    PROVE  TypesInv'
  <1>0. /\ haste \subseteq {"screen", "done"} /\ hud \in [Devices -> Huds({"edit"})]
        /\ open \in [Devices -> BOOLEAN]
    BY DEF TypesInv, StateOK
  <1>1. CASE UNCHANGED vars
    <2>1. UNCHANGED <<docs, queue, gets, mainq, storage, calls, profile, edits, uploads, open, hud, haste>>
      BY <1>1 DEF vars, appVars
    <2> QED BY <1>0, <2>1, IdleTypes
  <1>2. ASSUME NEW d \in Devices, Touch(d) PROVE TypesInv'
    <2>1. CASE showEditProfileController(d) /\ Remember(d, "screen")
      <3>1. haste' \subseteq {"screen", "done"}
        BY <2>1, RememberTypes
      <3> QED BY <2>1, <3>1, showEditProfileControllerTypes
    <2>2. CASE handleCancel(d) /\ Remember(d, "screen")
      <3>1. haste' \subseteq {"screen", "done"}
        BY <2>2, RememberTypes
      <3>2. UNCHANGED <<docs, queue, gets, mainq, storage, calls, profile, edits, uploads, hud>>
        BY <2>2 DEF handleCancel
      <3>3. open' \in [Devices -> BOOLEAN] /\ \A e \in Devices : open'[e] => open[e]
        BY <1>0, <2>2 DEF handleCancel
      <3> QED BY <1>0, <3>1, <3>2, <3>3, IdleTypes
    <2>3. CASE (didFinishPickingMedia(d) \/ updateUserInfo(d)) /\ haste' = haste
      BY <2>3, MarkFacts, MarkTypes
    <2>4. CASE handleDone(d) /\ Remember(d, "done")
      <3>1. haste' \subseteq {"screen", "done"}
        BY <2>4, RememberTypes
      <3> QED BY <2>4, <3>1, handleDoneTypes
    <2> QED BY <1>2, <2>1, <2>2, <2>3, <2>4 DEF Touch
  <1>3. ASSUME NEW d \in Devices, Deliver(d), haste' = haste PROVE TypesInv'
    BY <1>3, DeliverTypes
  <1>4. ASSUME NEW d \in Devices, MainQueue(d), haste' = haste PROVE TypesInv'
    BY <1>4, savedTypes, uploadedTypes, updatedTypes, foundPostsTypes DEF MainQueue
  <1>5. ASSUME NEW d \in Devices, Animate(d), haste' = haste PROVE TypesInv'
    <2>1. UNCHANGED <<docs, queue, gets, mainq, storage, calls, profile, edits, uploads, open>>
      BY <1>5 DEF Animate
    <2>2. hud' \in [Devices -> Huds({"edit"})]
      BY <1>5, HudMoves DEF Animate
    <2> QED BY <1>0, <1>5, <2>1, <2>2, IdleTypes
  <1>6. ASSUME NEW d \in Devices, NEW i \in DOMAIN calls[d], StorageAnswer(d, i), haste' = haste PROVE TypesInv'
    BY <1>6, StorageTypes
  <1> QED BY <1>1, <1>2, <1>3, <1>4, <1>5, <1>6 DEF Next, Step

LEMMA InitTypes ==
    ASSUME Init
    PROVE  TypesInv
  <1>1. \A S : <<>> \in Seq(S)
    OBVIOUS
  <1>2. \A d \in Devices : queue[d] = <<>> /\ gets[d] = <<>> /\ mainq[d] = <<>> /\ calls[d] = <<>> /\ edits[d] = <<>>
    BY DEF Init
  <1>3. FlightOK
    BY <1>1 DEF Init, FlightOK, QueuesOf
  <1>4. Hidden \in Huds({"edit"})
    BY DEF Hidden, Huds, Phases
  <1>5. StateOK
    <2>1. edits \in QueuesOf(Screens)
      BY <1>1 DEF Init, QueuesOf
    <2>2. \A d \in Devices : Len(edits[d]) <= MaxScreens
      BY <1>2, EditAssumption
    <2>3. docs \in [EditDocs -> Nat]
      BY DEF Init, EditDocs
    <2>4. hud \in [Devices -> Huds({"edit"})] /\ open \in [Devices -> BOOLEAN] /\ \A d \in Devices : ~open[d]
      BY <1>4 DEF Init
    <2>5. storage \subseteq Nat /\ profile \in [Devices -> Nat] /\ uploads \in Nat /\ haste \subseteq {"screen", "done"}
      BY DEF Init
    <2> QED BY <2>1, <2>2, <2>3, <2>4, <2>5 DEF StateOK
  <1>6. ShownKnown
    <2>1. \A d \in Devices : DOMAIN edits[d] = {}
      BY <1>2
    <2> QED BY <2>1 DEF Init, ShownKnown, Known, EditDocs
  <1>7. \A d \in Devices : KnownAt(d)
    BY <1>2, RangeOfEmpty DEF KnownAt
  <1> QED BY <1>3, <1>5, <1>6, <1>7 DEF TypesInv, KnownInv

\* What is typed and known has the types that EditProfile states.
LEMMA TypeOKFrom ==
    ASSUME TypesInv
    PROVE  EditTypeOK
  <1>0. uploads \in Nat
    BY DEF TypesInv, StateOK
  <1>1. docs \in [{UserDoc} \cup PostDocs -> Images]
    BY <1>0 DEF TypesInv, StateOK, KnownInv, ShownKnown, Known, EditDocs, Images
  <1>2. storage \subseteq Images
    BY <1>0 DEF TypesInv, StateOK, KnownInv, ShownKnown, Known, Images
  <1>3. profile \in [Devices -> Images]
    BY <1>0 DEF TypesInv, StateOK, KnownInv, ShownKnown, Known, Images
  <1>4. ASSUME NEW d \in Devices PROVE edits[d] \in Seq([image : Images, selected : BOOLEAN, changed : BOOLEAN])
    <2>1. PICK s \in Seq(Screens) : s = edits[d]
      BY FlightFacts
    <2>2. \A k \in 1..Len(s) : s[k] \in Screens /\ s[k].image <= uploads
      BY <2>1 DEF TypesInv, KnownInv, ShownKnown, Known
    <2>3. PICK T : T = [image : Images, selected : BOOLEAN, changed : BOOLEAN]
      OBVIOUS
    <2>4. \A k \in 1..Len(s) : s[k] \in T
      BY <1>0, <2>2, <2>3 DEF Screens, Images
    <2>5. s \in Seq(T)
      BY <2>4
    <2> QED BY <2>1, <2>3, <2>5
  <1>5. \A d \in Devices : (open[d] => edits[d] # <<>>) /\ hud[d] \in Huds({"edit"})
    BY DEF TypesInv, StateOK
  <1>6. haste \subseteq {"screen", "done"}
    BY DEF TypesInv, StateOK
  <1> QED BY <1>1, <1>2, <1>3, <1>4, <1>5, <1>6 DEF EditTypeOK

\* The variables keep their types, no picture is named that was not handed out by an
\* upload and no block is of an edit screen that was not opened, also when the
\* server refuses writes and Storage fails, for any number of devices.
THEOREM TypesSafe == Spec => []TypesInv
  <1>1. Init => TypesInv
    BY InitTypes
  <1>2. TypesInv /\ [Next]_vars => TypesInv'
    BY NextTypes
  <1> QED BY <1>1, <1>2, PTL DEF Spec

-----------------------------------------------------------------------------
(* The loader has an owner, if every call is answered.                     *)

LEMMA LoaderKept ==
    ASSUME LoaderInv, NEW d \in Devices,
           \A e \in Devices \ {d} : queue'[e] = queue[e] /\ mainq'[e] = mainq[e] /\ calls'[e] = calls[e] /\ hud'[e] = hud[e],
           Stays(hud'[d]) => SaveComing(d)'
    PROVE  LoaderInv'
  <1> SUFFICES ASSUME NEW e \in Devices, Stays(hud'[e]) PROVE SaveComing(e)'
    BY DEF LoaderInv
  <1>1. CASE e = d
    BY <1>1
  <1>2. CASE e # d
    <2>1. queue'[e] = queue[e] /\ mainq'[e] = mainq[e] /\ calls'[e] = calls[e] /\ hud'[e] = hud[e]
      BY <1>2
    <2>2. SaveComing(e)
      BY <2>1 DEF LoaderInv
    <2> QED BY <2>1, <2>2 DEF SaveComing
  <1> QED BY <1>1, <1>2

\* No owner leaves, and the loader is not shown anew.
LEMMA LoaderStays ==
    ASSUME LoaderInv, NEW d \in Devices, Stays(hud'[d]) => Stays(hud[d]),
           \A w \in Range(queue[d]) : w.then # NoThen => w \in Range(queue'[d]) \/ \E b \in Range(mainq'[d]) : b.then.kind # "foundPosts",
           \A b \in Range(mainq[d]) : b.then.kind # "foundPosts" => SaveComing(d)',
           \A c \in Range(calls[d]) : c.op = "upload" => SaveComing(d)'
    PROVE  Stays(hud'[d]) => SaveComing(d)'
  <1> SUFFICES ASSUME Stays(hud'[d]) PROVE SaveComing(d)'
    OBVIOUS
  <1>1. SaveComing(d)
    BY DEF LoaderInv
  <1>2. ASSUME NEW w \in Range(queue[d]), w.then # NoThen PROVE SaveComing(d)'
    BY <1>2 DEF SaveComing
  <1> QED BY <1>1, <1>2 DEF SaveComing

LEMMA AnswerLoader ==
    ASSUME TypesInv, LoaderInv, NEW d \in Devices, Answer(d, TRUE), UNCHANGED appVars
    PROVE  LoaderInv'
  <1>0. TRUE \in BOOLEAN
    OBVIOUS
  <1>1. PICK w \in EditWrites : \E path : AnsweredHead(d, TRUE, w, path)
    BY <1>0, AnswerHead
  <1>2. PICK path : AnsweredHead(d, TRUE, w, path)
    BY <1>1
  <1>3. AnsweredPart(d, TRUE, w, path) /\ path \in w.paths
    BY <1>2 DEF AnsweredHead
  <1>4. calls' = calls /\ hud' = hud
    BY DEF appVars
  <1>5. \A e \in Devices \ {d} : queue'[e] = queue[e] /\ mainq'[e] = mainq[e]
    BY <1>3 DEF AnsweredPart
  <1>6. Range(mainq[d]) \subseteq Range(mainq'[d]) /\ Range(queue[d]) \subseteq {w} \cup Range(queue'[d])
    BY <1>3 DEF AnsweredPart
  <1>7. w.then # NoThen => \E b \in Range(mainq'[d]) : b.then.kind # "foundPosts"
    <2> SUFFICES ASSUME w.then # NoThen PROVE \E b \in Range(mainq'[d]) : b.then.kind # "foundPosts"
      OBVIOUS
    <2>1. PICK b : b = [then |-> w.then, res |-> TRUE /\ Accepts(w, path)]
      OBVIOUS
    <2>2. b \in Range(mainq'[d])
      BY <1>3, <2>1 DEF AnsweredPart
    <2>3. b.then = w.then /\ w.then.kind # "foundPosts"
      BY <2>1, KindOfWrite
    <2> QED BY <2>2, <2>3
  <1>8. \A v \in Range(queue[d]) : v.then # NoThen => v \in Range(queue'[d]) \/ \E b \in Range(mainq'[d]) : b.then.kind # "foundPosts"
    BY <1>6, <1>7
  <1>9. \A b \in Range(mainq[d]) : b.then.kind # "foundPosts" => SaveComing(d)'
    BY <1>6 DEF SaveComing
  <1>10. \A c \in Range(calls[d]) : c.op = "upload" => SaveComing(d)'
    BY <1>4 DEF SaveComing
  <1>11. Stays(hud'[d]) => SaveComing(d)'
    BY <1>4, <1>8, <1>9, <1>10, LoaderStays
  <1> QED BY <1>4, <1>5, <1>11, LoaderKept

\* Steps after which every owner is still there.
LEMMA OwnersKept ==
    ASSUME TypesInv, LoaderInv, NEW d \in Devices,
           \A e \in Devices \ {d} : queue'[e] = queue[e] /\ mainq'[e] = mainq[e] /\ calls'[e] = calls[e] /\ hud'[e] = hud[e],
           Stays(hud'[d]) => Stays(hud[d]),
           Range(queue[d]) \subseteq Range(queue'[d]), Range(mainq[d]) \subseteq Range(mainq'[d]),
           Range(calls[d]) \subseteq Range(calls'[d])
    PROVE  LoaderInv'
  <1>1. SaveComing(d) => SaveComing(d)'
    BY DEF SaveComing
  <1>2. Stays(hud'[d]) => SaveComing(d)'
    BY <1>1 DEF LoaderInv
  <1> QED BY <1>2, LoaderKept

LEMMA ResolveLoader ==
    ASSUME TypesInv, LoaderInv, NEW d \in Devices, NEW k \in DOMAIN gets[d], Resolve(d, k), UNCHANGED appVars
    PROVE  LoaderInv'
  <1>1. PICK r \in EditReads : \E b \in FoundBlocks(r.then.img) :
                Resolved(d, r) /\ Range(mainq'[d]) = Range(mainq[d]) \cup {b}
    BY ResolveEdit
  <1>2. /\ queue' = queue /\ Range(mainq[d]) \subseteq Range(mainq'[d])
        /\ \A e \in Devices \ {d} : mainq'[e] = mainq[e]
    BY <1>1 DEF Resolved
  <1>3. calls' = calls /\ hud' = hud
    BY DEF appVars
  <1> QED BY <1>2, <1>3, OwnersKept

LEMMA StorageLoader ==
    ASSUME ~Failures, TypesInv, LoaderInv, NEW d \in Devices, NEW i \in DOMAIN calls[d], StorageAnswer(d, i)
    PROVE  LoaderInv'
  <1>1. PICK c \in EditCalls : StorageMoved(d, i, c)
    BY StorageFacts
  <1>2. /\ queue' = queue /\ hud' = hud /\ \A e \in Devices \ {d} : calls'[e] = calls[e]
        /\ Range(calls[d]) = {c} \cup Range(calls'[d])
    BY <1>1 DEF StorageMoved, Removed
  <1>3. CASE c.op = "delete" /\ mainq' = mainq
    <2>1. \A x \in Range(calls[d]) : x.op = "upload" => SaveComing(d)'
      BY <1>2, <1>3 DEF SaveComing
    <2>2. \A b \in Range(mainq[d]) : b.then.kind # "foundPosts" => SaveComing(d)'
      BY <1>3 DEF SaveComing
    <2>3. Stays(hud'[d]) => SaveComing(d)'
      BY <1>2, <1>3, <2>1, <2>2, LoaderStays
    <2> QED BY <1>2, <1>3, <2>3, LoaderKept
  <1>4. ASSUME NEW b \in UploadBlocks(c.img), Range(mainq'[d]) = Range(mainq[d]) \cup {b},
               \A e \in Devices \ {d} : mainq'[e] = mainq[e]
        PROVE  LoaderInv'
    <2>1. b.then.kind # "foundPosts"
      BY CallFacts, BlockFacts
    <2>2. SaveComing(d)'
      BY <1>4, <2>1 DEF SaveComing
    <2> QED BY <1>2, <1>4, <2>2, LoaderKept
  <1> QED BY <1>1, <1>3, <1>4 DEF StorageMoved

LEMMA BlocksLoader ==
    ASSUME TypesInv, LoaderInv, NEW d \in Devices, MainQueue(d)
    PROVE  LoaderInv'
  <1>1. CASE saved(d)
    <2>1. PICK b \in SaveBlocks : SavedMoved(d, b)
      BY <1>1, savedFacts
    <2>2. \A e \in Devices \ {d} : queue'[e] = queue[e] /\ mainq'[e] = mainq[e]
      BY <2>1 DEF SavedMoved, HeadTaken
    <2>3. \A e \in Devices \ {d} : hud'[e] = hud[e]
      BY <2>1, HudMoves DEF SavedMoved
    <2>4. \A e \in Devices \ {d} : calls'[e] = calls[e]
      BY <2>1 DEF SavedMoved, Started
    <2>5. Stays(hud'[d]) => SaveComing(d)'
      <3>1. CASE hud' = [hud EXCEPT ![d] = dismiss(@)]
        BY <3>1, HudMoves
      <3>2. ASSUME Started(d, b.then.k) PROVE SaveComing(d)'
        <4>1. uploads + 1 \in Nat
          BY DEF TypesInv, StateOK
        <4>2. \E y \in Uploads(uploads + 1) : y \in Range(calls'[d])
          BY <3>2 DEF Started
        <4> QED BY <4>1, <4>2, CallFacts DEF SaveComing
      <3> QED BY <2>1, <3>1, <3>2 DEF SavedMoved
    <2> QED BY <2>2, <2>3, <2>4, <2>5, LoaderKept
  <1>2. CASE uploaded(d)
    <2>1. PICK i \in Nat : \E b \in UploadBlocks(i) : \E w \in UpdateWrites(i) : UploadedMoved(d, b, w)
      BY <1>2, uploadedFacts
    <2>2. PICK b \in UploadBlocks(i) : \E w \in UpdateWrites(i) : UploadedMoved(d, b, w)
      BY <2>1
    <2>3. PICK w \in UpdateWrites(i) : UploadedMoved(d, b, w)
      BY <2>2
    <2>4. w \in Range(queue'[d]) /\ calls' = calls /\ hud' = hud
      BY <2>3 DEF UploadedMoved
    <2>5. \A e \in Devices \ {d} : queue'[e] = queue[e] /\ mainq'[e] = mainq[e]
      BY <2>3 DEF UploadedMoved, HeadTaken
    <2>6. SaveComing(d)'
      BY <2>4, UpdateFacts DEF SaveComing
    <2> QED BY <2>4, <2>5, <2>6, LoaderKept
  <1>3. CASE updated(d)
    <2>1. PICK i \in Nat : \E b \in UpdateBlocks(i) : UpdatedMoved(d, i, b)
      BY <1>3, updatedFacts
    <2>2. PICK b \in UpdateBlocks(i) : UpdatedMoved(d, i, b)
      BY <2>1
    <2>3. HeadTaken(d, b) /\ calls' = calls /\ hud' = [hud EXCEPT ![d] = dismiss(@)]
      BY <2>2 DEF UpdatedMoved
    <2>4. ~Stays(hud'[d]) /\ \A e \in Devices \ {d} : hud'[e] = hud[e]
      BY <2>3, HudMoves
    <2>5. \A e \in Devices \ {d} : queue'[e] = queue[e] /\ mainq'[e] = mainq[e]
      BY <2>3 DEF HeadTaken
    <2> QED BY <2>3, <2>4, <2>5, LoaderKept
  <1>4. CASE foundPosts(d)
    <2>1. PICK i \in Nat : \E b \in FoundBlocks(i) : FoundMoved(d, i, b)
      BY <1>4, foundPostsFacts
    <2>2. PICK b \in FoundBlocks(i) : FoundMoved(d, i, b)
      BY <2>1
    <2>3. HeadTaken(d, b) /\ calls' = calls /\ hud' = hud /\ Range(queue[d]) \subseteq Range(queue'[d])
      BY <2>2 DEF FoundMoved
    <2>4. Range(mainq[d]) = {b} \cup Range(mainq'[d]) /\ b.then.kind = "foundPosts"
      BY <2>3, BlockFacts DEF HeadTaken
    <2>5. \A e \in Devices \ {d} : queue'[e] = queue[e] /\ mainq'[e] = mainq[e]
      BY <2>3 DEF HeadTaken
    <2>6. SaveComing(d) => SaveComing(d)'
      BY <2>3, <2>4 DEF SaveComing
    <2>7. Stays(hud'[d]) => SaveComing(d)'
      BY <2>3, <2>6 DEF LoaderInv
    <2> QED BY <2>3, <2>5, <2>7, LoaderKept
  <1> QED BY <1>1, <1>2, <1>3, <1>4 DEF MainQueue

LEMMA TouchLoader ==
    ASSUME TypesInv, LoaderInv, NEW d \in Devices, Touch(d)
    PROVE  LoaderInv'
  <1>1. CASE showEditProfileController(d) \/ handleCancel(d) \/ didFinishPickingMedia(d) \/ updateUserInfo(d)
    <2>1. UNCHANGED <<queue, mainq, calls, hud>>
      BY <1>1 DEF showEditProfileController, handleCancel, didFinishPickingMedia, updateUserInfo
    <2> QED BY <2>1, OwnersKept
  <1>2. CASE handleDone(d)
    <2>1. DoneMoved(d)
      BY <1>2, handleDoneFacts
    <2>2. mainq' = mainq /\ hud' = [hud EXCEPT ![d] = show(@, "edit")]
      BY <2>1 DEF DoneMoved
    <2>3. \A e \in Devices \ {d} : hud'[e] = hud[e]
      BY <2>2, HudMoves
    <2>4. \A e \in Devices \ {d} : queue'[e] = queue[e] /\ calls'[e] = calls[e]
      BY <2>1 DEF DoneMoved, Started
    <2>5. SaveComing(d)'
      <3>1. ASSUME Started(d, Len(edits[d])) PROVE SaveComing(d)'
        <4>1. uploads + 1 \in Nat
          BY DEF TypesInv, StateOK
        <4>2. \E y \in Uploads(uploads + 1) : y \in Range(calls'[d])
          BY <3>1 DEF Started
        <4> QED BY <4>1, <4>2, CallFacts DEF SaveComing
      <3>2. ASSUME NEW w \in SaveWrites, Range(queue'[d]) = Range(queue[d]) \cup {w} PROVE SaveComing(d)'
        BY <3>2, SaveFacts DEF SaveComing
      <3> QED BY <2>1, <3>1, <3>2 DEF DoneMoved
    <2> QED BY <2>2, <2>3, <2>4, <2>5, LoaderKept
  <1> QED BY <1>1, <1>2 DEF Touch

LEMMA NextLoader ==
    ASSUME ~Failures, TypesInv, LoaderInv, [Next]_vars
    PROVE  LoaderInv'
  <1>1. CASE UNCHANGED vars
    <2>1. UNCHANGED <<queue, mainq, calls, hud>>
      BY <1>1 DEF vars, appVars
    <2> QED BY <2>1 DEF LoaderInv, SaveComing
  <1>2. ASSUME NEW d \in Devices, Touch(d) PROVE LoaderInv'
    BY <1>2, TouchLoader
  <1>3. ASSUME NEW d \in Devices, Deliver(d) PROVE LoaderInv'
    <2>1. UNCHANGED appVars
      BY <1>3 DEF Deliver
    <2>2. CASE Commit(d)
      BY <2>1, <2>2, AnswerLoader DEF Commit
    <2>3. ASSUME NEW k \in DOMAIN gets[d], Resolve(d, k) PROVE LoaderInv'
      BY <2>1, <2>3, ResolveLoader
    <2> QED BY <1>3, <2>2, <2>3 DEF Deliver, Network, Serve, Fail, Refuse, Lose
  <1>4. ASSUME NEW d \in Devices, MainQueue(d) PROVE LoaderInv'
    BY <1>4, BlocksLoader
  <1>5. ASSUME NEW d \in Devices, Animate(d) PROVE LoaderInv'
    <2>1. UNCHANGED <<queue, mainq, calls>>
      BY <1>5 DEF Animate
    <2>2. Animating(hud[d]) /\ hud' = [hud EXCEPT ![d] = animated(@)]
      BY <1>5 DEF Animate
    <2>3. (Stays(hud'[d]) => Stays(hud[d])) /\ \A e \in Devices \ {d} : hud'[e] = hud[e]
      BY <2>2, HudMoves
    <2> QED BY <2>1, <2>3, OwnersKept
  <1>6. ASSUME NEW d \in Devices, NEW i \in DOMAIN calls[d], StorageAnswer(d, i) PROVE LoaderInv'
    BY <1>6, StorageLoader
  <1> QED BY <1>1, <1>2, <1>3, <1>4, <1>5, <1>6 DEF Next, Step

LEMMA EditInvFrom ==
    ASSUME TypesInv, LoaderInv
    PROVE  EditInv
  <1>1. ASSUME NEW d \in Devices, Stays(hud[d])
        PROVE  \/ \E i \in DOMAIN calls[d] : calls[d][i].op = "upload"
               \/ \E i \in DOMAIN queue[d] : queue[d][i].then # NoThen
               \/ \E i \in DOMAIN mainq[d] : mainq[d][i].then.kind # "foundPosts"
    <2>1. SaveComing(d)
      BY <1>1 DEF LoaderInv
    <2> QED BY <2>1 DEF SaveComing, Range
  <1>2. EditLoaderHasOwner
    BY <1>1 DEF EditLoaderHasOwner
  <1> QED BY <1>2, TypeOKFrom DEF EditInv

\* If the server and Storage answer every call, a loader that stays has a save that
\* will dismiss it, for any number of devices and however often Done is tapped and
\* the edit screen left and opened again meanwhile.
THEOREM EditSafe == ASSUME ~Failures PROVE Spec => []EditInv
  <1>1. Init => TypesInv /\ LoaderInv
    <2>1. Init => LoaderInv
      BY DEF Init, LoaderInv, Stays, Hidden
    <2> QED BY <2>1, InitTypes
  <1>2. TypesInv /\ LoaderInv /\ [Next]_vars => TypesInv' /\ LoaderInv'
    BY NextTypes, NextLoader
  <1>3. TypesInv /\ LoaderInv => EditInv
    BY EditInvFrom
  <1> QED BY <1>1, <1>2, <1>3, PTL DEF Spec

-----------------------------------------------------------------------------
(* Sequences of which at most one element is in T.                         *)

\* t has no more of T than s has.
Fewer(s, t, T) ==
    /\ AtMostOne(s, T) => AtMostOne(t, T)
    /\ (\E x \in Range(t) : x \in T) => \E x \in Range(s) : x \in T

LEMMA FewerSame ==
    ASSUME NEW s, NEW T
    PROVE  Fewer(s, s, T)
  BY DEF Fewer

LEMMA FewerTail ==
    ASSUME NEW S, NEW s \in Seq(S), s # <<>>, NEW T
    PROVE  /\ Fewer(s, Tail(s), T)
           /\ AtMostOne(s, T) /\ Head(s) \in T => \A x \in Range(Tail(s)) : x \notin T
  <1>1. Range(s) = {Head(s)} \cup Range(Tail(s))
    BY RangeOfTail
  <1>2. /\ Len(s) \in Nat /\ DOMAIN s = 1..Len(s) /\ Len(s) >= 1 /\ Head(s) = s[1]
        /\ DOMAIN Tail(s) = 1..(Len(s) - 1) /\ \A i \in 1..(Len(s) - 1) : Tail(s)[i] = s[i + 1]
    OBVIOUS
  <1>3. ASSUME AtMostOne(s, T) PROVE AtMostOne(Tail(s), T)
    <2> SUFFICES ASSUME NEW i \in DOMAIN Tail(s), NEW j \in DOMAIN Tail(s), Tail(s)[i] \in T, Tail(s)[j] \in T
                 PROVE  i = j
      BY DEF AtMostOne
    <2>1. i \in 1..(Len(s) - 1) /\ j \in 1..(Len(s) - 1) /\ s[i + 1] \in T /\ s[j + 1] \in T
      BY <1>2
    <2>2. i + 1 \in DOMAIN s /\ j + 1 \in DOMAIN s /\ i \in Nat /\ j \in Nat
      BY <1>2, <2>1
    <2>3. i + 1 = j + 1
      BY <1>3, <2>1, <2>2 DEF AtMostOne
    <2> QED BY <2>2, <2>3
  <1>4. ASSUME AtMostOne(s, T), Head(s) \in T, NEW x \in Range(Tail(s)), x \in T PROVE FALSE
    <2>1. PICK i \in DOMAIN Tail(s) : x = Tail(s)[i]
      BY DEF Range
    <2>2. i \in 1..(Len(s) - 1) /\ s[i + 1] \in T
      BY <1>2, <1>4, <2>1
    <2>3. i + 1 \in DOMAIN s /\ 1 \in DOMAIN s /\ i + 1 # 1
      BY <1>2, <2>2
    <2> QED BY <1>2, <1>4, <2>2, <2>3 DEF AtMostOne
  <1> QED BY <1>1, <1>3, <1>4 DEF Fewer

LEMMA OneAppend ==
    ASSUME NEW S, NEW s \in Seq(S), NEW x \in S, NEW T, AtMostOne(s, T), x \in T => \A y \in Range(s) : y \notin T
    PROVE  AtMostOne(Append(s, x), T)
  <1>1. /\ Len(s) \in Nat /\ DOMAIN s = 1..Len(s) /\ DOMAIN Append(s, x) = 1..(Len(s) + 1)
        /\ \A i \in 1..Len(s) : Append(s, x)[i] = s[i]
        /\ Append(s, x)[Len(s) + 1] = x
    OBVIOUS
  <1>2. \A i \in 1..Len(s) : s[i] \in Range(s)
    BY <1>1 DEF Range
  <1> PICK t : t = Append(s, x)
    OBVIOUS
  <1> SUFFICES ASSUME NEW i \in DOMAIN t, NEW j \in DOMAIN t, t[i] \in T, t[j] \in T PROVE i = j
    BY DEF AtMostOne
  <1>3. i \in 1..(Len(s) + 1) /\ j \in 1..(Len(s) + 1)
    BY <1>1
  <1>4. CASE i = Len(s) + 1 \/ j = Len(s) + 1
    BY <1>1, <1>2, <1>3, <1>4
  <1>5. CASE i \in 1..Len(s) /\ j \in 1..Len(s)
    BY <1>1, <1>5 DEF AtMostOne
  <1> QED BY <1>1, <1>3, <1>4, <1>5

LEMMA FewerAppend ==
    ASSUME NEW S, NEW s \in Seq(S), NEW x \in S, NEW T, x \notin T
    PROVE  Fewer(s, Append(s, x), T)
  BY OneAppend, RangeOfAppend DEF Fewer

\* The first element is replaced by one that is not in T.
Cut(s, x) == <<x>> \o Tail(s)

LEMMA FewerTrim ==
    ASSUME NEW S, NEW s \in Seq(S), s # <<>>, NEW x \in S, NEW T, x \notin T
    PROVE  Fewer(s, Cut(s, x), T)
  <1>1. Range(s) = {Head(s)} \cup Range(Tail(s)) /\ Tail(s) \in Seq(S)
    BY RangeOfTail
  <1>2. <<x>> \in Seq(S) /\ Range(<<x>>) = {x}
    BY RangeOfOne
  <1>3. Range(<<x>> \o Tail(s)) = {x} \cup Range(Tail(s))
    <2>t. PICK t : t = Tail(s)
      OBVIOUS
    <2>u. PICK u : u = <<x>>
      OBVIOUS
    <2>1. u \in Seq(S) /\ t \in Seq(S)
      BY <1>1, <1>2, <2>t, <2>u
    <2>2. Range(u \o t) = Range(u) \cup Range(t)
      BY <2>1, RangeOfConcat
    <2> QED BY <1>2, <2>2, <2>t, <2>u
  <1>4. /\ Len(s) \in Nat /\ DOMAIN s = 1..Len(s) /\ Len(s) >= 1
        /\ DOMAIN (<<x>> \o Tail(s)) = 1..Len(s) /\ (<<x>> \o Tail(s))[1] = x
        /\ \A i \in 2..Len(s) : (<<x>> \o Tail(s))[i] = s[i]
    <2>1. Len(s) \in Nat /\ DOMAIN s = 1..Len(s) /\ Len(s) >= 1
      OBVIOUS
    <2>2. Len(Tail(s)) = Len(s) - 1 /\ \A i \in 1..(Len(s) - 1) : Tail(s)[i] = s[i + 1]
      OBVIOUS
    <2> PICK t : t = Tail(s)
      OBVIOUS
    <2> PICK u : u = <<x>>
      OBVIOUS
    <2>3. u \in Seq(S) /\ Len(u) = 1 /\ u[1] = x /\ t \in Seq(S)
      BY <1>1
    <2>4. DOMAIN (u \o t) = 1..Len(s) /\ (u \o t)[1] = x
      BY <2>1, <2>2, <2>3
    <2>5. ASSUME NEW i \in 2..Len(s) PROVE (u \o t)[i] = s[i]
      <3>1. (u \o t)[i] = t[i - 1]
        BY <2>1, <2>2, <2>3
      <3>2. i - 1 \in 1..(Len(s) - 1) /\ (i - 1) + 1 = i
        BY <2>1
      <3> QED BY <2>2, <3>1, <3>2
    <2> QED BY <2>1, <2>4, <2>5
  <1> PICK t : t = <<x>> \o Tail(s)
    OBVIOUS
  <1>5. ASSUME AtMostOne(s, T) PROVE AtMostOne(t, T)
    <2> SUFFICES ASSUME NEW i \in DOMAIN t, NEW j \in DOMAIN t, t[i] \in T, t[j] \in T PROVE i = j
      BY DEF AtMostOne
    <2>1. i \in 2..Len(s) /\ j \in 2..Len(s)
      BY <1>4
    <2> QED BY <1>4, <1>5, <2>1 DEF AtMostOne
  <1> QED BY <1>1, <1>3, <1>5 DEF Fewer, Cut

LEMMA ItemsOfRemoveAt ==
    ASSUME NEW S, NEW s \in Seq(S), NEW k \in DOMAIN s
    PROVE  /\ DOMAIN RemoveAt(s, k) = 1..(Len(s) - 1)
           /\ \A i \in 1..(Len(s) - 1) : RemoveAt(s, k)[i] = IF i < k THEN s[i] ELSE s[i + 1]
  <1>1. Len(s) \in Nat /\ DOMAIN s = 1..Len(s) /\ k \in 1..Len(s)
    OBVIOUS
  <1>2. RemoveAt(s, k) = SubSeq(s, 1, k - 1) \o SubSeq(s, k + 1, Len(s))
    BY DEF RemoveAt
  <1>a. PICK a : a = SubSeq(s, 1, k - 1)
    OBVIOUS
  <1>b. PICK b : b = SubSeq(s, k + 1, Len(s))
    OBVIOUS
  <1>n. PICK n : n = Len(s)
    OBVIOUS
  <1>3. a \in Seq(S) /\ Len(a) = k - 1 /\ \A i \in 1..(k - 1) : a[i] = s[i]
    <2>1. /\ a \in Seq(S)
          /\ Len(a) = IF 1 <= k - 1 THEN (k - 1) - 1 + 1 ELSE 0
          /\ \A i \in 1..((k - 1) - 1 + 1) : a[i] = s[1 + i - 1]
      <3>1. \A i \in 1..(k - 1) : s[i] \in S
        BY <1>1
      <3> QED BY <1>1, <1>a, <3>1, SubSeqProperties
    <2>2. k \in Nat /\ k >= 1
      BY <1>1
    <2>3. Len(a) = k - 1
      BY <2>1, <2>2
    <2>4. ASSUME NEW i \in 1..(k - 1) PROVE a[i] = s[i]
      <3>1. i \in 1..((k - 1) - 1 + 1) /\ 1 + i - 1 = i
        BY <2>2
      <3> QED BY <2>1, <3>1
    <2> QED BY <2>1, <2>3, <2>4
  <1>4. b \in Seq(S) /\ Len(b) = n - k /\ \A i \in 1..(n - k) : b[i] = s[k + i]
    <2>1. /\ b \in Seq(S)
          /\ Len(b) = IF k + 1 <= n THEN n - (k + 1) + 1 ELSE 0
          /\ \A i \in 1..(n - (k + 1) + 1) : b[i] = s[(k + 1) + i - 1]
      <3>1. \A i \in (k + 1)..Len(s) : s[i] \in S
        BY <1>1
      <3> QED BY <1>1, <1>b, <1>n, <3>1, SubSeqProperties
    <2>2. n \in Nat /\ k \in 1..n
      BY <1>1, <1>n
    <2>3. Len(b) = n - k
      BY <2>1, <2>2
    <2>4. ASSUME NEW i \in 1..(n - k) PROVE b[i] = s[k + i]
      <3>1. i \in 1..(n - (k + 1) + 1) /\ (k + 1) + i - 1 = k + i
        BY <2>2
      <3> QED BY <2>1, <3>1
    <2> QED BY <2>1, <2>3, <2>4
  <1>5. n \in Nat /\ k \in 1..n
    BY <1>1, <1>n
  <1>6. DOMAIN (a \o b) = 1..(n - 1)
    <2>1. DOMAIN (a \o b) = 1..(Len(a) + Len(b))
      BY <1>3, <1>4
    <2>2. Len(a) + Len(b) = n - 1
      BY <1>3, <1>4, <1>5
    <2> QED BY <2>1, <2>2
  <1>7. ASSUME NEW i \in 1..(n - 1) PROVE (a \o b)[i] = IF i < k THEN s[i] ELSE s[i + 1]
    <2>1. CASE i < k
      <3>1. (a \o b)[i] = a[i] /\ i \in 1..(k - 1)
        BY <1>3, <1>4, <1>5, <2>1
      <3> QED BY <1>3, <2>1, <3>1
    <2>2. CASE ~(i < k)
      <3>0. i - (k - 1) \in 1..(n - k) /\ k + (i - (k - 1)) = i + 1 /\ i > k - 1 /\ i <= (k - 1) + (n - k)
        BY <1>5, <2>2
      <3>1. (a \o b)[i] = b[i - (k - 1)] /\ i - (k - 1) \in 1..(n - k) /\ k + (i - (k - 1)) = i + 1
        <4>1. i \in 1..(Len(a) + Len(b)) /\ i > Len(a)
          BY <1>3, <1>4, <1>5, <3>0
        <4>2. (a \o b)[i] = b[i - Len(a)]
          BY <1>3, <1>4, <4>1
        <4> QED BY <1>3, <3>0, <4>2
      <3> QED BY <1>4, <2>2, <3>1
    <2> QED BY <2>1, <2>2
  <1> QED BY <1>2, <1>6, <1>7, <1>a, <1>b, <1>n

LEMMA FewerRemove ==
    ASSUME NEW S, NEW s \in Seq(S), NEW k \in DOMAIN s, NEW T
    PROVE  /\ Fewer(s, RemoveAt(s, k), T)
           /\ AtMostOne(s, T) /\ s[k] \in T => \A x \in Range(RemoveAt(s, k)) : x \notin T
  <1> PICK n : n = Len(s)
    OBVIOUS
  <1>1. n \in Nat /\ DOMAIN s = 1..n /\ k \in 1..n
    OBVIOUS
  <1> PICK t : t = RemoveAt(s, k)
    OBVIOUS
  <1>2. DOMAIN t = 1..(n - 1) /\ \A i \in 1..(n - 1) : t[i] = IF i < k THEN s[i] ELSE s[i + 1]
    BY ItemsOfRemoveAt
  <1> DEFINE at(i) == IF i < k THEN i ELSE i + 1
  <1>3. \A i \in DOMAIN t : at(i) \in DOMAIN s /\ t[i] = s[at(i)] /\ at(i) # k
    BY <1>1, <1>2
  <1>4. \A i, j \in DOMAIN t : at(i) = at(j) => i = j
    BY <1>1, <1>2
  <1> HIDE DEF at
  <1>5. AtMostOne(s, T) => AtMostOne(t, T)
    BY <1>3, <1>4 DEF AtMostOne
  <1>6. \A x \in Range(t) : \E i \in DOMAIN s : i # k /\ x = s[i]
    BY <1>3 DEF Range
  <1>7. (\E x \in Range(t) : x \in T) => \E x \in Range(s) : x \in T
    BY <1>6 DEF Range
  <1>8. AtMostOne(s, T) /\ s[k] \in T => \A x \in Range(t) : x \notin T
    BY <1>6 DEF AtMostOne
  <1> QED BY <1>5, <1>7, <1>8 DEF Fewer

\* Saves that upload a picture come last.
LEMMA MoreTail ==
    ASSUME NEW S, NEW s \in Seq(S), s # <<>>, MoreLast(s)
    PROVE  MoreLast(Tail(s)) /\ (Head(s).then.more => \A x \in Range(s) : x.then.more)
  <1>1. /\ Len(s) \in Nat /\ DOMAIN s = 1..Len(s) /\ Len(s) >= 1 /\ Head(s) = s[1]
        /\ DOMAIN Tail(s) = 1..(Len(s) - 1) /\ \A i \in 1..(Len(s) - 1) : Tail(s)[i] = s[i + 1]
    OBVIOUS
  <1>2. MoreLast(Tail(s))
    <2> SUFFICES ASSUME NEW i \in DOMAIN Tail(s), NEW j \in DOMAIN Tail(s), i < j, Tail(s)[i].then.more
                 PROVE  Tail(s)[j].then.more
      BY DEF MoreLast
    <2>1. i + 1 \in DOMAIN s /\ j + 1 \in DOMAIN s /\ i + 1 < j + 1 /\ Tail(s)[i] = s[i + 1] /\ Tail(s)[j] = s[j + 1]
      BY <1>1
    <2> QED BY <2>1 DEF MoreLast
  <1>3. ASSUME Head(s).then.more, NEW x \in Range(s) PROVE x.then.more
    <2>1. PICK i \in DOMAIN s : x = s[i]
      BY DEF Range
    <2>2. 1 \in DOMAIN s /\ (i = 1 \/ 1 < i)
      BY <1>1
    <2> QED BY <1>1, <1>3, <2>1, <2>2 DEF MoreLast
  <1> QED BY <1>2, <1>3

LEMMA MoreAppend ==
    ASSUME NEW S, NEW s \in Seq(S), NEW x \in S, MoreLast(s), (\E y \in Range(s) : y.then.more) => x.then.more
    PROVE  MoreLast(Append(s, x))
  <1>1. /\ Len(s) \in Nat /\ DOMAIN s = 1..Len(s) /\ DOMAIN Append(s, x) = 1..(Len(s) + 1)
        /\ \A i \in 1..Len(s) : Append(s, x)[i] = s[i] /\ Append(s, x)[Len(s) + 1] = x
    OBVIOUS
  <1>2. \A i \in 1..Len(s) : s[i] \in Range(s)
    BY <1>1 DEF Range
  <1>t. PICK t : t = Append(s, x)
    OBVIOUS
  <1>3. DOMAIN t = 1..(Len(s) + 1) /\ (\A i \in 1..Len(s) : t[i] = s[i]) /\ t[Len(s) + 1] = x
    BY <1>1, <1>t
  <1>4. ASSUME NEW i \in DOMAIN t, NEW j \in DOMAIN t, i < j, t[i].then.more PROVE t[j].then.more
    <2>1. i \in 1..Len(s) /\ (j \in 1..Len(s) \/ j = Len(s) + 1)
      BY <1>1, <1>3, <1>4
    <2>2. CASE j = Len(s) + 1
      BY <1>2, <1>3, <1>4, <2>1, <2>2
    <2>3. CASE j \in 1..Len(s)
      <3>1. s[i].then.more /\ i \in DOMAIN s /\ j \in DOMAIN s
        BY <1>1, <1>3, <1>4, <2>1, <2>3
      <3> QED BY <1>3, <1>4, <2>3, <3>1 DEF MoreLast
    <2> QED BY <2>1, <2>2, <2>3
  <1> QED BY <1>t, <1>4 DEF MoreLast

\* What the last of the blocks shows.
LEMMA ShowsAppend ==
    ASSUME NEW S, NEW s \in Seq(S), NEW x \in S, NEW p, NEW i
    PROVE  /\ Shows(s, p, i) /\ ~IsUpdate(x) => Shows(Append(s, x), p, i)
           /\ IsUpdate(x) /\ x.then.img = i => Shows(Append(s, x), p, i)
  <1>t. PICK t : t = Append(s, x)
    OBVIOUS
  <1>n. PICK n : n = Len(s)
    OBVIOUS
  <1>1. /\ n \in Nat /\ DOMAIN s = 1..n /\ DOMAIN t = 1..(n + 1)
        /\ (\A j \in 1..n : t[j] = s[j]) /\ t[n + 1] = x
    BY <1>t, <1>n
  <1>2. \A j \in DOMAIN t : (j \in DOMAIN s /\ t[j] = s[j]) \/ (j = n + 1 /\ t[j] = x)
    BY <1>1
  <1>3. \A j \in DOMAIN s : j \in DOMAIN t /\ t[j] = s[j] /\ j # n + 1
    BY <1>1
  <1>4. ASSUME Shows(s, p, i), ~IsUpdate(x) PROVE Shows(t, p, i)
    <2>1. CASE p = i /\ \A j \in DOMAIN s : ~IsUpdate(s[j])
      BY <1>2, <1>4, <2>1 DEF Shows
    <2>2. ASSUME NEW k \in DOMAIN s, IsUpdate(s[k]), s[k].then.img = i, \A m \in DOMAIN s : m > k => ~IsUpdate(s[m])
          PROVE  Shows(t, p, i)
      <3>1. k \in DOMAIN t /\ t[k] = s[k]
        BY <1>3
      <3>2. \A m \in DOMAIN t : m > k => ~IsUpdate(t[m])
        BY <1>2, <1>4, <2>2
      <3> QED BY <2>2, <3>1, <3>2 DEF Shows
    <2> QED BY <1>4, <2>1, <2>2 DEF Shows
  <1>5. ASSUME IsUpdate(x), x.then.img = i PROVE Shows(t, p, i)
    <2>1. n + 1 \in DOMAIN t /\ t[n + 1] = x /\ \A m \in DOMAIN t : ~(m > n + 1)
      BY <1>1
    <2> QED BY <1>5, <2>1 DEF Shows
  <1> QED BY <1>t, <1>4, <1>5

LEMMA ShowsTail ==
    ASSUME NEW S, NEW s \in Seq(S), s # <<>>, NEW p, NEW i, Shows(s, p, i)
    PROVE  /\ ~IsUpdate(Head(s)) => Shows(Tail(s), p, i)
           /\ IsUpdate(Head(s)) => Shows(Tail(s), Head(s).then.img, i)
  <1>t. PICK t : t = Tail(s)
    OBVIOUS
  <1>n. PICK n : n = Len(s)
    OBVIOUS
  <1>1. /\ n \in Nat /\ DOMAIN s = 1..n /\ n >= 1 /\ Head(s) = s[1]
        /\ DOMAIN t = 1..(n - 1) /\ \A j \in 1..(n - 1) : t[j] = s[j + 1]
    BY <1>t, <1>n
  <1>2. \A j \in DOMAIN t : j + 1 \in DOMAIN s /\ t[j] = s[j + 1] /\ j \in Nat /\ j + 1 > 1
    BY <1>1
  <1>3. ASSUME \A j \in DOMAIN s : ~IsUpdate(s[j])
        PROVE  ~IsUpdate(Head(s)) /\ \A j \in DOMAIN t : ~IsUpdate(t[j])
    BY <1>1, <1>2, <1>3
  <1>4. ASSUME NEW k \in DOMAIN s, IsUpdate(s[k]), s[k].then.img = i, \A m \in DOMAIN s : m > k => ~IsUpdate(s[m]), k # 1
        PROVE  \A p2 : Shows(t, p2, i)
    <2>1. k - 1 \in DOMAIN t /\ (k - 1) + 1 = k /\ k \in Nat
      BY <1>1, <1>4
    <2>2. t[k - 1] = s[k]
      BY <1>2, <2>1
    <2>3. ASSUME NEW m \in DOMAIN t, m > k - 1 PROVE ~IsUpdate(t[m])
      <3>1. m + 1 \in DOMAIN s /\ t[m] = s[m + 1] /\ m \in Nat
        BY <1>2
      <3>2. m + 1 > k
        BY <2>1, <2>3, <3>1
      <3> QED BY <1>4, <3>1, <3>2
    <2> QED BY <1>4, <2>1, <2>2, <2>3 DEF Shows
  <1>5. ASSUME NEW k \in DOMAIN s, IsUpdate(s[k]), s[k].then.img = i, \A m \in DOMAIN s : m > k => ~IsUpdate(s[m]), k = 1
        PROVE  IsUpdate(Head(s)) /\ Head(s).then.img = i /\ \A j \in DOMAIN t : ~IsUpdate(t[j])
    BY <1>1, <1>2, <1>5
  <1>6. CASE p = i /\ \A j \in DOMAIN s : ~IsUpdate(s[j])
    <2>1. Shows(t, p, i)
      BY <1>3, <1>6 DEF Shows
    <2> QED BY <1>t, <1>3, <1>6, <2>1
  <1>7. ASSUME NEW k \in DOMAIN s, IsUpdate(s[k]), s[k].then.img = i, \A m \in DOMAIN s : m > k => ~IsUpdate(s[m])
        PROVE  /\ ~IsUpdate(Head(s)) => Shows(t, p, i)
               /\ IsUpdate(Head(s)) => Shows(t, Head(s).then.img, i)
    <2>1. CASE k # 1
      BY <1>4, <1>7, <2>1
    <2>2. CASE k = 1
      <3>1. IsUpdate(Head(s)) /\ Head(s).then.img = i /\ \A j \in DOMAIN t : ~IsUpdate(t[j])
        BY <1>5, <1>7, <2>2
      <3> QED BY <3>1 DEF Shows
    <2> QED BY <2>1, <2>2
  <1> QED BY <1>t, <1>6, <1>7 DEF Shows

-----------------------------------------------------------------------------
(* A picture on its way to the account.                                    *)

LEMMA WritesApart ==
    /\ \A w \in SaveWrites : \A j \in Nat : w \notin UpdateWrites(j)
    /\ \A i \in Nat : \A w \in PostsWrites(i) : w \notin SaveWrites /\ \A j \in Nat : w \notin UpdateWrites(j)
    /\ \A i \in Nat : \A w \in UpdateWrites(i) : w \notin SaveWrites /\ \A j \in Nat : w \in UpdateWrites(j) => i = j
  BY SaveFacts, PostsFacts, UpdateFacts

LEMMA BlocksApart ==
    /\ \A b \in SaveBlocks : ~IsUpdate(b) /\ \A j \in Nat : b \notin TokenBlocks(j) /\ b \notin UploadBlocks(j)
    /\ \A i \in Nat : \A b \in FoundBlocks(i) :
          ~IsUpdate(b) /\ b \notin SaveBlocks /\ \A j \in Nat : b \notin TokenBlocks(j) /\ b \notin UploadBlocks(j)
    /\ \A i \in Nat : \A b \in UploadBlocks(i) :
          /\ ~IsUpdate(b) /\ b \notin SaveBlocks /\ b \in TokenBlocks(i)
          /\ \A j \in Nat : b \in TokenBlocks(j) => i = j
    /\ \A i \in Nat : \A b \in UpdateBlocks(i) :
          /\ IsUpdate(b) /\ b \notin SaveBlocks /\ b \in TokenBlocks(i) /\ b.then.img = i
          /\ \A j \in Nat : b \notin UploadBlocks(j) /\ (b \in TokenBlocks(j) => i = j)
  <1>1. \A j \in Nat : \A b \in TokenBlocks(j) : b.then.kind \in {"uploaded", "updated"} /\ b.then.img = j
    BY BlockFacts DEF TokenBlocks
  <1>2. \A b \in SaveBlocks : ~IsUpdate(b) /\ \A j \in Nat : b \notin TokenBlocks(j) /\ b \notin UploadBlocks(j)
    BY <1>1, BlockFacts DEF IsUpdate
  <1>3. \A i \in Nat : \A b \in FoundBlocks(i) :
          ~IsUpdate(b) /\ b \notin SaveBlocks /\ \A j \in Nat : b \notin TokenBlocks(j) /\ b \notin UploadBlocks(j)
    BY <1>1, BlockFacts DEF IsUpdate
  <1>4. \A i \in Nat : \A b \in UploadBlocks(i) :
          ~IsUpdate(b) /\ b \notin SaveBlocks /\ \A j \in Nat : b \in TokenBlocks(j) => i = j
    BY <1>1, BlockFacts DEF IsUpdate
  <1>5. \A i \in Nat : \A b \in UpdateBlocks(i) :
          /\ IsUpdate(b) /\ b \notin SaveBlocks /\ b.then.img = i
          /\ \A j \in Nat : b \notin UploadBlocks(j) /\ (b \in TokenBlocks(j) => i = j)
    BY <1>1, BlockFacts DEF IsUpdate
  <1>6. \A i : (\A b \in UploadBlocks(i) : b \in TokenBlocks(i)) /\ (\A b \in UpdateBlocks(i) : b \in TokenBlocks(i))
    BY DEF TokenBlocks
  <1> QED BY <1>2, <1>3, <1>4, <1>5, <1>6

LEMMA CallsApart ==
    /\ \A i \in Nat : \A c \in Deletes(i) : \A j \in Nat : c \notin Uploads(j) /\ (c \in Deletes(j) => i = j)
    /\ \A i \in Nat : \A c \in Uploads(i) : \A j \in Nat : c \notin Deletes(j) /\ (c \in Uploads(j) => i = j)
  BY CallFacts

\* Somewhere on its way.
Token(d, i) == Uploading(d, i) \/ Updating(d, i) \/ Passing(d, i)

LEMMA TokenKept ==
    ASSUME NEW d \in Devices, NEW j \in Nat, TokenAt(d, j),
           Fewer(calls[d], calls'[d], Uploads(j)), Fewer(queue[d], queue'[d], UpdateWrites(j)),
           Fewer(mainq[d], mainq'[d], TokenBlocks(j)),
           Token(d, j) => Image(d)' # j,
           Token(d, j) /\ ~Deleting(d, j) => ~Deleting(d, j)',
           Token(d, j) /\ Safe(d, j) => Safe(d, j)'
    PROVE  TokenAt(d, j)'
  <1>1. /\ Uploading(d, j)' => Uploading(d, j)
        /\ Updating(d, j)' => Updating(d, j)
        /\ Passing(d, j)' => Passing(d, j)
    BY DEF Fewer, Uploading, Updating, Passing
  <1>2. /\ AtMostOne(calls[d], Uploads(j))' /\ AtMostOne(queue[d], UpdateWrites(j))'
        /\ AtMostOne(mainq[d], TokenBlocks(j))'
    BY DEF TokenAt, Fewer, AtMostOne, Uploads, UpdateWrites, TokenBlocks
  <1> QED BY <1>1, <1>2 DEF TokenAt, Token

\* Nothing happens at Storage or on the edit screen.
LEMMA TokenStays ==
    ASSUME NEW d \in Devices, NEW j \in Nat, TokenAt(d, j),
           calls'[d] = calls[d], storage' = storage, Image(d)' = Image(d),
           Fewer(queue[d], queue'[d], UpdateWrites(j)), Fewer(mainq[d], mainq'[d], TokenBlocks(j))
    PROVE  TokenAt(d, j)'
  <1>1. Fewer(calls[d], calls'[d], Uploads(j))
    BY FewerSame
  <1>2. Deleting(d, j)' = Deleting(d, j) /\ Safe(d, j)' = Safe(d, j)
    BY DEF Deleting, Safe
  <1>3. Token(d, j) => Image(d)' # j
    BY DEF Token, TokenAt
  <1> QED BY <1>1, <1>2, <1>3, TokenKept

\* An answered write of the account's picture: the picture is the account's.
LEMMA AnswerUpdate ==
    ASSUME TypesInv, NEW d \in Devices, NEW i \in Nat, NEW w \in UpdateWrites(i), NEW path,
           AnsweredHead(d, TRUE, w, path)
    PROVE  /\ docs'[UserDoc] = i /\ queue'[d] = Tail(queue[d]) /\ queue[d] # <<>> /\ w = Head(queue[d])
           /\ \E b \in UpdateBlocks(i) : b.res /\ b.then = w.then /\ mainq'[d] = Append(mainq[d], b)
  <1>1. w.paths = {UserDoc} /\ w.data = i /\ w.upd /\ w.then \in UpdatedThens(i) /\ w.then # NoThen
    BY UpdateFacts
  <1>2. path = UserDoc /\ AnsweredPart(d, TRUE, w, path)
    BY <1>1 DEF AnsweredHead
  <1>3. docs \in [EditDocs -> Nat] /\ UserDoc \in EditDocs /\ docs[UserDoc] # NoDoc
    BY DocFacts, EditAssumption DEF TypesInv, StateOK
  <1>4. Accepts(w, path)
    BY <1>1, <1>2, <1>3 DEF Accepts
  <1>5. docs' = [docs EXCEPT ![path] = w.data]
    BY <1>2, <1>4 DEF AnsweredPart
  <1>6. docs'[UserDoc] = i
    BY <1>1, <1>2, <1>3, <1>5
  <1>7. queue'[d] = Tail(queue[d]) /\ queue[d] # <<>> /\ w = Head(queue[d])
    BY <1>1, <1>2 DEF AnsweredHead
  <1>8. PICK b : b = [then |-> w.then, res |-> TRUE /\ Accepts(w, path)]
    OBVIOUS
  <1>9. mainq'[d] = Append(mainq[d], b)
    BY <1>1, <1>2, <1>8 DEF AnsweredPart
  <1>10. b \in UpdateBlocks(i) /\ b.res /\ b.then = w.then
    BY <1>1, <1>4, <1>8 DEF UpdateBlocks
  <1> QED BY <1>6, <1>7, <1>9, <1>10

\* An answered save.
LEMMA AnswerSave ==
    ASSUME TypesInv, NEW d \in Devices, NEW w \in SaveWrites, NEW path, AnsweredHead(d, TRUE, w, path)
    PROVE  /\ docs'[UserDoc] = w.data /\ queue'[d] = Tail(queue[d]) /\ queue[d] # <<>> /\ w = Head(queue[d])
           /\ \E b \in SaveBlocks : b.then = w.then /\ mainq'[d] = Append(mainq[d], b)
  <1>1. w.paths = {UserDoc} /\ ~w.upd /\ w.then \in SavedThens /\ w.then # NoThen
    BY SaveFacts
  <1>2. path = UserDoc /\ AnsweredPart(d, TRUE, w, path)
    BY <1>1 DEF AnsweredHead
  <1>3. docs \in [EditDocs -> Nat] /\ UserDoc \in EditDocs
    BY DocFacts DEF TypesInv, StateOK
  <1>4. Accepts(w, path)
    BY <1>1 DEF Accepts
  <1>5. docs' = [docs EXCEPT ![path] = w.data]
    BY <1>2, <1>4 DEF AnsweredPart
  <1>6. docs'[UserDoc] = w.data
    BY <1>2, <1>3, <1>5
  <1>7. queue'[d] = Tail(queue[d]) /\ queue[d] # <<>> /\ w = Head(queue[d])
    BY <1>1, <1>2 DEF AnsweredHead
  <1>8. PICK b : b = [then |-> w.then, res |-> TRUE /\ Accepts(w, path)]
    OBVIOUS
  <1>9. mainq'[d] = Append(mainq[d], b)
    BY <1>1, <1>2, <1>8 DEF AnsweredPart
  <1>10. b \in SaveBlocks /\ b.then = w.then
    BY <1>1, <1>4, <1>8 DEF SaveBlocks
  <1> QED BY <1>6, <1>7, <1>9, <1>10

\* An answered post: the account is not touched.
PostAnswered(d, i, w, path) ==
    /\ path \in w.paths /\ path \in PostDocs /\ docs' = [docs EXCEPT ![path] = i]
    /\ docs'[UserDoc] = docs[UserDoc] /\ mainq'[d] = mainq[d]
    /\ queue[d] # <<>> /\ w = Head(queue[d]) /\ Trimmed(w, path) \in PostsWrites(i)
    /\ queue'[d] = Tail(queue[d]) \/ queue'[d] = Cut(queue[d], Trimmed(w, path))
    /\ w.paths = {path} => queue'[d] = Tail(queue[d])

LEMMA AnswerPost ==
    ASSUME TypesInv, NEW d \in Devices, NEW i \in Nat, NEW w \in PostsWrites(i), NEW path, AnsweredHead(d, TRUE, w, path)
    PROVE  PostAnswered(d, i, w, path)
  <1>1. w.paths \subseteq PostDocs /\ w.data = i /\ w.then = NoThen /\ Trimmed(w, path) \in PostsWrites(i)
    BY PostsFacts
  <1>2. path \in w.paths /\ AnsweredPart(d, TRUE, w, path) /\ path \in PostDocs /\ path \in EditDocs /\ path # UserDoc
    BY <1>1, DocFacts DEF AnsweredHead
  <1>3. docs \in [EditDocs -> Nat] /\ UserDoc \in EditDocs /\ docs[path] # NoDoc
    BY <1>2, DocFacts, EditAssumption DEF TypesInv, StateOK
  <1>4. Accepts(w, path)
    BY <1>3 DEF Accepts
  <1>5. docs' = [docs EXCEPT ![path] = i]
    BY <1>1, <1>2, <1>4 DEF AnsweredPart
  <1>6. docs'[UserDoc] = docs[UserDoc]
    BY <1>2, <1>3, <1>5
  <1>7. mainq'[d] = mainq[d]
    BY <1>1, <1>2 DEF AnsweredPart
  <1>8. /\ queue[d] # <<>> /\ w = Head(queue[d])
        /\ queue'[d] = Tail(queue[d]) \/ queue'[d] = Cut(queue[d], Trimmed(w, path))
        /\ w.paths = {path} => queue'[d] = Tail(queue[d])
    BY DEF AnsweredHead, Cut
  <1> QED BY <1>1, <1>2, <1>5, <1>6, <1>7, <1>8 DEF PostAnswered

-----------------------------------------------------------------------------
(* Late is kept by what is answered.                                       *)

LEMMA AccountSafe ==
    ASSUME NEW d \in Devices, NEW u, docs'[UserDoc] = u, Safe(d, u)', ShowsLast(d, u)'
    PROVE  Safe(d, docs[UserDoc])' /\ ShowsLast(d, docs[UserDoc])'
  BY DEF Safe, Deleting, ShowsLast

\* Nothing happens at Storage or on the screens.
LEMMA LateFrom ==
    ASSUME NEW d \in Devices, Late(d), edits' = edits,
           \A w \in Range(queue'[d]) : w \in SaveWrites => w.then.more,
           \A b \in Range(mainq'[d]) : (b \in SaveBlocks => b.then.more) /\ (IsUpdate(b) => b.res),
           \A j \in Nat : TokenAt(d, j)',
           ~Coming(d)' => Safe(d, docs[UserDoc])' /\ ShowsLast(d, docs[UserDoc])'
    PROVE  Late(d)'
  BY DEF Late

LEMMA AnswerLate ==
    ASSUME TypesInv, NEW d \in Devices, Late(d), Answer(d, TRUE), UNCHANGED appVars
    PROVE  Late(d)'
  <1>0. TRUE \in BOOLEAN
    OBVIOUS
  <1>1. PICK w \in EditWrites : \E path : AnsweredHead(d, TRUE, w, path)
    BY <1>0, AnswerHead
  <1>2. PICK path : AnsweredHead(d, TRUE, w, path)
    BY <1>1
  <1>3. /\ queue[d] \in Seq(EditWrites) /\ mainq[d] \in Seq(EditBlocks) /\ queue[d] # <<>>
        /\ w = Head(queue[d]) /\ Range(queue[d]) = {w} \cup Range(Tail(queue[d]))
    BY <1>2, FlightFacts, RangeOfTail DEF AnsweredHead
  <1>4. storage' = storage /\ calls' = calls /\ edits' = edits /\ profile' = profile /\ Image(d)' = Image(d)
    BY DEF appVars, Image
  <1>5. \A j \in Nat : TokenAt(d, j)
    BY DEF Late
  <1>6. CASE w \in SaveWrites
    <2>1. queue'[d] = Tail(queue[d])
      BY <1>2, <1>6, AnswerSave
    <2>2. PICK b \in SaveBlocks : b.then = w.then /\ mainq'[d] = Append(mainq[d], b)
      BY <1>2, <1>6, AnswerSave
    <2>3. b \in EditBlocks /\ ~IsUpdate(b) /\ \A j \in Nat : b \notin TokenBlocks(j)
      BY BlockFacts, BlocksApart
    <2>4. Range(mainq'[d]) = Range(mainq[d]) \cup {b}
      BY <1>3, <2>2, <2>3, RangeOfAppend
    <2>5. w.then.more
      BY <1>3, <1>6 DEF Late
    <2>6. ASSUME NEW j \in Nat PROVE TokenAt(d, j)'
      <3>1. Fewer(queue[d], queue'[d], UpdateWrites(j))
        BY <1>3, <2>1, FewerTail
      <3>2. Fewer(mainq[d], mainq'[d], TokenBlocks(j))
        BY <1>3, <2>2, <2>3, FewerAppend
      <3> QED BY <1>4, <1>5, <3>1, <3>2, TokenStays
    <2>7. Coming(d)'
      BY <2>4 DEF Coming
    <2>8. \A v \in Range(queue'[d]) : v \in SaveWrites => v.then.more
      BY <1>3, <2>1 DEF Late
    <2>9. \A x \in Range(mainq'[d]) : (x \in SaveBlocks => x.then.more) /\ (IsUpdate(x) => x.res)
      BY <2>2, <2>3, <2>4, <2>5 DEF Late
    <2> QED BY <1>4, <2>6, <2>7, <2>8, <2>9, LateFrom
  <1>7. ASSUME NEW i \in Nat, w \in UpdateWrites(i) PROVE Late(d)'
    <2>1. docs'[UserDoc] = i /\ queue'[d] = Tail(queue[d])
      BY <1>2, <1>7, AnswerUpdate
    <2>2. PICK b \in UpdateBlocks(i) : b.res /\ mainq'[d] = Append(mainq[d], b)
      BY <1>2, <1>7, AnswerUpdate
    <2>3. /\ b \in EditBlocks /\ IsUpdate(b) /\ b.then.img = i /\ b \notin SaveBlocks /\ b \in TokenBlocks(i)
          /\ \A j \in Nat : b \in TokenBlocks(j) => i = j
      BY BlockFacts, BlocksApart
    <2>4. Range(mainq'[d]) = Range(mainq[d]) \cup {b}
      BY <1>3, <2>2, <2>3, RangeOfAppend
    <2>5. /\ Updating(d, i) /\ TokenAt(d, i)
      BY <1>3, <1>5, <1>7 DEF Updating
    <2>6. ~Uploading(d, i) /\ ~Passing(d, i) /\ Image(d) # i /\ Safe(d, i)
      BY <2>5 DEF TokenAt
    <2>7. Safe(d, i)' /\ ~Uploading(d, i)' /\ Image(d)' # i
      BY <1>4, <2>6 DEF Safe, Deleting, Uploading
    <2>8. TokenAt(d, i)'
      <3>1. AtMostOne(calls[d], Uploads(i))'
        BY <1>4, <2>5 DEF TokenAt, AtMostOne, Uploads
      <3>2. AtMostOne(queue'[d], UpdateWrites(i)) /\ \A x \in Range(queue'[d]) : x \notin UpdateWrites(i)
        BY <1>3, <1>7, <2>1, <2>5, FewerTail DEF Fewer, TokenAt
      <3>3. AtMostOne(mainq'[d], TokenBlocks(i))
        BY <1>3, <2>2, <2>3, <2>5, <2>6, OneAppend DEF TokenAt, Passing
      <3>4. ~Updating(d, i)' /\ AtMostOne(queue[d], UpdateWrites(i))' /\ AtMostOne(mainq[d], TokenBlocks(i))'
        BY <3>2, <3>3 DEF Updating, AtMostOne, UpdateWrites, TokenBlocks
      <3> QED BY <2>7, <3>1, <3>4 DEF TokenAt
    <2>9. ASSUME NEW j \in Nat, j # i PROVE TokenAt(d, j)'
      <3>1. Fewer(queue[d], queue'[d], UpdateWrites(j))
        BY <1>3, <2>1, FewerTail
      <3>2. Fewer(mainq[d], mainq'[d], TokenBlocks(j))
        BY <1>3, <2>2, <2>3, <2>9, FewerAppend
      <3> QED BY <1>4, <1>5, <3>1, <3>2, TokenStays
    <2>10. ShowsLast(d, i)'
      BY <1>3, <2>2, <2>3, ShowsAppend DEF ShowsLast
    <2>11. Safe(d, docs[UserDoc])' /\ ShowsLast(d, docs[UserDoc])'
      BY <2>1, <2>7, <2>10, AccountSafe
    <2>12. \A v \in Range(queue'[d]) : v \in SaveWrites => v.then.more
      BY <1>3, <2>1 DEF Late
    <2>13. \A x \in Range(mainq'[d]) : (x \in SaveBlocks => x.then.more) /\ (IsUpdate(x) => x.res)
      BY <2>2, <2>3, <2>4 DEF Late
    <2> QED BY <1>4, <2>8, <2>9, <2>11, <2>12, <2>13, LateFrom
  <1>8. ASSUME NEW i \in Nat, w \in PostsWrites(i) PROVE Late(d)'
    <2>0. PostAnswered(d, i, w, path)
      BY <1>2, <1>8, AnswerPost
    <2>1. /\ docs'[UserDoc] = docs[UserDoc] /\ mainq'[d] = mainq[d] /\ Trimmed(w, path) \in PostsWrites(i)
          /\ queue'[d] = Tail(queue[d]) \/ queue'[d] = Cut(queue[d], Trimmed(w, path))
      BY <2>0 DEF PostAnswered
    <2> PICK x : x = Trimmed(w, path)
      OBVIOUS
    <2>2. /\ x \in EditWrites /\ x \notin SaveWrites /\ w \notin SaveWrites
          /\ \A j \in Nat : x \notin UpdateWrites(j) /\ w \notin UpdateWrites(j)
      BY <1>8, <2>1, PostsFacts, WritesApart
    <2>3. \A j \in Nat : Fewer(queue[d], queue'[d], UpdateWrites(j))
      BY <1>3, <2>1, <2>2, FewerTail, FewerTrim
    <2>4. Range(Tail(queue[d])) \subseteq Range(queue'[d]) /\ Range(queue'[d]) \subseteq Range(queue[d]) \cup {x}
      <3>1. AnsweredPart(d, TRUE, w, path)
        BY <1>2 DEF AnsweredHead
      <3> QED BY <1>3, <3>1 DEF AnsweredPart
    <2>5. ASSUME NEW j \in Nat PROVE TokenAt(d, j)'
      <3>1. Fewer(mainq[d], mainq'[d], TokenBlocks(j))
        BY <2>1, FewerSame
      <3> QED BY <1>4, <1>5, <2>3, <3>1, TokenStays
    <2>6. Coming(d) => Coming(d)'
      BY <1>3, <1>4, <2>1, <2>2, <2>4 DEF Coming, Uploading, Updating
    <2>7. ~Coming(d) => Safe(d, docs[UserDoc])' /\ ShowsLast(d, docs[UserDoc])'
      BY <1>4, <2>1 DEF Late, Safe, Deleting, ShowsLast
    <2>8. \A v \in Range(queue'[d]) : v \in SaveWrites => v.then.more
      BY <2>2, <2>4 DEF Late
    <2>9. \A y \in Range(mainq'[d]) : (y \in SaveBlocks => y.then.more) /\ (IsUpdate(y) => y.res)
      BY <2>1 DEF Late
    <2> QED BY <1>4, <2>5, <2>6, <2>7, <2>8, <2>9, LateFrom
  <1> QED BY <1>6, <1>7, <1>8, WriteCases

\* A query is answered.
LEMMA ResolveLate ==
    ASSUME TypesInv, NEW d \in Devices, Late(d), NEW k \in DOMAIN gets[d], Resolve(d, k), UNCHANGED appVars
    PROVE  Late(d)'
  <1>1. PICK r \in EditReads : \E b \in FoundBlocks(r.then.img) :
                /\ Resolved(d, r) /\ mainq'[d] = Append(mainq[d], b)
                /\ Range(mainq'[d]) = Range(mainq[d]) \cup {b}
    BY ResolveEdit
  <1>2. PICK b \in FoundBlocks(r.then.img) :
                /\ Resolved(d, r) /\ mainq'[d] = Append(mainq[d], b)
                /\ Range(mainq'[d]) = Range(mainq[d]) \cup {b}
    BY <1>1
  <1>3. /\ b \in EditBlocks /\ ~IsUpdate(b) /\ b \notin SaveBlocks
        /\ \A j \in Nat : b \notin TokenBlocks(j) /\ b \notin UploadBlocks(j)
    BY ReadFacts, BlockFacts, BlocksApart
  <1>4. /\ storage' = storage /\ calls' = calls /\ edits' = edits /\ profile' = profile /\ Image(d)' = Image(d)
        /\ queue' = queue /\ docs' = docs
    BY <1>2 DEF appVars, Image, Resolved
  <1>5. mainq[d] \in Seq(EditBlocks)
    BY FlightFacts
  <1>6. ASSUME NEW j \in Nat PROVE TokenAt(d, j)'
    <2>1. Fewer(queue[d], queue'[d], UpdateWrites(j))
      BY <1>4, FewerSame
    <2>2. Fewer(mainq[d], mainq'[d], TokenBlocks(j))
      BY <1>2, <1>3, <1>5, FewerAppend
    <2>3. TokenAt(d, j)
      BY DEF Late
    <2> QED BY <1>4, <2>1, <2>2, <2>3, TokenStays
  <1>7. Coming(d) => Coming(d)'
    BY <1>2, <1>4 DEF Coming, Uploading, Updating
  <1>8. ~Coming(d) => Safe(d, docs[UserDoc])' /\ ShowsLast(d, docs[UserDoc])'
    <2>1. ASSUME ~Coming(d) PROVE Safe(d, docs[UserDoc])' /\ ShowsLast(d, docs[UserDoc])'
      <3>1. Safe(d, docs[UserDoc]) /\ Shows(mainq[d], profile[d], docs[UserDoc])
        BY <2>1 DEF Late, ShowsLast
      <3>2. Shows(mainq'[d], profile[d], docs[UserDoc])
        BY <1>2, <1>3, <1>5, <3>1, ShowsAppend
      <3> QED BY <1>4, <3>1, <3>2 DEF Safe, Deleting, ShowsLast
    <2> QED BY <2>1
  <1>9. \A v \in Range(queue'[d]) : v \in SaveWrites => v.then.more
    BY <1>4 DEF Late
  <1>10. \A x \in Range(mainq'[d]) : (x \in SaveBlocks => x.then.more) /\ (IsUpdate(x) => x.res)
    BY <1>2, <1>3 DEF Late
  <1> QED BY <1>4, <1>6, <1>7, <1>8, <1>9, <1>10, LateFrom

\* Storage deletes a picture.
LEMMA DeleteLate ==
    ASSUME TypesInv, NEW d \in Devices, Late(d), NEW i \in DOMAIN calls[d], NEW c \in EditCalls, StorageMoved(d, i, c),
           c.op = "delete", storage' = storage \ {c.img}, mainq' = mainq
    PROVE  Late(d)'
  <1>1. /\ queue' = queue /\ edits' = edits /\ profile' = profile /\ docs' = docs /\ c = calls[d][i]
        /\ calls'[d] = RemoveAt(calls[d], i) /\ Range(calls[d]) = {c} \cup Range(calls'[d])
    BY DEF StorageMoved, Removed
  <1>2. calls[d] \in Seq(EditCalls)
    BY FlightFacts
  <1>3. c.img \in Nat /\ c \in Deletes(c.img) /\ \A j \in Nat : c \notin Uploads(j)
    BY CallFacts, CallsApart
  <1>4. Deleting(d, c.img)
    BY <1>1, <1>3 DEF Deleting
  <1>5. \A j \in Nat : /\ Deleting(d, j)' => Deleting(d, j)
                       /\ Uploading(d, j)' <=> Uploading(d, j)
                       /\ Safe(d, j) => Safe(d, j)'
    <2>1. \A j \in Nat : (Deleting(d, j)' => Deleting(d, j)) /\ (Uploading(d, j)' <=> Uploading(d, j))
      BY <1>1, <1>3 DEF Deleting, Uploading
    <2> QED BY <1>4, <2>1 DEF Safe
  <1>6. ASSUME NEW j \in Nat PROVE TokenAt(d, j)'
    <2>1. Fewer(queue[d], queue'[d], UpdateWrites(j)) /\ Fewer(mainq[d], mainq'[d], TokenBlocks(j))
      BY <1>1, FewerSame
    <2>2. Fewer(calls[d], calls'[d], Uploads(j))
      BY <1>1, <1>2, FewerRemove
    <2>3. TokenAt(d, j) /\ Image(d)' = Image(d)
      BY <1>1 DEF Late, Image
    <2>4. Token(d, j) => Image(d)' # j
      BY <2>3 DEF TokenAt, Token
    <2> QED BY <1>5, <2>1, <2>2, <2>3, <2>4, TokenKept
  <1>7. Coming(d) => Coming(d)'
    BY <1>1, <1>5 DEF Coming, Updating
  <1>8. docs[UserDoc] \in Nat
    BY DocFacts DEF TypesInv, StateOK
  <1>9. ~Coming(d) => Safe(d, docs[UserDoc])' /\ ShowsLast(d, docs[UserDoc])'
    <2>u. PICK u : u = docs[UserDoc]
      OBVIOUS
    <2>1. ASSUME ~Coming(d) PROVE Safe(d, u)' /\ ShowsLast(d, u)'
      <3>1. Safe(d, u) /\ ShowsLast(d, u)
        BY <2>1, <2>u DEF Late
      <3> QED BY <1>1, <1>5, <1>8, <2>u, <3>1 DEF ShowsLast
    <2>2. docs'[UserDoc] = u
      BY <1>1, <2>u
    <2> QED BY <2>1, <2>2, AccountSafe
  <1>10. \A v \in Range(queue'[d]) : v \in SaveWrites => v.then.more
    BY <1>1 DEF Late
  <1>11. \A x \in Range(mainq'[d]) : (x \in SaveBlocks => x.then.more) /\ (IsUpdate(x) => x.res)
    BY DEF Late
  <1> QED BY <1>1, <1>6, <1>7, <1>9, <1>10, <1>11, LateFrom

\* Storage has a picture: it leaves for the main queue.
LEMMA UploadLate ==
    ASSUME TypesInv, NEW d \in Devices, Late(d), NEW n \in DOMAIN calls[d], NEW c \in EditCalls, StorageMoved(d, n, c),
           c.op = "upload", storage' = storage \cup {c.img}, NEW b \in UploadBlocks(c.img),
           mainq'[d] = Append(mainq[d], b), Range(mainq'[d]) = Range(mainq[d]) \cup {b}
    PROVE  Late(d)'
  <1>1. /\ queue' = queue /\ edits' = edits /\ profile' = profile /\ docs' = docs /\ c = calls[d][n]
        /\ calls'[d] = RemoveAt(calls[d], n) /\ Range(calls[d]) = {c} \cup Range(calls'[d]) /\ Image(d)' = Image(d)
    BY DEF StorageMoved, Removed, Image
  <1>2. calls[d] \in Seq(EditCalls) /\ mainq[d] \in Seq(EditBlocks)
    BY FlightFacts
  <1>3. PICK i : i = c.img
    OBVIOUS
  <1>4. i \in Nat /\ c \in Uploads(i) /\ \A j \in Nat : c \notin Deletes(j) /\ (c \in Uploads(j) => i = j)
    BY <1>3, CallFacts, CallsApart
  <1>5. /\ b \in UploadBlocks(i) /\ b \in EditBlocks /\ ~IsUpdate(b) /\ b \notin SaveBlocks /\ b \in TokenBlocks(i)
        /\ \A j \in Nat : b \in TokenBlocks(j) => i = j
    BY <1>3, <1>4, BlockFacts, BlocksApart
  <1>6. \A j \in Nat : (Deleting(d, j)' => Deleting(d, j)) /\ (Safe(d, j) => Safe(d, j)')
    BY <1>1 DEF Deleting, Safe
  <1>7. TokenAt(d, i) /\ Uploading(d, i)
    BY <1>1, <1>4 DEF Late, Uploading
  <1>8. ~Updating(d, i) /\ ~Passing(d, i) /\ ~Deleting(d, i) /\ Image(d) # i
    BY <1>7 DEF TokenAt
  <1>9. TokenAt(d, i)'
    <2>1. AtMostOne(calls'[d], Uploads(i)) /\ \A x \in Range(calls'[d]) : x \notin Uploads(i)
      BY <1>1, <1>2, <1>4, <1>7, FewerRemove DEF Fewer, TokenAt
    <2>2. AtMostOne(mainq'[d], TokenBlocks(i))
      BY <1>2, <1>5, <1>7, <1>8, OneAppend DEF TokenAt, Passing
    <2>3. ~Uploading(d, i)' /\ AtMostOne(calls[d], Uploads(i))' /\ AtMostOne(mainq[d], TokenBlocks(i))'
      BY <2>1, <2>2 DEF Uploading, AtMostOne, Uploads, TokenBlocks
    <2>4. ~Updating(d, i)' /\ AtMostOne(queue[d], UpdateWrites(i))'
      BY <1>1, <1>7, <1>8 DEF Updating, TokenAt, AtMostOne, UpdateWrites
    <2>5. Safe(d, i)' /\ Image(d)' # i
      BY <1>1, <1>3, <1>4, <1>6, <1>8 DEF Safe
    <2> QED BY <2>3, <2>4, <2>5 DEF TokenAt
  <1>10. ASSUME NEW j \in Nat, j # i PROVE TokenAt(d, j)'
    <2>1. Fewer(queue[d], queue'[d], UpdateWrites(j))
      BY <1>1, FewerSame
    <2>2. Fewer(mainq[d], mainq'[d], TokenBlocks(j))
      BY <1>2, <1>5, <1>10, FewerAppend
    <2>3. Fewer(calls[d], calls'[d], Uploads(j))
      BY <1>1, <1>2, FewerRemove
    <2>4. TokenAt(d, j)
      BY DEF Late
    <2>5. Token(d, j) => Image(d)' # j
      BY <1>1, <2>4 DEF TokenAt, Token
    <2> QED BY <1>6, <2>1, <2>2, <2>3, <2>4, <2>5, TokenKept
  <1>11. Coming(d)'
    BY <1>4, <1>5 DEF Coming
  <1>12. \A v \in Range(queue'[d]) : v \in SaveWrites => v.then.more
    BY <1>1 DEF Late
  <1>13. \A x \in Range(mainq'[d]) : (x \in SaveBlocks => x.then.more) /\ (IsUpdate(x) => x.res)
    BY <1>5 DEF Late
  <1> QED BY <1>1, <1>9, <1>10, <1>11, <1>12, <1>13, LateFrom

-----------------------------------------------------------------------------
(* Late is kept by the screens and the blocks.                             *)

\* The next picture's number is not used.
LEMMA Fresh ==
    ASSUME TypesInv, NEW d \in Devices, NEW u, u = uploads + 1
    PROVE  u \in Nat /\ ~Token(d, u) /\ ~Deleting(d, u)
  <1>1. u \in Nat /\ \A i \in Nat : i <= uploads => i # u
    BY DEF TypesInv, StateOK
  <1>2. KnownAt(d)
    BY DEF TypesInv, KnownInv
  <1>3. \A c \in Range(calls[d]) : c \in EditCalls /\ c.img <= uploads
    BY <1>2, FlightFacts DEF KnownAt, CallKnown, Known
  <1>4. \A w \in Range(queue[d]) : w \in EditWrites /\ w.data <= uploads
    BY <1>2, FlightFacts DEF KnownAt, WriteKnown, Known
  <1>5. \A b \in Range(mainq[d]) : b \in EditBlocks /\ (b.then.kind # "saved" => b.then.img <= uploads)
    BY <1>2, FlightFacts DEF KnownAt, BlockKnown, Known
  <1>6. ~Uploading(d, u) /\ ~Deleting(d, u)
    BY <1>1, <1>3, CallFacts DEF Uploading, Deleting
  <1>7. ~Updating(d, u)
    BY <1>1, <1>4, UpdateFacts DEF Updating
  <1>8. ~Passing(d, u)
    <2> SUFFICES ASSUME NEW b \in Range(mainq[d]), b \in TokenBlocks(u) PROVE FALSE
      BY DEF Passing
    <2>1. b.then.img = u /\ b.then.kind # "saved"
      BY <1>1, BlockFacts DEF TokenBlocks
    <2> QED BY <1>1, <1>5, <2>1
  <1> QED BY <1>1, <1>6, <1>7, <1>8 DEF Token

\* An upload starts: the screen's picture is deleted and a new one is on its way.
LEMMA StartTokens ==
    ASSUME TypesInv, NEW d \in Devices, edits[d] # <<>>, \A j \in Nat : TokenAt(d, j),
           Started(d, Len(edits[d])), edits' = edits, storage' = storage, queue'[d] = queue[d],
           \A j \in Nat : Fewer(mainq[d], mainq'[d], TokenBlocks(j))
    PROVE  Coming(d)' /\ \A j \in Nat : TokenAt(d, j)'
  <1>1. PICK u : u = uploads + 1
    OBVIOUS
  <1>2. u \in Nat /\ ~Token(d, u) /\ ~Deleting(d, u)
    BY <1>1, Fresh
  <1>3. PICK x \in Deletes(Image(d)) : \E y \in Uploads(u) :
          calls'[d] = Append(Append(calls[d], x), y) /\ Range(calls'[d]) = Range(calls[d]) \cup {x, y}
    BY <1>1 DEF Started, Image
  <1>4. PICK y \in Uploads(u) :
          calls'[d] = Append(Append(calls[d], x), y) /\ Range(calls'[d]) = Range(calls[d]) \cup {x, y}
    BY <1>3
  <1>5. Len(edits[d]) \in Ks /\ Image(d) \in Nat /\ Image(d) # u /\ Image(d)' = Image(d)
    <2>1. Len(edits[d]) \in Nat /\ Len(edits[d]) # 0
      BY FlightFacts
    <2>2. Len(edits[d]) \in Ks
      BY <2>1, EditAssumption DEF TypesInv, StateOK, Ks
    <2>3. Image(d) \in Nat /\ Image(d) <= uploads /\ uploads \in Nat
      BY <2>1, <2>2, ScreenFacts DEF Image, TypesInv, StateOK
    <2> QED BY <1>1, <2>2, <2>3 DEF Image
  <1>6. /\ x \in EditCalls /\ y \in EditCalls /\ calls[d] \in Seq(EditCalls)
        /\ \A j \in Nat : x \notin Uploads(j) /\ (x \in Deletes(j) => j = Image(d))
        /\ \A j \in Nat : y \notin Deletes(j) /\ (y \in Uploads(j) => j = u)
    BY <1>2, <1>5, CallFacts, CallsApart, FlightFacts
  <1>7. Append(calls[d], x) \in Seq(EditCalls) /\ Range(Append(calls[d], x)) = Range(calls[d]) \cup {x}
    BY <1>6, RangeOfAppend
  <1>8. Uploading(d, u)' /\ Coming(d)'
    BY <1>2, <1>4 DEF Uploading, Coming
  <1>9. ASSUME NEW j \in Nat
        PROVE  /\ Updating(d, j)' <=> Updating(d, j)
               /\ Passing(d, j)' => Passing(d, j)
               /\ j # Image(d) => (Deleting(d, j)' <=> Deleting(d, j))
               /\ j # Image(d) => (Safe(d, j) => Safe(d, j)')
    <2>1. Updating(d, j)' <=> Updating(d, j)
      BY DEF Updating
    <2>2. Passing(d, j)' => Passing(d, j)
      BY DEF Passing, Fewer
    <2>3. j # Image(d) => (Deleting(d, j)' <=> Deleting(d, j))
      BY <1>4, <1>6 DEF Deleting
    <2> QED BY <2>1, <2>2, <2>3 DEF Safe
  <1>10. TokenAt(d, u)'
    <2>1. ~Uploading(d, u) /\ ~Updating(d, u) /\ ~Passing(d, u) /\ TokenAt(d, u)
      BY <1>2 DEF Token
    <2>2. AtMostOne(Append(calls[d], x), Uploads(u))
      BY <1>2, <1>6, <2>1, OneAppend DEF TokenAt
    <2>3. AtMostOne(calls'[d], Uploads(u))
      <3>1. \A c \in Range(Append(calls[d], x)) : c \notin Uploads(u)
        BY <1>2, <1>6, <1>7, <2>1 DEF Uploading
      <3>a. PICK a : a = Append(calls[d], x)
        OBVIOUS
      <3>2. /\ a \in Seq(EditCalls) /\ AtMostOne(a, Uploads(u)) /\ \A c \in Range(a) : c \notin Uploads(u)
            /\ y \in EditCalls
        BY <1>6, <1>7, <2>2, <3>1, <3>a
      <3>3. AtMostOne(Append(a, y), Uploads(u))
        BY <3>2, OneAppend
      <3> QED BY <1>4, <3>3, <3>a
    <2>4. /\ AtMostOne(calls[d], Uploads(u))' /\ AtMostOne(queue[d], UpdateWrites(u))'
          /\ AtMostOne(mainq[d], TokenBlocks(u))'
      BY <1>2, <2>1, <2>3 DEF TokenAt, Fewer, AtMostOne, Uploads, UpdateWrites, TokenBlocks
    <2>5. ~Updating(d, u)' /\ ~Passing(d, u)' /\ ~Deleting(d, u)'
      BY <1>2, <1>5, <1>9, <2>1
    <2> QED BY <1>5, <2>4, <2>5 DEF TokenAt
  <1>11. ASSUME NEW j \in Nat, j # u PROVE TokenAt(d, j)'
    <2>a. PICK a : a = Append(calls[d], x)
      OBVIOUS
    <2>0. a \in Seq(EditCalls) /\ x \notin Uploads(j) /\ y \notin Uploads(j) /\ y \in EditCalls /\ x \in EditCalls
      BY <1>6, <1>7, <1>11, <2>a
    <2>1. Fewer(calls[d], a, Uploads(j)) /\ Fewer(a, calls'[d], Uploads(j))
      <3>1. Fewer(calls[d], Append(calls[d], x), Uploads(j))
        BY <1>6, <2>0, FewerAppend
      <3>2. Fewer(a, Append(a, y), Uploads(j))
        BY <2>0, FewerAppend
      <3> QED BY <1>4, <2>a, <3>1, <3>2
    <2>2. Fewer(calls[d], calls'[d], Uploads(j))
      BY <2>1 DEF Fewer
    <2>3. Fewer(queue[d], queue'[d], UpdateWrites(j))
      BY FewerSame
    <2>4. Token(d, j) => Image(d) # j
      BY DEF TokenAt, Token
    <2> QED BY <1>5, <1>9, <2>2, <2>3, <2>4, TokenKept
  <1> QED BY <1>8, <1>10, <1>11

LEMMA StartLate ==
    ASSUME TypesInv, NEW d \in Devices, Late(d),
           Started(d, Len(edits[d])), edits' = edits, storage' = storage, queue'[d] = queue[d],
           mainq'[d] = mainq[d] \/ (mainq[d] # <<>> /\ mainq'[d] = Tail(mainq[d]))
    PROVE  Late(d)'
  <1>1. edits[d] # <<>> /\ \A j \in Nat : TokenAt(d, j)
    BY DEF Late
  <1>2. mainq[d] \in Seq(EditBlocks)
    BY FlightFacts
  <1>3. \A j \in Nat : Fewer(mainq[d], mainq'[d], TokenBlocks(j))
    BY <1>2, FewerSame, FewerTail
  <1>4. Range(mainq'[d]) \subseteq Range(mainq[d])
    BY <1>2, RangeOfTail
  <1>5. Coming(d)' /\ \A j \in Nat : TokenAt(d, j)'
    BY <1>1, <1>3, StartTokens
  <1>6. \A v \in Range(queue'[d]) : v \in SaveWrites => v.then.more
    BY DEF Late
  <1>7. \A x \in Range(mainq'[d]) : (x \in SaveBlocks => x.then.more) /\ (IsUpdate(x) => x.res)
    BY <1>4 DEF Late
  <1> QED BY <1>5, <1>6, <1>7, LateFrom

\* The block of an upload runs: the picture goes to the server.
LEMMA uploadedLate ==
    ASSUME TypesInv, NEW d \in Devices, Late(d), NEW i \in Nat, NEW b \in UploadBlocks(i), NEW w \in UpdateWrites(i),
           UploadedMoved(d, b, w)
    PROVE  Late(d)'
  <1>1. /\ mainq[d] # <<>> /\ b = Head(mainq[d]) /\ mainq'[d] = Tail(mainq[d])
        /\ Range(mainq[d]) = {b} \cup Range(mainq'[d])
    BY DEF UploadedMoved, HeadTaken
  <1>2. /\ queue'[d] = Append(queue[d], w) /\ Range(queue'[d]) = Range(queue[d]) \cup {w}
        /\ storage' = storage /\ calls' = calls /\ profile' = profile /\ edits' = edits
    BY DEF UploadedMoved
  <1>3. mainq[d] \in Seq(EditBlocks) /\ queue[d] \in Seq(EditWrites)
    BY FlightFacts
  <1>4. Image(d)' = Image(d) /\ \A j \in Nat : (Safe(d, j)' <=> Safe(d, j)) /\ (Uploading(d, j)' <=> Uploading(d, j))
    BY <1>2 DEF Image, Safe, Deleting, Uploading
  <1>5. /\ w \in EditWrites /\ w \notin SaveWrites /\ \A j \in Nat : w \in UpdateWrites(j) => i = j
    BY UpdateFacts, WritesApart
  <1>6. b \in TokenBlocks(i)
    BY BlocksApart
  <1>7. TokenAt(d, i) /\ Passing(d, i)
    BY <1>1, <1>6 DEF Late, Passing
  <1>8. ~Uploading(d, i) /\ ~Updating(d, i) /\ Image(d) # i /\ Safe(d, i)
    BY <1>7 DEF TokenAt
  <1>9. TokenAt(d, i)'
    <2>1. AtMostOne(mainq'[d], TokenBlocks(i)) /\ \A x \in Range(mainq'[d]) : x \notin TokenBlocks(i)
      BY <1>1, <1>3, <1>6, <1>7, FewerTail DEF Fewer, TokenAt
    <2>2. AtMostOne(queue'[d], UpdateWrites(i))
      BY <1>2, <1>3, <1>5, <1>7, <1>8, OneAppend DEF TokenAt, Updating
    <2>3. ~Passing(d, i)' /\ AtMostOne(queue[d], UpdateWrites(i))' /\ AtMostOne(mainq[d], TokenBlocks(i))'
      BY <2>1, <2>2 DEF Passing, AtMostOne, UpdateWrites, TokenBlocks
    <2>4. AtMostOne(calls[d], Uploads(i))'
      BY <1>2, <1>7 DEF TokenAt, AtMostOne, Uploads
    <2> QED BY <1>4, <1>8, <2>3, <2>4 DEF TokenAt
  <1>10. ASSUME NEW j \in Nat, j # i PROVE TokenAt(d, j)'
    <2>1. Fewer(queue[d], queue'[d], UpdateWrites(j))
      BY <1>2, <1>3, <1>5, <1>10, FewerAppend
    <2>2. Fewer(mainq[d], mainq'[d], TokenBlocks(j))
      BY <1>1, <1>3, FewerTail
    <2>3. TokenAt(d, j)
      BY DEF Late
    <2> QED BY <1>2, <1>4, <2>1, <2>2, <2>3, TokenStays
  <1>11. Coming(d)'
    BY <1>2 DEF Coming, Updating
  <1>12. \A v \in Range(queue'[d]) : v \in SaveWrites => v.then.more
    BY <1>2, <1>5 DEF Late
  <1>13. \A x \in Range(mainq'[d]) : (x \in SaveBlocks => x.then.more) /\ (IsUpdate(x) => x.res)
    BY <1>1 DEF Late
  <1> QED BY <1>2, <1>9, <1>10, <1>11, <1>12, <1>13, LateFrom

\* The block of an update runs: the picture is the screen's and the profile's.
LEMMA updatedLate ==
    ASSUME TypesInv, NEW d \in Devices, LastScreen(d), Late(d), NEW i \in Nat, NEW b \in UpdateBlocks(i),
           UpdatedMoved(d, i, b)
    PROVE  Late(d)' /\ Len(edits'[d]) = Len(edits[d])
  <1>1. /\ mainq[d] # <<>> /\ b = Head(mainq[d]) /\ mainq'[d] = Tail(mainq[d])
        /\ Range(mainq[d]) = {b} \cup Range(mainq'[d]) /\ docs' = docs
    <2>1. HeadTaken(d, b)
      BY DEF UpdatedMoved
    <2> QED BY <2>1 DEF HeadTaken
  <1>2. /\ queue'[d] = queue[d] /\ storage' = storage /\ calls' = calls
        /\ b.then.k \in Ks /\ b.then.k <= Len(edits[d])
    BY DEF UpdatedMoved
  <1>3. mainq[d] \in Seq(EditBlocks)
    BY FlightFacts
  <1>4. /\ b \in TokenBlocks(i) /\ IsUpdate(b) /\ b.then.img = i /\ b \notin SaveBlocks
        /\ \A j \in Nat : b \notin UploadBlocks(j)
    BY BlocksApart
  <1>5. b.res /\ b.then.k = Len(edits[d])
    BY <1>1, <1>4 DEF Late, LastScreen, IsUpdate
  <1>6. PICK n : n = Len(edits[d])
    OBVIOUS
  <1>7. n \in Ks /\ n \in 1..Len(edits[d]) /\ edits[d][n] \in Screens
    BY <1>2, <1>5, <1>6, ScreenFacts
  <1>8. PICK x : x = [edits[d][n] EXCEPT !.image = i]
    OBVIOUS
  <1>9. x \in Screens /\ x.image = i /\ x.selected = edits[d][n].selected
    BY <1>7, <1>8 DEF Screens
  <1>10. edits' = [edits EXCEPT ![d] = [edits[d] EXCEPT ![n] = x]]
    BY <1>5, <1>6, <1>8 DEF UpdatedMoved
  <1>11. EditedOne(d, n, x)
    BY <1>7, <1>9, <1>10, EditOne
  <1>12. Len(edits'[d]) = n /\ edits'[d][n] = x /\ edits'[d] # <<>>
    <2>1. Len(edits'[d]) = n /\ edits'[d][n] = x
      BY <1>6, <1>11 DEF EditedOne
    <2>2. n # 0
      BY <1>7
    <2> QED BY <2>1, <2>2
  <1>13. Image(d)' = i /\ Last(edits'[d]).selected
    BY <1>6, <1>9, <1>12 DEF Image, Last, Late
  <1>14. profile'[d] = i
    <2>1. wantsToUpdate(d, b.then.k, i)
      BY <1>5 DEF UpdatedMoved
    <2> QED BY <2>1, wantsToUpdateFacts
  <1>15. \A j \in Nat : (Safe(d, j)' <=> Safe(d, j)) /\ (Deleting(d, j)' <=> Deleting(d, j))
    BY <1>2 DEF Safe, Deleting
  <1>16. ASSUME NEW j \in Nat PROVE TokenAt(d, j)'
    <2>1. TokenAt(d, j)
      BY DEF Late
    <2>2. Fewer(calls[d], calls'[d], Uploads(j)) /\ Fewer(queue[d], queue'[d], UpdateWrites(j))
      BY <1>2, FewerSame
    <2>3. Fewer(mainq[d], mainq'[d], TokenBlocks(j))
      BY <1>1, <1>3, FewerTail
    <2>4. CASE j # i
      BY <1>13, <1>15, <2>1, <2>2, <2>3, <2>4, TokenKept
    <2>5. CASE j = i
      <3>1. Passing(d, i)
        BY <1>1, <1>4 DEF Passing
      <3>2. ~Uploading(d, i) /\ ~Updating(d, i)
        BY <2>1, <2>5, <3>1 DEF TokenAt
      <3>3. \A y \in Range(mainq'[d]) : y \notin TokenBlocks(i)
        BY <1>1, <1>3, <1>4, <2>1, <2>5, FewerTail DEF TokenAt
      <3>4. ~Uploading(d, i)' /\ ~Updating(d, i)' /\ ~Passing(d, i)'
        BY <1>2, <3>2, <3>3 DEF Uploading, Updating, Passing
      <3>5. /\ AtMostOne(calls[d], Uploads(i))' /\ AtMostOne(queue[d], UpdateWrites(i))'
            /\ AtMostOne(mainq[d], TokenBlocks(i))'
        BY <2>1, <2>2, <2>3, <2>5 DEF TokenAt, Fewer, AtMostOne, Uploads, UpdateWrites, TokenBlocks
      <3> QED BY <2>5, <3>4, <3>5 DEF TokenAt
    <2> QED BY <2>4, <2>5
  <1>17. Coming(d) => Coming(d)'
    BY <1>1, <1>2, <1>4 DEF Coming, Uploading, Updating
  <1>18. ~Coming(d) => Safe(d, docs[UserDoc])' /\ ShowsLast(d, docs[UserDoc])'
    <2>u. PICK u : u = docs[UserDoc]
      OBVIOUS
    <2>1. ASSUME ~Coming(d) PROVE Safe(d, u)' /\ ShowsLast(d, u)'
      <3>1. Safe(d, u) /\ Shows(mainq[d], profile[d], u)
        BY <2>1, <2>u DEF Late, ShowsLast
      <3>2. Shows(mainq'[d], i, u)
        BY <1>1, <1>3, <1>4, <3>1, ShowsTail
      <3>3. u \in Nat
        BY <2>u, DocFacts DEF TypesInv, StateOK
      <3> QED BY <1>14, <1>15, <3>1, <3>2, <3>3 DEF ShowsLast
    <2>2. docs'[UserDoc] = u
      BY <1>1, <2>u
    <2> QED BY <2>1, <2>2, AccountSafe
  <1>19. \A v \in Range(queue'[d]) : v \in SaveWrites => v.then.more
    BY <1>2 DEF Late
  <1>20. \A y \in Range(mainq'[d]) : (y \in SaveBlocks => y.then.more) /\ (IsUpdate(y) => y.res)
    BY <1>1 DEF Late
  <1> QED BY <1>6, <1>12, <1>13, <1>16, <1>17, <1>18, <1>19, <1>20 DEF Late

\* The block of the query for the posts runs: they are written.
LEMMA foundPostsLate ==
    ASSUME TypesInv, NEW d \in Devices, Late(d), NEW i \in Nat, NEW b \in FoundBlocks(i), FoundMoved(d, i, b)
    PROVE  Late(d)'
  <1>1. /\ mainq[d] # <<>> /\ b = Head(mainq[d]) /\ mainq'[d] = Tail(mainq[d])
        /\ Range(mainq[d]) = {b} \cup Range(mainq'[d]) /\ docs' = docs
    <2>1. HeadTaken(d, b)
      BY DEF FoundMoved
    <2> QED BY <2>1 DEF HeadTaken
  <1>2. storage' = storage /\ calls' = calls /\ profile' = profile /\ edits' = edits /\ Image(d)' = Image(d)
    BY DEF FoundMoved, Image
  <1>3. mainq[d] \in Seq(EditBlocks) /\ queue[d] \in Seq(EditWrites)
    BY FlightFacts
  <1>4. ~IsUpdate(b) /\ b \notin SaveBlocks /\ \A j \in Nat : b \notin UploadBlocks(j)
    BY BlocksApart
  <1>5. /\ \A j \in Nat : Fewer(queue[d], queue'[d], UpdateWrites(j))
        /\ Range(queue[d]) \subseteq Range(queue'[d])
        /\ \A w \in Range(queue'[d]) : w \in SaveWrites => w \in Range(queue[d])
    <2>1. CASE queue'[d] = queue[d]
      BY <2>1, FewerSame
    <2>2. ASSUME NEW w \in PostsWrites(i), queue'[d] = Append(queue[d], w), Range(queue'[d]) = Range(queue[d]) \cup {w}
          PROVE  /\ \A j \in Nat : Fewer(queue[d], queue'[d], UpdateWrites(j))
                 /\ Range(queue[d]) \subseteq Range(queue'[d])
                 /\ \A v \in Range(queue'[d]) : v \in SaveWrites => v \in Range(queue[d])
      <3>1. w \in EditWrites /\ w \notin SaveWrites /\ \A j \in Nat : w \notin UpdateWrites(j)
        BY PostsFacts, WritesApart
      <3> QED BY <1>3, <2>2, <3>1, FewerAppend
    <2> QED BY <2>1, <2>2 DEF FoundMoved
  <1>6. ASSUME NEW j \in Nat PROVE TokenAt(d, j)'
    <2>1. Fewer(mainq[d], mainq'[d], TokenBlocks(j))
      BY <1>1, <1>3, FewerTail
    <2>2. TokenAt(d, j)
      BY DEF Late
    <2> QED BY <1>2, <1>5, <2>1, <2>2, TokenStays
  <1>7. Coming(d) => Coming(d)'
    BY <1>1, <1>2, <1>4, <1>5 DEF Coming, Uploading, Updating
  <1>8. ~Coming(d) => Safe(d, docs[UserDoc])' /\ ShowsLast(d, docs[UserDoc])'
    <2>u. PICK u : u = docs[UserDoc]
      OBVIOUS
    <2>1. ASSUME ~Coming(d) PROVE Safe(d, u)' /\ ShowsLast(d, u)'
      <3>1. Safe(d, u) /\ Shows(mainq[d], profile[d], u)
        BY <2>1, <2>u DEF Late, ShowsLast
      <3>2. Shows(mainq'[d], profile[d], u)
        BY <1>1, <1>3, <1>4, <3>1, ShowsTail
      <3> QED BY <1>2, <3>1, <3>2 DEF ShowsLast, Safe, Deleting
    <2>2. docs'[UserDoc] = u
      BY <1>1, <2>u
    <2> QED BY <2>1, <2>2, AccountSafe
  <1>9. \A v \in Range(queue'[d]) : v \in SaveWrites => v.then.more
    BY <1>5 DEF Late
  <1>10. \A y \in Range(mainq'[d]) : (y \in SaveBlocks => y.then.more) /\ (IsUpdate(y) => y.res)
    BY <1>1 DEF Late
  <1> QED BY <1>2, <1>6, <1>7, <1>8, <1>9, <1>10, LateFrom

\* Done is tapped.
LEMMA DoneLate ==
    ASSUME TypesInv, NEW d \in Devices, Late(d), DoneMoved(d)
    PROVE  Late(d)'
  <1>1. /\ mainq' = mainq /\ storage' = storage /\ edits' = edits /\ profile' = profile /\ Image(d)' = Image(d)
    BY DEF DoneMoved, Image
  <1>2. CASE Started(d, Len(edits[d])) /\ queue' = queue
    BY <1>1, <1>2, StartLate
  <1>3. ASSUME NEW w \in SaveWrites, w.then.more = edits[d][Len(edits[d])].selected, queue'[d] = Append(queue[d], w),
               Range(queue'[d]) = Range(queue[d]) \cup {w}, calls' = calls
        PROVE  Late(d)'
    <2>1. w.then.more
      BY <1>3 DEF Late, Last
    <2>2. w \in EditWrites /\ \A j \in Nat : w \notin UpdateWrites(j)
      BY SaveFacts, WritesApart
    <2>3. queue[d] \in Seq(EditWrites)
      BY FlightFacts
    <2>4. ASSUME NEW j \in Nat PROVE TokenAt(d, j)'
      <3>1. Fewer(queue[d], queue'[d], UpdateWrites(j))
        BY <1>3, <2>2, <2>3, FewerAppend
      <3>2. Fewer(mainq[d], mainq'[d], TokenBlocks(j))
        BY <1>1, FewerSame
      <3>3. TokenAt(d, j)
        BY DEF Late
      <3> QED BY <1>1, <1>3, <3>1, <3>2, <3>3, TokenStays
    <2>5. Coming(d)'
      BY <1>3 DEF Coming
    <2>6. \A v \in Range(queue'[d]) : v \in SaveWrites => v.then.more
      BY <1>3, <2>1 DEF Late
    <2>7. \A y \in Range(mainq'[d]) : (y \in SaveBlocks => y.then.more) /\ (IsUpdate(y) => y.res)
      BY <1>1 DEF Late
    <2> QED BY <1>1, <2>4, <2>5, <2>6, <2>7, LateFrom
  <1> QED BY <1>2, <1>3 DEF DoneMoved

\* A picture is picked or a name edited.
LEMMA MarkLate ==
    ASSUME TypesInv, NEW d \in Devices, Late(d), MarkMoved(d)
    PROVE  Late(d)'
  <1>1. /\ queue' = queue /\ mainq' = mainq /\ calls' = calls /\ storage' = storage /\ profile' = profile /\ docs' = docs
        /\ Len(edits'[d]) = Len(edits[d]) /\ edits'[d] # <<>>
    BY DEF MarkMoved
  <1>2. Len(edits[d]) \in DOMAIN edits[d]
    BY FlightFacts DEF MarkMoved
  <1>3. Image(d)' = Image(d) /\ Last(edits'[d]).selected
    BY <1>1, <1>2 DEF MarkMoved, Image, Last, Late
  <1>4. ASSUME NEW j \in Nat PROVE TokenAt(d, j)'
    <2>1. Fewer(queue[d], queue'[d], UpdateWrites(j)) /\ Fewer(mainq[d], mainq'[d], TokenBlocks(j))
      BY <1>1, FewerSame
    <2>2. TokenAt(d, j)
      BY DEF Late
    <2> QED BY <1>1, <1>3, <2>1, <2>2, TokenStays
  <1>5. (Coming(d) => Coming(d)') /\ (~Coming(d) => Safe(d, docs[UserDoc])' /\ ShowsLast(d, docs[UserDoc])')
    BY <1>1 DEF Late, Coming, Uploading, Updating, Safe, Deleting, ShowsLast
  <1>6. \A v \in Range(queue'[d]) : v \in SaveWrites => v.then.more
    BY <1>1 DEF Late
  <1>7. \A y \in Range(mainq'[d]) : (y \in SaveBlocks => y.then.more) /\ (IsUpdate(y) => y.res)
    BY <1>1 DEF Late
  <1> QED BY <1>1, <1>3, <1>4, <1>5, <1>6, <1>7 DEF Late

-----------------------------------------------------------------------------
(* Early is kept until an upload starts.                                   *)

LEMMA AnswerEarly ==
    ASSUME TypesInv, NEW d \in Devices, Early(d), Answer(d, TRUE), UNCHANGED appVars
    PROVE  Early(d)'
  <1>0. TRUE \in BOOLEAN
    OBVIOUS
  <1>1. PICK w \in EditWrites : \E path : AnsweredHead(d, TRUE, w, path)
    BY <1>0, AnswerHead
  <1>2. PICK path : AnsweredHead(d, TRUE, w, path)
    BY <1>1
  <1>3. /\ queue[d] \in Seq(EditWrites) /\ mainq[d] \in Seq(EditBlocks) /\ queue[d] # <<>>
        /\ w = Head(queue[d]) /\ Range(queue[d]) = {w} \cup Range(Tail(queue[d]))
    BY <1>2, FlightFacts, RangeOfTail DEF AnsweredHead
  <1>4. /\ storage' = storage /\ calls' = calls /\ edits' = edits /\ profile' = profile /\ Image(d)' = Image(d)
        /\ gets' = gets
    BY <1>2 DEF appVars, Image, AnsweredHead, AnsweredPart
  <1>5. w \in SaveWrites /\ w.data = profile[d]
    BY <1>3 DEF Early
  <1>6. docs'[UserDoc] = profile[d] /\ queue'[d] = Tail(queue[d])
    BY <1>2, <1>5, AnswerSave
  <1>7. PICK b \in SaveBlocks : b.then = w.then /\ mainq'[d] = Append(mainq[d], b)
    BY <1>2, <1>5, AnswerSave
  <1>8. b \in EditBlocks
    BY BlockFacts
  <1>9. Range(mainq'[d]) = Range(mainq[d]) \cup {b}
    BY <1>3, <1>7, <1>8, RangeOfAppend
  <1>10. MoreLast(queue'[d]) /\ (w.then.more => \A x \in Range(queue[d]) : x.then.more)
    BY <1>3, <1>6, MoreTail DEF Early
  <1>11. MoreLast(mainq'[d])
    <2>1. MoreLast(mainq[d]) /\ ((\E x \in Range(mainq[d]) : x.then.more) => b.then.more)
      BY <1>3, <1>7 DEF Early
    <2> QED BY <1>3, <1>7, <1>8, <2>1, MoreAppend
  <1>12. /\ \A v \in Range(queue'[d]) : v \in SaveWrites /\ v.data = profile[d]
         /\ \A x \in Range(mainq'[d]) : x \in SaveBlocks
    BY <1>3, <1>6, <1>9 DEF Early
  <1>13. (\E x \in Range(mainq'[d]) : x.then.more) => \A v \in Range(queue'[d]) : v.then.more
    BY <1>3, <1>6, <1>7, <1>9, <1>10 DEF Early
  <1>14. /\ (\E x \in Range(mainq'[d]) \cup Range(queue'[d]) : x.then.more) => Last(edits[d]).selected
         /\ Last(edits[d]).changed
    BY <1>3, <1>6, <1>7, <1>9 DEF Early
  <1>15. MoreLast(queue[d])' /\ MoreLast(mainq[d])'
    BY <1>10, <1>11 DEF MoreLast
  <1>16. profile[d] \in storage /\ calls[d] = <<>> /\ gets[d] = <<>> /\ (edits[d] # <<>> => Image(d) = profile[d])
    BY DEF Early
  <1> QED BY <1>4, <1>6, <1>12, <1>13, <1>14, <1>15, <1>16 DEF Early

\* An upload starts while only names were in flight.
LEMMA StartEarly ==
    ASSUME TypesInv, NEW d \in Devices, Early(d), edits[d] # <<>>, Last(edits[d]).selected,
           Started(d, Len(edits[d])), edits' = edits, storage' = storage, queue'[d] = queue[d],
           Range(mainq'[d]) \subseteq Range(mainq[d]),
           mainq'[d] = mainq[d] \/ (mainq[d] # <<>> /\ mainq'[d] = Tail(mainq[d])),
           \A w \in Range(queue[d]) : w.then.more, \A b \in Range(mainq[d]) : b.then.more
    PROVE  Late(d)'
  <1>1. mainq[d] \in Seq(EditBlocks)
    BY FlightFacts
  <1>2. ASSUME NEW j \in Nat PROVE TokenAt(d, j)
    <2>1. calls[d] = <<>> /\ Range(calls[d]) = {}
      BY RangeOfEmpty DEF Early
    <2>2. \A w \in Range(queue[d]) : w \notin UpdateWrites(j)
      BY WritesApart DEF Early
    <2>3. \A b \in Range(mainq[d]) : b \notin TokenBlocks(j)
      BY BlocksApart DEF Early
    <2>4. AtMostOne(calls[d], Uploads(j)) /\ AtMostOne(queue[d], UpdateWrites(j)) /\ AtMostOne(mainq[d], TokenBlocks(j))
      <3>1. \A i \in DOMAIN queue[d] : queue[d][i] \in Range(queue[d])
        BY DEF Range
      <3>2. \A i \in DOMAIN mainq[d] : mainq[d][i] \in Range(mainq[d])
        BY DEF Range
      <3> QED BY <2>1, <2>2, <2>3, <3>1, <3>2 DEF AtMostOne
    <2>5. ~Uploading(d, j) /\ ~Updating(d, j) /\ ~Passing(d, j)
      BY <2>1, <2>2, <2>3 DEF Uploading, Updating, Passing
    <2> QED BY <2>4, <2>5 DEF TokenAt
  <1>3. \A j \in Nat : Fewer(mainq[d], mainq'[d], TokenBlocks(j))
    BY <1>1, FewerSame, FewerTail
  <1>4. Coming(d)' /\ \A j \in Nat : TokenAt(d, j)'
    BY <1>2, <1>3, StartTokens
  <1>5. \A x \in Range(mainq'[d]) : (x \in SaveBlocks => x.then.more) /\ ~IsUpdate(x)
    BY BlocksApart DEF Early
  <1> QED BY <1>4, <1>5 DEF Late

LEMMA savedEarly ==
    ASSUME TypesInv, NEW d \in Devices, LastScreen(d), Early(d), NEW b \in SaveBlocks, SavedMoved(d, b)
    PROVE  Early(d)' \/ Late(d)'
  <1>1. /\ mainq[d] # <<>> /\ b = Head(mainq[d]) /\ mainq'[d] = Tail(mainq[d])
        /\ Range(mainq[d]) = {b} \cup Range(mainq'[d]) /\ docs' = docs
    <2>1. HeadTaken(d, b)
      BY DEF SavedMoved
    <2> QED BY <2>1 DEF HeadTaken
  <1>2. /\ queue'[d] = queue[d] /\ gets'[d] = gets[d] /\ storage' = storage /\ edits' = edits
        /\ b.then.k \in Ks /\ b.then.k <= Len(edits[d])
    BY DEF SavedMoved
  <1>3. mainq[d] \in Seq(EditBlocks) /\ b.then.kind = "saved"
    BY FlightFacts, BlockFacts
  <1>4. b.then.k = Len(edits[d]) /\ edits[d] # <<>>
    <2>1. b.then.k = Len(edits[d])
      BY <1>1, <1>3 DEF LastScreen
    <2>2. b.then.k # 0
      BY <1>2, EditAssumption DEF Ks
    <2> QED BY <2>1, <2>2
  <1>5. MoreLast(mainq'[d]) /\ (b.then.more => \A x \in Range(mainq[d]) : x.then.more)
    BY <1>1, <1>3, MoreTail DEF Early
  <1>6. CASE b.then.more
    <2>1. Started(d, Len(edits[d]))
      BY <1>4, <1>6 DEF SavedMoved
    <2>2. Last(edits[d]).selected /\ \A w \in Range(queue[d]) : w.then.more
      BY <1>1, <1>6 DEF Early
    <2>3. \A x \in Range(mainq[d]) : x.then.more
      BY <1>5, <1>6
    <2>4. Range(mainq'[d]) \subseteq Range(mainq[d])
      BY <1>1
    <2> QED BY <1>1, <1>2, <1>4, <2>1, <2>2, <2>3, <2>4, StartEarly
  <1>7. CASE ~b.then.more
    <2>1. calls' = calls /\ wantsToUpdate(d, b.then.k, edits[d][b.then.k].image)
      BY <1>7 DEF SavedMoved
    <2>2. Image(d) = profile[d] /\ edits[d][b.then.k].image = Image(d) /\ Image(d) \in Nat
      BY <1>2, <1>4, ScreenFacts DEF Early, Image
    <2>3. profile'[d] = profile[d]
      BY <2>1, <2>2, wantsToUpdateFacts
    <2>4. Image(d)' = Image(d)
      BY <1>2 DEF Image
    <2>5. MoreLast(mainq[d])'
      BY <1>5 DEF MoreLast
    <2>6. /\ \A x \in Range(mainq'[d]) : x \in SaveBlocks
          /\ (\E x \in Range(mainq'[d]) : x.then.more) => \A v \in Range(queue[d]) : v.then.more
          /\ (\E x \in Range(mainq'[d]) \cup Range(queue[d]) : x.then.more) => Last(edits[d]).selected
          /\ Last(edits[d]).changed
      BY <1>1 DEF Early
    <2>7. MoreLast(queue[d])'
      BY <1>2 DEF Early, MoreLast
    <2>8. /\ calls[d] = <<>> /\ gets[d] = <<>> /\ \A w \in Range(queue[d]) : w \in SaveWrites /\ w.data = profile[d]
          /\ docs[UserDoc] = profile[d] /\ profile[d] \in storage
      BY DEF Early
    <2> QED BY <1>1, <1>2, <2>1, <2>2, <2>3, <2>4, <2>5, <2>6, <2>7, <2>8 DEF Early
  <1> QED BY <1>6, <1>7

LEMMA DoneEarly ==
    ASSUME TypesInv, NEW d \in Devices, Early(d), DoneMoved(d)
    PROVE  Early(d)' \/ Late(d)'
  <1>1. /\ mainq' = mainq /\ storage' = storage /\ edits' = edits /\ profile' = profile /\ Image(d)' = Image(d)
        /\ docs' = docs /\ gets' = gets
    BY DEF DoneMoved, Image
  <1>2. edits[d] # <<>> /\ Last(edits[d]) = edits[d][Len(edits[d])] /\ Image(d) = edits[d][Len(edits[d])].image
    <2>1. Len(edits[d]) \in 1..Len(edits[d])
      BY DEF DoneMoved
    <2>2. Len(edits[d]) # 0
      BY <2>1, FlightFacts
    <2> QED BY <2>2 DEF Last, Image
  <1>3. Image(d) = profile[d]
    BY <1>2 DEF Early
  <1>4. CASE ~edits[d][Len(edits[d])].changed
    <2>1. Started(d, Len(edits[d])) /\ queue' = queue /\ Last(edits[d]).selected
      BY <1>2, <1>4 DEF DoneMoved
    <2>2. Range(queue[d]) = {} /\ Range(mainq[d]) = {}
      BY <1>2, <1>4 DEF Early
    <2> QED BY <1>1, <1>2, <2>1, <2>2, StartEarly
  <1>5. CASE edits[d][Len(edits[d])].changed
    <2>1. PICK w \in SaveWrites : /\ w.data = edits[d][Len(edits[d])].image
                                  /\ w.then.more = edits[d][Len(edits[d])].selected
                                  /\ queue'[d] = Append(queue[d], w) /\ Range(queue'[d]) = Range(queue[d]) \cup {w}
      BY <1>5 DEF DoneMoved
    <2>2. calls' = calls
      BY <1>5 DEF DoneMoved
    <2>3. w \in EditWrites /\ queue[d] \in Seq(EditWrites)
      BY SaveFacts, FlightFacts
    <2>4. (\E y \in Range(queue[d]) \cup Range(mainq[d]) : y.then.more) => w.then.more
      BY <1>2, <2>1 DEF Early
    <2>5. MoreLast(queue'[d])
      <3>1. MoreLast(queue[d]) /\ ((\E y \in Range(queue[d]) : y.then.more) => w.then.more)
        BY <2>4 DEF Early
      <3> QED BY <2>1, <2>3, <3>1, MoreAppend
    <2>6. MoreLast(queue[d])' /\ MoreLast(mainq[d])'
      BY <1>1, <2>5 DEF Early, MoreLast
    <2>7. /\ \A v \in Range(queue'[d]) : v \in SaveWrites /\ v.data = profile[d]
          /\ \A x \in Range(mainq'[d]) : x \in SaveBlocks
      BY <1>1, <1>2, <1>3, <2>1 DEF Early
    <2>8. (\E x \in Range(mainq'[d]) : x.then.more) => \A v \in Range(queue'[d]) : v.then.more
      BY <1>1, <2>1, <2>4 DEF Early
    <2>9. /\ (\E x \in Range(mainq'[d]) \cup Range(queue'[d]) : x.then.more) => Last(edits[d]).selected
          /\ Last(edits[d]).changed
      BY <1>1, <1>2, <1>5, <2>1 DEF Early
    <2>10. /\ calls[d] = <<>> /\ gets[d] = <<>> /\ docs[UserDoc] = profile[d] /\ profile[d] \in storage
      BY DEF Early
    <2> QED BY <1>1, <1>3, <2>2, <2>6, <2>7, <2>8, <2>9, <2>10 DEF Early
  <1> QED BY <1>4, <1>5

LEMMA MarkEarly ==
    ASSUME TypesInv, NEW d \in Devices, Early(d), MarkMoved(d)
    PROVE  Early(d)'
  <1>1. /\ queue' = queue /\ mainq' = mainq /\ calls' = calls /\ storage' = storage /\ profile' = profile /\ docs' = docs
        /\ gets' = gets /\ Len(edits'[d]) = Len(edits[d]) /\ edits[d] # <<>>
    BY DEF MarkMoved
  <1>2. Len(edits[d]) \in DOMAIN edits[d]
    BY FlightFacts DEF MarkMoved
  <1>3. /\ Image(d)' = Image(d) /\ Image(d) = profile[d]
        /\ Last(edits[d]).selected => Last(edits'[d]).selected
        /\ Last(edits[d]).changed => Last(edits'[d]).changed
    BY <1>1, <1>2 DEF MarkMoved, Image, Last, Early
  <1>4. MoreLast(queue[d])' /\ MoreLast(mainq[d])'
    BY <1>1 DEF Early, MoreLast
  <1> QED BY <1>1, <1>3, <1>4 DEF Early

\* Nothing is in flight: the account, the profile and Storage agree.
LEMMA SettledAgrees ==
    ASSUME TypesInv, NEW d \in Devices, Early(d) \/ Late(d), Settled(d)
    PROVE  /\ docs[UserDoc] \in storage /\ profile[d] = docs[UserDoc]
           /\ queue[d] = <<>> /\ gets[d] = <<>> /\ mainq[d] = <<>> /\ calls[d] = <<>>
           /\ Range(queue[d]) = {} /\ Range(gets[d]) = {} /\ Range(mainq[d]) = {} /\ Range(calls[d]) = {}
  <1>1. queue[d] = <<>> /\ gets[d] = <<>> /\ mainq[d] = <<>> /\ calls[d] = <<>>
    BY DEF Settled, Quiet
  <1>2. Range(queue[d]) = {} /\ Range(gets[d]) = {} /\ Range(mainq[d]) = {} /\ Range(calls[d]) = {}
    BY <1>1, RangeOfEmpty
  <1>3. CASE Early(d)
    BY <1>1, <1>2, <1>3 DEF Early
  <1>4. CASE Late(d)
    <2>1. ~Coming(d)
      BY <1>2 DEF Coming, Uploading, Updating
    <2>2. Safe(d, docs[UserDoc]) /\ Shows(mainq[d], profile[d], docs[UserDoc])
      BY <1>4, <2>1 DEF Late, ShowsLast
    <2>3. profile[d] = docs[UserDoc]
      BY <1>1, <2>2 DEF Shows
    <2> QED BY <1>1, <1>2, <2>2, <2>3 DEF Safe
  <1> QED BY <1>3, <1>4

\* The edit screen is opened with the profile's picture.
LEMMA ShowPicture ==
    ASSUME TypesInv, NEW d \in Devices, Early(d) \/ Late(d), Settled(d), ShowMoved(d)
    PROVE  LastScreen(d)' /\ Early(d)'
  <1>1. /\ queue' = queue /\ gets' = gets /\ mainq' = mainq /\ calls' = calls /\ storage' = storage /\ profile' = profile
        /\ docs' = docs /\ edits'[d] = Append(edits[d], Screen(profile[d]))
    BY DEF ShowMoved
  <1>2. /\ docs[UserDoc] \in storage /\ profile[d] = docs[UserDoc]
        /\ queue[d] = <<>> /\ gets[d] = <<>> /\ mainq[d] = <<>> /\ calls[d] = <<>>
        /\ Range(queue[d]) = {} /\ Range(mainq[d]) = {} /\ Range(calls[d]) = {}
    BY SettledAgrees
  <1>3. Image(d)' = profile[d]
    <2>1. edits[d] \in Seq(Screens)
      BY FlightFacts
    <2>2. edits'[d][Len(edits'[d])] = Screen(profile[d])
      BY <1>1, <2>1
    <2>3. Screen(profile[d]).image = profile[d]
      BY DEF Screen
    <2> QED BY <2>2, <2>3 DEF Image
  <1>4. MoreLast(queue[d])' /\ MoreLast(mainq[d])'
    BY <1>1, <1>2 DEF MoreLast
  <1>5. LastScreen(d)'
    BY <1>1, <1>2 DEF LastScreen
  <1> QED BY <1>1, <1>2, <1>3, <1>4, <1>5 DEF Early

\* Nothing that matters for the pictures changes.
LEMMA IdlePicture ==
    ASSUME NEW d \in Devices, LastScreen(d), Early(d) \/ Late(d),
           UNCHANGED <<docs, queue, gets, mainq, storage, calls, profile, edits>>
    PROVE  LastScreen(d)' /\ (Early(d)' \/ Late(d)')
  <1>1. LastScreen(d)'
    BY DEF LastScreen
  <1>2. Image(d)' = Image(d)
    BY DEF Image
  <1>3. CASE Early(d)
    <2>1. MoreLast(queue[d])' /\ MoreLast(mainq[d])'
      BY <1>3 DEF Early, MoreLast
    <2> QED BY <1>1, <1>2, <1>3, <2>1 DEF Early
  <1>4. CASE Late(d)
    <2>1. ASSUME NEW j \in Nat PROVE TokenAt(d, j)'
      <3>1. Fewer(queue[d], queue'[d], UpdateWrites(j)) /\ Fewer(mainq[d], mainq'[d], TokenBlocks(j))
        BY FewerSame
      <3>2. TokenAt(d, j)
        BY <1>4 DEF Late
      <3> QED BY <1>2, <3>1, <3>2, TokenStays
    <2>2. (Coming(d) => Coming(d)') /\ (~Coming(d) => Safe(d, docs[UserDoc])' /\ ShowsLast(d, docs[UserDoc])')
      BY <1>4 DEF Late, Coming, Uploading, Updating, Safe, Deleting, ShowsLast
    <2>3. \A v \in Range(queue'[d]) : v \in SaveWrites => v.then.more
      BY <1>4 DEF Late
    <2>4. \A y \in Range(mainq'[d]) : (y \in SaveBlocks => y.then.more) /\ (IsUpdate(y) => y.res)
      BY <1>4 DEF Late
    <2>5. Late(d)'
      BY <1>4, <2>1, <2>2, <2>3, <2>4, LateFrom
    <2> QED BY <1>1, <2>5
  <1> QED BY <1>3, <1>4

-----------------------------------------------------------------------------
(* The pictures agree.                                                     *)

LEMMA AnswerPicture ==
    ASSUME TypesInv, NEW d \in Devices, PictureAt(d), Answer(d, TRUE), UNCHANGED appVars
    PROVE  PictureAt(d)'
  <1>0. TRUE \in BOOLEAN
    OBVIOUS
  <1>1. PICK w \in EditWrites : \E path : AnsweredHead(d, TRUE, w, path)
    BY <1>0, AnswerHead
  <1>2. PICK path : AnsweredHead(d, TRUE, w, path)
    BY <1>1
  <1>3. AnsweredPart(d, TRUE, w, path) /\ path \in w.paths
    BY <1>2 DEF AnsweredHead
  <1>4. calls' = calls /\ edits' = edits /\ LastScreen(d) /\ w \in Range(queue[d])
    BY <1>3 DEF appVars, AnsweredPart, PictureAt
  <1>5. LastScreen(d)'
    <2>1. PICK b : b = [then |-> w.then, res |-> TRUE /\ Accepts(w, path)]
      OBVIOUS
    <2>2. PICK x : x = Trimmed(w, path)
      OBVIOUS
    <2>3. b.then = w.then
      BY <2>1
    <2>4. CASE w.then = NoThen
      <3>1. x.then = NoThen
        BY <2>2, <2>4, KindOfWrite, PostsFacts
      <3>2. Range(queue'[d]) \subseteq Range(queue[d]) \cup {x} /\ Range(mainq'[d]) \subseteq Range(mainq[d])
        BY <1>3, <2>2, <2>4 DEF AnsweredPart
      <3> QED BY <1>4, <3>1, <3>2 DEF LastScreen
    <2>5. CASE w.then # NoThen
      <3>1. w.paths = {path}
        BY <1>3, <2>5, KindOfWrite
      <3>2. Range(queue'[d]) \subseteq Range(queue[d]) /\ Range(mainq'[d]) \subseteq Range(mainq[d]) \cup {b}
        BY <1>3, <2>1, <2>5, <3>1 DEF AnsweredPart
      <3>3. b.then.k = Len(edits[d])
        BY <1>4, <2>3, <2>5 DEF LastScreen
      <3> QED BY <1>4, <3>2, <3>3 DEF LastScreen
    <2> QED BY <2>4, <2>5
  <1>6. Early(d)' \/ Late(d)'
    BY AnswerEarly, AnswerLate DEF PictureAt
  <1> QED BY <1>5, <1>6 DEF PictureAt

LEMMA ResolvePicture ==
    ASSUME TypesInv, NEW d \in Devices, PictureAt(d), NEW k \in DOMAIN gets[d], Resolve(d, k), UNCHANGED appVars
    PROVE  PictureAt(d)'
  <1>1. Late(d)
    BY DEF PictureAt, Early
  <1>2. PICK r \in EditReads : \E b \in FoundBlocks(r.then.img) :
                Resolved(d, r) /\ Range(mainq'[d]) = Range(mainq[d]) \cup {b}
    BY ResolveEdit
  <1>3. PICK b \in FoundBlocks(r.then.img) : Resolved(d, r) /\ Range(mainq'[d]) = Range(mainq[d]) \cup {b}
    BY <1>2
  <1>4. b.then.kind = "foundPosts"
    BY ReadFacts, BlockFacts
  <1>5. queue' = queue /\ calls' = calls /\ edits' = edits /\ LastScreen(d)
    BY <1>3 DEF appVars, Resolved, PictureAt
  <1>6. LastScreen(d)'
    BY <1>3, <1>4, <1>5 DEF LastScreen
  <1>7. Late(d)'
    BY <1>1, ResolveLate
  <1> QED BY <1>6, <1>7 DEF PictureAt

LEMMA StoragePicture ==
    ASSUME ~Failures, TypesInv, NEW d \in Devices, PictureAt(d), NEW i \in DOMAIN calls[d], StorageAnswer(d, i)
    PROVE  PictureAt(d)'
  <1>1. PICK c \in EditCalls : StorageMoved(d, i, c)
    BY StorageFacts
  <1>2. Late(d) /\ LastScreen(d)
    BY DEF PictureAt, Early
  <1>3. /\ queue' = queue /\ edits' = edits /\ Range(calls[d]) = {c} \cup Range(calls'[d])
    BY <1>1 DEF StorageMoved, Removed
  <1>4. CASE c.op = "delete" /\ storage' = storage \ {c.img} /\ mainq' = mainq
    <2>1. LastScreen(d)'
      BY <1>2, <1>3, <1>4 DEF LastScreen
    <2>2. Late(d)'
      BY <1>1, <1>2, <1>4, DeleteLate
    <2> QED BY <2>1, <2>2 DEF PictureAt
  <1>5. ASSUME c.op = "upload", storage' = storage \cup {c.img}, NEW b \in UploadBlocks(c.img), b.then = Uploaded(c.k, c.img),
               mainq'[d] = Append(mainq[d], b), Range(mainq'[d]) = Range(mainq[d]) \cup {b}
        PROVE  PictureAt(d)'
    <2>1. b.then.k = c.k /\ c.k = Len(edits[d])
      BY <1>2, <1>3, <1>5 DEF LastScreen, Uploaded
    <2>2. LastScreen(d)'
      BY <1>2, <1>3, <1>5, <2>1 DEF LastScreen
    <2>3. Late(d)'
      BY <1>1, <1>2, <1>5, UploadLate
    <2> QED BY <2>2, <2>3 DEF PictureAt
  <1> QED BY <1>1, <1>4, <1>5 DEF StorageMoved

\* The calls of an upload that starts are the last screen's.
LEMMA StartScreen ==
    ASSUME NEW d \in Devices, LastScreen(d), Started(d, Len(edits[d])), edits' = edits, queue'[d] = queue[d],
           Range(mainq'[d]) \subseteq Range(mainq[d])
    PROVE  LastScreen(d)'
  BY DEF LastScreen, Started

LEMMA savedPicture ==
    ASSUME TypesInv, NEW d \in Devices, PictureAt(d), saved(d)
    PROVE  PictureAt(d)'
  <1>1. PICK b \in SaveBlocks : SavedMoved(d, b)
    BY savedFacts
  <1>2. LastScreen(d) /\ b.then.kind = "saved"
    BY BlockFacts DEF PictureAt
  <1>3. /\ mainq[d] # <<>> /\ mainq'[d] = Tail(mainq[d]) /\ Range(mainq[d]) = {b} \cup Range(mainq'[d])
    <2>1. HeadTaken(d, b)
      BY <1>1 DEF SavedMoved
    <2> QED BY <2>1 DEF HeadTaken
  <1>4. queue'[d] = queue[d] /\ storage' = storage /\ edits' = edits
    BY <1>1 DEF SavedMoved
  <1>5. b.then.k = Len(edits[d])
    BY <1>2, <1>3 DEF LastScreen
  <1>6. b.then.more \/ calls' = calls
    BY <1>1 DEF SavedMoved
  <1>7. b.then.more => Started(d, Len(edits[d]))
    BY <1>1, <1>5 DEF SavedMoved
  <1>8. LastScreen(d)'
    <2>1. CASE b.then.more
      BY <1>2, <1>3, <1>4, <1>7, <2>1, StartScreen
    <2>2. CASE calls' = calls
      BY <1>2, <1>3, <1>4, <2>2 DEF LastScreen
    <2> QED BY <1>6, <2>1, <2>2
  <1>9. CASE Early(d)
    BY <1>1, <1>2, <1>8, <1>9, savedEarly DEF PictureAt
  <1>10. CASE Late(d)
    <2>1. b.then.more
      BY <1>3, <1>10 DEF Late
    <2>2. Late(d)'
      BY <1>3, <1>4, <1>7, <1>10, <2>1, StartLate
    <2> QED BY <1>8, <2>2 DEF PictureAt
  <1> QED BY <1>9, <1>10 DEF PictureAt

\* Early means that only blocks of saves are due.
LEMMA NotEarly ==
    ASSUME NEW d \in Devices, NEW b, HeadTaken(d, b), b \notin SaveBlocks, PictureAt(d)
    PROVE  Late(d) /\ LastScreen(d)
  BY DEF PictureAt, Early, HeadTaken

LEMMA uploadedPicture ==
    ASSUME TypesInv, NEW d \in Devices, PictureAt(d), uploaded(d)
    PROVE  PictureAt(d)'
  <1>1. PICK i \in Nat : \E b \in UploadBlocks(i) : \E w \in UpdateWrites(i) : UploadedMoved(d, b, w)
    BY uploadedFacts
  <1>2. PICK b \in UploadBlocks(i) : \E w \in UpdateWrites(i) : UploadedMoved(d, b, w)
    BY <1>1
  <1>3. PICK w \in UpdateWrites(i) : UploadedMoved(d, b, w)
    BY <1>2
  <1>4. HeadTaken(d, b) /\ b \notin SaveBlocks /\ b.then.kind = "uploaded"
    BY <1>3, BlocksApart, BlockFacts DEF UploadedMoved
  <1>5. Late(d) /\ LastScreen(d)
    BY <1>4, NotEarly
  <1>6. /\ Range(queue'[d]) = Range(queue[d]) \cup {w} /\ w.then.k = b.then.k /\ calls' = calls /\ edits' = edits
    BY <1>3 DEF UploadedMoved
  <1>7. Range(mainq[d]) = {b} \cup Range(mainq'[d])
    BY <1>4 DEF HeadTaken
  <1>8. LastScreen(d)'
    BY <1>4, <1>5, <1>6, <1>7 DEF LastScreen
  <1>9. Late(d)'
    BY <1>3, <1>5, uploadedLate
  <1> QED BY <1>8, <1>9 DEF PictureAt

LEMMA updatedPicture ==
    ASSUME TypesInv, NEW d \in Devices, PictureAt(d), updated(d)
    PROVE  PictureAt(d)'
  <1>1. PICK i \in Nat : \E b \in UpdateBlocks(i) : UpdatedMoved(d, i, b)
    BY updatedFacts
  <1>2. PICK b \in UpdateBlocks(i) : UpdatedMoved(d, i, b)
    BY <1>1
  <1>3. HeadTaken(d, b) /\ b \notin SaveBlocks
    BY <1>2, BlocksApart DEF UpdatedMoved
  <1>4. Late(d) /\ LastScreen(d)
    BY <1>3, NotEarly
  <1>5. Late(d)' /\ Len(edits'[d]) = Len(edits[d])
    BY <1>2, <1>4, updatedLate
  <1>6. queue'[d] = queue[d] /\ calls' = calls
    BY <1>2 DEF UpdatedMoved
  <1>7. Range(mainq'[d]) \subseteq Range(mainq[d])
    BY <1>3 DEF HeadTaken
  <1>8. LastScreen(d)'
    BY <1>4, <1>5, <1>6, <1>7 DEF LastScreen
  <1> QED BY <1>5, <1>8 DEF PictureAt

LEMMA foundPostsPicture ==
    ASSUME TypesInv, NEW d \in Devices, PictureAt(d), foundPosts(d)
    PROVE  PictureAt(d)'
  <1>1. PICK i \in Nat : \E b \in FoundBlocks(i) : FoundMoved(d, i, b)
    BY foundPostsFacts
  <1>2. PICK b \in FoundBlocks(i) : FoundMoved(d, i, b)
    BY <1>1
  <1>3. HeadTaken(d, b) /\ b \notin SaveBlocks
    BY <1>2, BlocksApart DEF FoundMoved
  <1>4. Late(d) /\ LastScreen(d)
    BY <1>3, NotEarly
  <1>5. Late(d)'
    BY <1>2, <1>4, foundPostsLate
  <1>6. calls' = calls /\ edits' = edits
    BY <1>2 DEF FoundMoved
  <1>7. \A w \in Range(queue'[d]) : w.then = NoThen \/ w \in Range(queue[d])
    BY <1>2, PostsFacts DEF FoundMoved
  <1>8. Range(mainq'[d]) \subseteq Range(mainq[d])
    BY <1>3 DEF HeadTaken
  <1>9. LastScreen(d)'
    BY <1>4, <1>6, <1>7, <1>8 DEF LastScreen
  <1> QED BY <1>5, <1>9 DEF PictureAt

LEMMA DonePicture ==
    ASSUME TypesInv, NEW d \in Devices, PictureAt(d), handleDone(d)
    PROVE  PictureAt(d)'
  <1>1. DoneMoved(d)
    BY handleDoneFacts
  <1>2. Early(d)' \/ Late(d)'
    BY <1>1, DoneEarly, DoneLate DEF PictureAt
  <1>3. mainq' = mainq /\ edits' = edits /\ LastScreen(d)
    BY <1>1 DEF DoneMoved, PictureAt
  <1>4. CASE Started(d, Len(edits[d])) /\ queue' = queue
    <2>1. LastScreen(d)'
      BY <1>3, <1>4, StartScreen
    <2> QED BY <1>2, <2>1 DEF PictureAt
  <1>5. ASSUME calls' = calls, NEW w \in SaveWrites, w.then.k = Len(edits[d]), Range(queue'[d]) = Range(queue[d]) \cup {w}
        PROVE  PictureAt(d)'
    <2>1. LastScreen(d)'
      BY <1>3, <1>5 DEF LastScreen
    <2> QED BY <1>2, <2>1 DEF PictureAt
  <1> QED BY <1>1, <1>4, <1>5 DEF DoneMoved

LEMMA TouchPicture ==
    ASSUME TypesInv, NEW d \in Devices, PictureAt(d), Touch(d), "screen" \notin haste'
    PROVE  PictureAt(d)' /\ "screen" \notin haste
  <1>1. CASE showEditProfileController(d) /\ Remember(d, "screen")
    <2>1. Settled(d) /\ haste' = haste
      BY <1>1 DEF Remember
    <2>2. ShowMoved(d)
      BY <1>1, showEditProfileControllerFacts
    <2>3. LastScreen(d)' /\ Early(d)'
      BY <2>1, <2>2, ShowPicture DEF PictureAt
    <2> QED BY <2>1, <2>3 DEF PictureAt
  <1>2. CASE handleCancel(d) /\ Remember(d, "screen")
    <2>1. UNCHANGED <<docs, queue, gets, mainq, storage, calls, profile, edits>>
      BY <1>2 DEF handleCancel
    <2>2. LastScreen(d)' /\ (Early(d)' \/ Late(d)')
      BY <2>1, IdlePicture DEF PictureAt
    <2>3. "screen" \notin haste
      BY <1>2 DEF Remember
    <2> QED BY <2>2, <2>3 DEF PictureAt
  <1>3. CASE (didFinishPickingMedia(d) \/ updateUserInfo(d)) /\ haste' = haste
    <2>1. MarkMoved(d)
      BY <1>3, MarkFacts
    <2>2. Early(d)' \/ Late(d)'
      BY <2>1, MarkEarly, MarkLate DEF PictureAt
    <2>3. LastScreen(d)'
      BY <2>1 DEF MarkMoved, PictureAt, LastScreen
    <2> QED BY <1>3, <2>2, <2>3 DEF PictureAt
  <1>4. CASE handleDone(d) /\ Remember(d, "done")
    <2>1. PictureAt(d)'
      BY <1>4, DonePicture
    <2>2. "screen" \notin haste
      BY <1>4 DEF Remember
    <2> QED BY <2>1, <2>2
  <1> QED BY <1>1, <1>2, <1>3, <1>4 DEF Touch

LEMMA StepPicture ==
    ASSUME ~Failures, TypesInv, NEW d \in Devices, PictureAt(d), Step(d)
    PROVE  PictureAt(d)'
  <1>1. CASE Deliver(d)
    <2>1. UNCHANGED appVars /\ Network(d)
      BY <1>1 DEF Deliver
    <2>2. CASE Answer(d, TRUE)
      BY <2>1, <2>2, AnswerPicture
    <2>3. ASSUME NEW k \in DOMAIN gets[d], Resolve(d, k) PROVE PictureAt(d)'
      BY <2>1, <2>3, ResolvePicture
    <2> QED BY <2>1, <2>2, <2>3 DEF Network, Serve, Fail, Commit, Refuse, Lose
  <1>2. CASE saved(d)
    BY <1>2, savedPicture
  <1>3. CASE uploaded(d)
    BY <1>3, uploadedPicture
  <1>4. CASE updated(d)
    BY <1>4, updatedPicture
  <1>5. CASE foundPosts(d)
    BY <1>5, foundPostsPicture
  <1>6. CASE Animate(d)
    <2>1. UNCHANGED <<docs, queue, gets, mainq, storage, calls, profile, edits>>
      BY <1>6 DEF Animate
    <2> QED BY <2>1, IdlePicture DEF PictureAt
  <1>7. ASSUME NEW i \in DOMAIN calls[d], StorageAnswer(d, i) PROVE PictureAt(d)'
    BY <1>7, StoragePicture
  <1> QED BY <1>1, <1>2, <1>3, <1>4, <1>5, <1>6, <1>7 DEF Step, MainQueue

LEMMA NextPicture ==
    ASSUME ~Failures, OneDevice, TypesInv, PictureInv, [Next]_vars
    PROVE  PictureInv'
  <1> SUFFICES ASSUME "screen" \notin haste', NEW d \in Devices PROVE PictureAt(d)'
    BY DEF PictureInv
  <1>1. CASE UNCHANGED vars
    <2>1. UNCHANGED <<docs, queue, gets, mainq, storage, calls, profile, edits, haste>>
      BY <1>1 DEF vars, appVars
    <2>2. PictureAt(d)
      BY <2>1 DEF PictureInv
    <2> QED BY <2>1, <2>2, IdlePicture DEF PictureAt
  <1>2. ASSUME NEW e \in Devices, Touch(e) \/ (Step(e) /\ UNCHANGED haste) PROVE PictureAt(d)'
    <2>1. e = d
      BY DEF OneDevice
    <2>2. "screen" \notin haste
      BY <1>2 DEF Touch, Remember
    <2>3. PictureAt(d)
      BY <2>2 DEF PictureInv
    <2>4. CASE Touch(d)
      BY <2>3, <2>4, TouchPicture
    <2>5. CASE Step(d)
      BY <2>3, <2>5, StepPicture
    <2> QED BY <1>2, <2>1, <2>4, <2>5
  <1> QED BY <1>1, <1>2 DEF Next

LEMMA InitPicture ==
    ASSUME Init
    PROVE  PictureInv
  <1> SUFFICES ASSUME NEW d \in Devices PROVE PictureAt(d)
    BY DEF PictureInv
  <1>1. /\ queue[d] = <<>> /\ gets[d] = <<>> /\ mainq[d] = <<>> /\ calls[d] = <<>> /\ edits[d] = <<>>
        /\ profile[d] = 0 /\ storage = {0} /\ docs[UserDoc] = 0
    BY DEF Init
  <1>2. Range(queue[d]) = {} /\ Range(mainq[d]) = {} /\ Range(calls[d]) = {}
    BY <1>1, RangeOfEmpty
  <1>3. LastScreen(d)
    BY <1>2 DEF LastScreen
  <1>4. MoreLast(queue[d]) /\ MoreLast(mainq[d])
    BY <1>1 DEF MoreLast
  <1>5. Early(d)
    BY <1>1, <1>2, <1>4 DEF Early
  <1> QED BY <1>3, <1>5 DEF PictureAt

LEMMA PictureSafe == ASSUME ~Failures, OneDevice PROVE Spec => [](TypesInv /\ PictureInv)
  <1>1. Init => TypesInv /\ PictureInv
    BY InitTypes, InitPicture
  <1>2. TypesInv /\ PictureInv /\ [Next]_vars => TypesInv' /\ PictureInv'
    BY NextTypes, NextPicture
  <1> QED BY <1>1, <1>2, PTL DEF Spec

\* On one device whose edit screen is neither opened nor left while a save is in
\* flight, and if every call is answered, the account's picture is in Storage
\* whenever nothing is in flight: updateProfileImage deletes the old one before the
\* new one is stored, and saves may overlap.
THEOREM PicturesAreAvailable == ASSUME ~Failures, OneDevice PROVE Spec => []ImageAvailable
  <1>1. ASSUME TypesInv, PictureInv PROVE ImageAvailable
    <2> SUFFICES ASSUME "screen" \notin haste, NEW d \in Devices, Settled(d) PROVE docs[UserDoc] \in storage
      BY DEF ImageAvailable
    <2>1. Early(d) \/ Late(d)
      BY <1>1 DEF PictureInv, PictureAt
    <2> QED BY <1>1, <2>1, SettledAgrees
  <1>2. TypesInv /\ PictureInv => ImageAvailable
    BY <1>1
  <1> QED BY <1>2, PictureSafe, PTL

-----------------------------------------------------------------------------
(* The posts.                                                              *)

LEMMA OnlyOne ==
    ASSUME NEW S, NEW s \in Seq(S), Len(s) = 1
    PROVE  s # <<>> /\ Tail(s) = <<>> /\ Range(s) = {Head(s)}
  <1>1. s # <<>> /\ Tail(s) = <<>>
    <2>1. s # <<>>
      OBVIOUS
    <2>2. Tail(s) \in Seq(S) /\ Len(Tail(s)) = 0
      BY <2>1
    <2>3. Tail(s) = <<>>
      BY <2>2, EmptySeq
    <2> QED BY <2>1, <2>3
  <1> QED BY <1>1, RangeOfTail, RangeOfEmpty

LEMMA FirstOne ==
    ASSUME NEW x
    PROVE  Len(Append(<<>>, x)) = 1 /\ Append(<<>>, x) # <<>> /\ Range(Append(<<>>, x)) = {x}
  <1>1. Append(<<>>, x) = <<x>>
    OBVIOUS
  <1>2. Len(<<x>>) = 1 /\ <<x>> # <<>>
    OBVIOUS
  <1> QED BY <1>1, <1>2, RangeOfOne

LEMMA CutOne ==
    ASSUME NEW S, NEW s \in Seq(S), Len(s) = 1, NEW x
    PROVE  Len(Cut(s, x)) = 1 /\ Range(Cut(s, x)) = {x}
  <1>1. Tail(s) = <<>>
    BY OnlyOne
  <1>2. Cut(s, x) = <<x>>
    <2>1. <<x>> \in Seq({x})
      OBVIOUS
    <2>2. <<x>> \o <<>> = <<x>>
      BY <2>1, ConcatEmptySeq
    <2> QED BY <1>1, <2>2 DEF Cut
  <1> QED BY <1>2, RangeOfOne

\* Calls that upload.
LEMMA UploadCalls ==
    ASSUME NEW c \in EditCalls
    PROVE  c \in AllUploads <=> c.op = "upload"
  BY CallFacts DEF AllUploads

\* Nothing is in flight that was not before.
LEMMA PostsIdle ==
    ASSUME NEW d \in Devices, PostsAt(d), UNCHANGED <<docs, queue, gets, mainq, calls>>,
           edits'[d] # <<>> => Image(d)' = profile'[d]
    PROVE  PostsAt(d)'
  <1>1. AllShow' <=> AllShow
    BY DEF AllShow
  <1>2. AnyUploading(d)' <=> AnyUploading(d)
    BY DEF AnyUploading
  <1>3. Quiet(d)' <=> Quiet(d)
    BY DEF Quiet
  <1>4. OneThing(d)'
    BY <1>2 DEF PostsAt, OneThing, AtMostOne, AllUploads, Uploads
  <1>5. \A w \in Range(queue'[d]) : WriteAgrees(w)'
    BY <1>1 DEF PostsAt, WriteAgrees
  <1>6. \A b \in Range(mainq'[d]) : BlockAgrees(b)'
    BY <1>1 DEF PostsAt, BlockAgrees
  <1> QED BY <1>1, <1>2, <1>3, <1>4, <1>5, <1>6 DEF PostsAt

\* The only thing in flight is, afterwards, the write w, the block b or the read r.
LEMMA OnlyWrite ==
    ASSUME NEW d \in Devices, NEW w, Len(queue'[d]) = 1, queue'[d] # <<>>, Range(queue'[d]) = {w},
           gets'[d] = <<>>, mainq'[d] = <<>>, ~AnyUploading(d)', AtMostOne(calls'[d], AllUploads),
           edits'[d] # <<>> => Image(d)' = profile'[d], WriteAgrees(w)'
    PROVE  PostsAt(d)'
  <1>1. OneThing(d)'
    BY DEF OneThing, AtMostOne, AllUploads, Uploads
  <1>2. Range(gets'[d]) = {} /\ Range(mainq'[d]) = {}
    BY RangeOfEmpty
  <1>3. ~Quiet(d)'
    BY DEF Quiet
  <1> QED BY <1>1, <1>2, <1>3 DEF PostsAt

LEMMA OnlyBlock ==
    ASSUME NEW d \in Devices, NEW b, Len(mainq'[d]) = 1, mainq'[d] # <<>>, Range(mainq'[d]) = {b},
           gets'[d] = <<>>, queue'[d] = <<>>, ~AnyUploading(d)', AtMostOne(calls'[d], AllUploads),
           edits'[d] # <<>> => Image(d)' = profile'[d], BlockAgrees(b)'
    PROVE  PostsAt(d)'
  <1>1. OneThing(d)'
    BY DEF OneThing, AtMostOne, AllUploads, Uploads
  <1>2. Range(gets'[d]) = {} /\ Range(queue'[d]) = {}
    BY RangeOfEmpty
  <1>3. ~Quiet(d)'
    BY DEF Quiet
  <1> QED BY <1>1, <1>2, <1>3 DEF PostsAt

LEMMA OnlyRead ==
    ASSUME NEW d \in Devices, NEW r, Len(gets'[d]) = 1, gets'[d] # <<>>, Range(gets'[d]) = {r},
           mainq'[d] = <<>>, queue'[d] = <<>>, ~AnyUploading(d)', AtMostOne(calls'[d], AllUploads),
           edits'[d] # <<>> => Image(d)' = profile'[d], r.then.img = docs'[UserDoc]
    PROVE  PostsAt(d)'
  <1>1. OneThing(d)'
    BY DEF OneThing, AtMostOne, AllUploads, Uploads
  <1>2. Range(mainq'[d]) = {} /\ Range(queue'[d]) = {}
    BY RangeOfEmpty
  <1>3. ~Quiet(d)'
    BY DEF Quiet
  <1> QED BY <1>1, <1>2, <1>3 DEF PostsAt

\* It is an upload, or there is none.
LEMMA OnlyCalls ==
    ASSUME NEW d \in Devices, mainq'[d] = <<>>, queue'[d] = <<>>, gets'[d] = <<>>, AtMostOne(calls'[d], AllUploads),
           edits'[d] # <<>> => Image(d)' = profile'[d], AnyUploading(d)' \/ AllShow'
    PROVE  PostsAt(d)'
  <1>1. OneThing(d)'
    BY DEF OneThing, AtMostOne, AllUploads, Uploads
  <1>2. Range(mainq'[d]) = {} /\ Range(queue'[d]) = {} /\ Range(gets'[d]) = {}
    BY RangeOfEmpty
  <1> QED BY <1>1, <1>2 DEF PostsAt

\* The one write in flight is answered.
LEMMA AnswerPosts ==
    ASSUME TypesInv, NEW d \in Devices, PostsAt(d), Answer(d, TRUE), UNCHANGED appVars
    PROVE  PostsAt(d)'
  <1>0. TRUE \in BOOLEAN
    OBVIOUS
  <1>1. PICK w \in EditWrites : \E path : AnsweredHead(d, TRUE, w, path)
    BY <1>0, AnswerHead
  <1>2. PICK path : AnsweredHead(d, TRUE, w, path)
    BY <1>1
  <1>3. AnsweredPart(d, TRUE, w, path) /\ queue[d] # <<>> /\ w = Head(queue[d])
    BY <1>2 DEF AnsweredHead
  <1>4. Len(queue[d]) = 1 /\ gets[d] = <<>> /\ mainq[d] = <<>> /\ ~AnyUploading(d) /\ AtMostOne(calls[d], AllUploads)
    BY <1>3 DEF PostsAt, OneThing
  <1>5. queue[d] \in Seq(EditWrites)
    BY FlightFacts
  <1>6. Tail(queue[d]) = <<>> /\ Range(queue[d]) = {w}
    BY <1>3, <1>4, <1>5, OnlyOne
  <1>7. WriteAgrees(w)
    BY <1>6 DEF PostsAt
  <1>8. /\ gets'[d] = <<>> /\ ~AnyUploading(d)' /\ AtMostOne(calls'[d], AllUploads)
        /\ edits'[d] # <<>> => Image(d)' = profile'[d]
    <2>1. gets' = gets /\ calls' = calls /\ edits' = edits /\ profile' = profile
      BY <1>3 DEF AnsweredPart, appVars
    <2> QED BY <1>4, <2>1 DEF AnyUploading, Image, PostsAt
  <1>9. docs \in [EditDocs -> Nat]
    BY DEF TypesInv, StateOK
  <1>10. CASE w \in SaveWrites
    <2>1. docs'[UserDoc] = w.data /\ queue'[d] = <<>>
      BY <1>2, <1>6, <1>10, AnswerSave
    <2>2. PICK b \in SaveBlocks : mainq'[d] = Append(mainq[d], b)
      BY <1>2, <1>10, AnswerSave
    <2>3. Len(mainq'[d]) = 1 /\ mainq'[d] # <<>> /\ Range(mainq'[d]) = {b}
      BY <1>4, <2>2, FirstOne
    <2>4. AllShow /\ w.data = docs[UserDoc]
      BY <1>7, <1>10 DEF WriteAgrees
    <2>5. \A x \in PostDocs : docs'[x] = docs[x]
      <3>1. path = UserDoc
        BY <1>2, <1>10, SaveFacts DEF AnsweredHead
      <3>2. docs' = docs \/ docs' = [docs EXCEPT ![UserDoc] = w.data]
        BY <1>3, <3>1 DEF AnsweredPart
      <3> QED BY <1>9, <3>2, DocFacts
    <2>6. AllShow'
      BY <2>1, <2>4, <2>5 DEF AllShow
    <2>7. b.then.kind = "saved"
      BY BlockFacts
    <2>8. BlockAgrees(b)'
      BY <2>6, <2>7 DEF BlockAgrees
    <2> QED BY <1>8, <2>1, <2>3, <2>8, OnlyBlock
  <1>11. ASSUME NEW i \in Nat, w \in UpdateWrites(i) PROVE PostsAt(d)'
    <2>1. docs'[UserDoc] = i /\ queue'[d] = <<>>
      BY <1>2, <1>6, <1>11, AnswerUpdate
    <2>2. PICK b \in UpdateBlocks(i) : mainq'[d] = Append(mainq[d], b)
      BY <1>2, <1>11, AnswerUpdate
    <2>3. Len(mainq'[d]) = 1 /\ mainq'[d] # <<>> /\ Range(mainq'[d]) = {b}
      BY <1>4, <2>2, FirstOne
    <2>4. b \notin SaveBlocks /\ b.then.img = i
      BY BlocksApart
    <2>5. BlockAgrees(b)'
      BY <2>1, <2>4 DEF BlockAgrees
    <2> QED BY <1>8, <2>1, <2>3, <2>5, OnlyBlock
  <1>12. ASSUME NEW i \in Nat, w \in PostsWrites(i) PROVE PostsAt(d)'
    <2>0. PostAnswered(d, i, w, path)
      BY <1>2, <1>12, AnswerPost
    <2>1. /\ path \in PostDocs /\ docs' = [docs EXCEPT ![path] = i] /\ docs'[UserDoc] = docs[UserDoc] /\ mainq'[d] = <<>>
          /\ queue'[d] = Tail(queue[d]) \/ queue'[d] = Cut(queue[d], Trimmed(w, path))
          /\ w.paths = {path} => queue'[d] = Tail(queue[d])
      BY <1>4, <2>0 DEF PostAnswered
    <2>2. w.data = i /\ w.then = NoThen
      BY <1>12, PostsFacts
    <2>3. i = docs[UserDoc] /\ \A x \in PostDocs \ w.paths : docs[x] = docs[UserDoc]
      BY <1>7, <2>2 DEF WriteAgrees
    <2>4. \A x \in PostDocs : docs'[x] = IF x = path THEN i ELSE docs[x]
      BY <1>9, <2>1, DocFacts
    <2>5. \A x \in PostDocs \ (w.paths \ {path}) : docs'[x] = docs'[UserDoc]
      BY <2>1, <2>3, <2>4
    <2>6. CASE w.paths = {path}
      <3>1. AllShow'
        BY <2>5, <2>6 DEF AllShow
      <3> QED BY <1>6, <1>8, <2>1, <2>6, <3>1, OnlyCalls
    <2>7. CASE w.paths # {path}
      <3>1. PICK x : x = Trimmed(w, path)
        OBVIOUS
      <3>2. queue'[d] = Cut(queue[d], x)
        <4>1. queue'[d] = IF w.paths = {path} THEN Tail(queue[d]) ELSE <<Trimmed(w, path)>> \o Tail(queue[d])
          BY <1>2 DEF AnsweredHead
        <4> QED BY <2>7, <3>1, <4>1 DEF Cut
      <3>3. Len(queue'[d]) = 1 /\ Range(queue'[d]) = {x}
        BY <1>4, <1>5, <3>2, CutOne
      <3>4. queue'[d] # <<>>
        BY <3>3
      <3>5. x.paths = w.paths \ {path} /\ x.data = i /\ x \in PostsWrites(i)
        BY <1>12, <3>1, PostsFacts
      <3>6. x \notin SaveWrites
        BY <3>5, WritesApart
      <3>7. WriteAgrees(x)'
        BY <2>1, <2>3, <2>5, <3>5, <3>6 DEF WriteAgrees
      <3> QED BY <1>8, <2>1, <3>3, <3>4, <3>7, OnlyWrite
    <2> QED BY <2>6, <2>7
  <1> QED BY <1>10, <1>11, <1>12, WriteCases

\* The one read is answered.
LEMMA ResolvePosts ==
    ASSUME TypesInv, NEW d \in Devices, PostsAt(d), NEW k \in DOMAIN gets[d], Resolve(d, k), UNCHANGED appVars
    PROVE  PostsAt(d)'
  <1>1. PICK r \in EditReads : \E b \in FoundBlocks(r.then.img) :
                Resolved(d, r) /\ mainq'[d] = Append(mainq[d], b) /\ Len(gets[d]) = Len(gets'[d]) + 1
    BY ResolveEdit
  <1>2. PICK b \in FoundBlocks(r.then.img) :
                Resolved(d, r) /\ mainq'[d] = Append(mainq[d], b) /\ Len(gets[d]) = Len(gets'[d]) + 1
    BY <1>1
  <1>3. gets[d] # <<>>
    OBVIOUS
  <1>4. Len(gets[d]) = 1 /\ queue[d] = <<>> /\ mainq[d] = <<>> /\ ~AnyUploading(d) /\ AtMostOne(calls[d], AllUploads)
    BY <1>3 DEF PostsAt, OneThing
  <1>5. queue' = queue /\ docs' = docs /\ calls' = calls /\ edits' = edits /\ profile' = profile /\ r \in Range(gets[d])
    BY <1>2 DEF Resolved, appVars
  <1>6. gets'[d] = <<>>
    <2>1. gets' \in QueuesOf(EditReads)
      BY ResolveEdit
    <2>2. gets'[d] \in Seq(EditReads)
      BY <2>1, InQueue
    <2>3. Len(gets'[d]) = 0
      <3>1. Len(gets'[d]) \in Nat
        BY <2>2
      <3>2. 1 = Len(gets'[d]) + 1
        BY <1>2, <1>4
      <3> QED BY <3>1, <3>2
    <2> QED BY <2>2, <2>3, EmptySeq
  <1>7. Len(mainq'[d]) = 1 /\ mainq'[d] # <<>> /\ Range(mainq'[d]) = {b}
    BY <1>2, <1>4, FirstOne
  <1>8. b \notin SaveBlocks /\ b.then.img = r.then.img
    BY ReadFacts, BlocksApart, BlockFacts
  <1>9. r.then.img = docs[UserDoc]
    BY <1>5 DEF PostsAt
  <1>10. BlockAgrees(b)'
    BY <1>5, <1>8, <1>9 DEF BlockAgrees
  <1>11. ~AnyUploading(d)' /\ AtMostOne(calls'[d], AllUploads) /\ (edits'[d] # <<>> => Image(d)' = profile'[d])
    BY <1>4, <1>5 DEF AnyUploading, Image, PostsAt
  <1> QED BY <1>4, <1>5, <1>6, <1>7, <1>10, <1>11, OnlyBlock

LEMMA StoragePosts ==
    ASSUME ~Failures, TypesInv, NEW d \in Devices, PostsAt(d), NEW n \in DOMAIN calls[d], StorageAnswer(d, n)
    PROVE  PostsAt(d)'
  <1>1. PICK c \in EditCalls : StorageMoved(d, n, c)
    BY StorageFacts
  <1>2. /\ queue' = queue /\ edits' = edits /\ docs' = docs /\ gets' = gets /\ profile' = profile
        /\ Range(calls[d]) = {c} \cup Range(calls'[d]) /\ calls'[d] = RemoveAt(calls[d], n) /\ c = calls[d][n]
    BY <1>1 DEF StorageMoved, Removed
  <1>3. calls[d] \in Seq(EditCalls) /\ Range(calls[d]) \subseteq EditCalls
    BY FlightFacts
  <1>4. edits'[d] # <<>> => Image(d)' = profile'[d]
    BY <1>2 DEF PostsAt, Image
  <1>5. /\ AtMostOne(calls'[d], AllUploads)
        /\ c.op = "upload" => ~AnyUploading(d)'
    <2>1. AtMostOne(calls[d], AllUploads)
      BY DEF PostsAt, OneThing
    <2>2. AtMostOne(calls'[d], AllUploads) /\ (c \in AllUploads => \A x \in Range(calls'[d]) : x \notin AllUploads)
      BY <1>2, <1>3, <2>1, FewerRemove DEF Fewer
    <2> QED BY <1>2, <1>3, <2>2, UploadCalls DEF AnyUploading
  <1>6. CASE c.op = "delete" /\ mainq' = mainq
    <2>1. AnyUploading(d)' <=> AnyUploading(d)
      BY <1>2, <1>6 DEF AnyUploading
    <2>2. AllShow' <=> AllShow
      BY <1>2 DEF AllShow
    <2>3. OneThing(d)'
      BY <1>2, <1>5, <1>6, <2>1 DEF PostsAt, OneThing, AtMostOne, AllUploads, Uploads
    <2>4. (\A w \in Range(queue'[d]) : WriteAgrees(w)') /\ (\A b \in Range(mainq'[d]) : BlockAgrees(b)')
      BY <1>2, <1>6, <2>2 DEF PostsAt, WriteAgrees, BlockAgrees
    <2>5. Quiet(d)' <=> Quiet(d)
      BY <1>2, <1>6 DEF Quiet
    <2> QED BY <1>2, <1>4, <2>1, <2>2, <2>3, <2>4, <2>5 DEF PostsAt
  <1>7. ASSUME c.op = "upload", NEW b \in UploadBlocks(c.img), mainq'[d] = Append(mainq[d], b)
        PROVE  PostsAt(d)'
    <2>1. AnyUploading(d)
      BY <1>2, <1>7 DEF AnyUploading
    <2>2. queue[d] = <<>> /\ gets[d] = <<>> /\ mainq[d] = <<>>
      BY <2>1 DEF PostsAt, OneThing
    <2>3. Len(mainq'[d]) = 1 /\ mainq'[d] # <<>> /\ Range(mainq'[d]) = {b}
      BY <1>7, <2>2, FirstOne
    <2>4. b \notin SaveBlocks /\ b.then.kind = "uploaded"
      BY CallFacts, BlocksApart, BlockFacts
    <2>5. BlockAgrees(b)'
      BY <2>4 DEF BlockAgrees
    <2> QED BY <1>2, <1>4, <1>5, <1>7, <2>2, <2>3, <2>5, OnlyBlock
  <1> QED BY <1>1, <1>6, <1>7 DEF StorageMoved

\* An upload starts when nothing else is in flight.
LEMMA StartPosts ==
    ASSUME TypesInv, NEW d \in Devices, AtMostOne(calls[d], AllUploads), ~AnyUploading(d), edits[d] # <<>>,
           Started(d, Len(edits[d])), mainq'[d] = <<>>, queue'[d] = <<>>, gets'[d] = <<>>,
           edits'[d] # <<>> => Image(d)' = profile'[d]
    PROVE  PostsAt(d)'
  <1>1. PICK x \in Deletes(Image(d)) : \E y \in Uploads(uploads + 1) :
          calls'[d] = Append(Append(calls[d], x), y) /\ Range(calls'[d]) = Range(calls[d]) \cup {x, y}
    BY DEF Started, Image
  <1>2. PICK y \in Uploads(uploads + 1) :
          calls'[d] = Append(Append(calls[d], x), y) /\ Range(calls'[d]) = Range(calls[d]) \cup {x, y}
    BY <1>1
  <1>3. Image(d) \in Nat /\ uploads + 1 \in Nat
    <2>1. Len(edits[d]) \in Nat /\ Len(edits[d]) # 0
      BY FlightFacts
    <2>2. Len(edits[d]) \in Ks
      BY <2>1, EditAssumption DEF TypesInv, StateOK, Ks
    <2> QED BY <2>1, <2>2, ScreenFacts DEF Image, TypesInv, StateOK
  <1>4. x \in EditCalls /\ y \in EditCalls /\ x.op = "delete" /\ y.op = "upload" /\ calls[d] \in Seq(EditCalls)
        /\ Range(calls[d]) \subseteq EditCalls
    BY <1>3, CallFacts, FlightFacts
  <1>5. x \notin AllUploads /\ \A c \in Range(calls[d]) : c \notin AllUploads
    BY <1>4, UploadCalls DEF AnyUploading
  <1>a. PICK a : a = Append(calls[d], x)
    OBVIOUS
  <1>6. a \in Seq(EditCalls) /\ Range(a) = Range(calls[d]) \cup {x}
    BY <1>4, <1>a, RangeOfAppend
  <1>7. AtMostOne(a, AllUploads)
    BY <1>4, <1>5, <1>a, OneAppend
  <1>8. AtMostOne(Append(a, y), AllUploads)
    BY <1>4, <1>5, <1>6, <1>7, OneAppend
  <1>9. AnyUploading(d)' /\ AtMostOne(calls'[d], AllUploads)
    BY <1>2, <1>4, <1>8, <1>a DEF AnyUploading
  <1> QED BY <1>9, OnlyCalls

\* The block that runs was the one thing in flight.
LEMMA LastBlock ==
    ASSUME TypesInv, NEW d \in Devices, PostsAt(d), NEW b, HeadTaken(d, b)
    PROVE  /\ mainq'[d] = <<>> /\ queue[d] = <<>> /\ gets[d] = <<>> /\ ~AnyUploading(d) /\ AtMostOne(calls[d], AllUploads)
           /\ BlockAgrees(b) /\ docs' = docs /\ b \in Range(mainq[d])
  <1>1. mainq[d] # <<>> /\ b = Head(mainq[d]) /\ mainq'[d] = Tail(mainq[d]) /\ b \in Range(mainq[d]) /\ docs' = docs
    BY DEF HeadTaken
  <1>2. Len(mainq[d]) = 1 /\ queue[d] = <<>> /\ gets[d] = <<>> /\ ~AnyUploading(d) /\ AtMostOne(calls[d], AllUploads)
    BY <1>1 DEF PostsAt, OneThing
  <1>3. mainq[d] \in Seq(EditBlocks)
    BY FlightFacts
  <1>4. Tail(mainq[d]) = <<>>
    BY <1>2, <1>3, OnlyOne
  <1>5. BlockAgrees(b)
    BY <1>1 DEF PostsAt
  <1> QED BY <1>1, <1>2, <1>4, <1>5

LEMMA savedPosts ==
    ASSUME TypesInv, NEW d \in Devices, LastScreen(d), PostsAt(d), saved(d)
    PROVE  PostsAt(d)'
  <1>1. PICK b \in SaveBlocks : SavedMoved(d, b)
    BY savedFacts
  <1>2. HeadTaken(d, b) /\ b.then.kind = "saved"
    BY <1>1, BlockFacts DEF SavedMoved
  <1>3. /\ mainq'[d] = <<>> /\ queue[d] = <<>> /\ gets[d] = <<>> /\ ~AnyUploading(d) /\ AtMostOne(calls[d], AllUploads)
        /\ BlockAgrees(b) /\ docs' = docs /\ b \in Range(mainq[d])
    BY <1>2, LastBlock
  <1>4. /\ queue'[d] = <<>> /\ gets'[d] = <<>> /\ edits' = edits /\ b.then.k \in Ks /\ b.then.k <= Len(edits[d])
    BY <1>1, <1>3 DEF SavedMoved
  <1>5. b.then.k = Len(edits[d]) /\ edits[d] # <<>>
    <2>1. b.then.k = Len(edits[d])
      BY <1>2, <1>3 DEF LastScreen
    <2>2. b.then.k # 0
      BY <1>4, EditAssumption DEF Ks
    <2> QED BY <2>1, <2>2
  <1>6. Image(d) = profile[d] /\ Image(d)' = Image(d) /\ edits[d][b.then.k].image = Image(d) /\ Image(d) \in Nat
    BY <1>4, <1>5, ScreenFacts DEF PostsAt, Image
  <1>7. CASE b.then.more
    <2>1. Started(d, Len(edits[d])) /\ profile' = profile
      BY <1>1, <1>5, <1>7 DEF SavedMoved
    <2> QED BY <1>3, <1>4, <1>5, <1>6, <2>1, StartPosts
  <1>8. CASE ~b.then.more
    <2>1. calls' = calls /\ wantsToUpdate(d, b.then.k, edits[d][b.then.k].image)
      BY <1>1, <1>8 DEF SavedMoved
    <2>2. profile'[d] = Image(d)
      BY <1>6, <2>1, wantsToUpdateFacts
    <2>3. AllShow'
      BY <1>3 DEF BlockAgrees, AllShow
    <2> QED BY <1>3, <1>4, <1>6, <2>1, <2>2, <2>3, OnlyCalls
  <1> QED BY <1>7, <1>8

LEMMA uploadedPosts ==
    ASSUME TypesInv, NEW d \in Devices, PostsAt(d), uploaded(d)
    PROVE  PostsAt(d)'
  <1>1. PICK i \in Nat : \E b \in UploadBlocks(i) : \E w \in UpdateWrites(i) : UploadedMoved(d, b, w)
    BY uploadedFacts
  <1>2. PICK b \in UploadBlocks(i) : \E w \in UpdateWrites(i) : UploadedMoved(d, b, w)
    BY <1>1
  <1>3. PICK w \in UpdateWrites(i) : UploadedMoved(d, b, w)
    BY <1>2
  <1>4. HeadTaken(d, b)
    BY <1>3 DEF UploadedMoved
  <1>5. /\ mainq'[d] = <<>> /\ queue[d] = <<>> /\ gets[d] = <<>> /\ ~AnyUploading(d) /\ AtMostOne(calls[d], AllUploads)
    BY <1>4, LastBlock
  <1>6. queue'[d] = Append(queue[d], w) /\ gets'[d] = <<>> /\ calls' = calls /\ edits' = edits /\ profile' = profile
    BY <1>3, <1>5 DEF UploadedMoved
  <1>7. Len(queue'[d]) = 1 /\ queue'[d] # <<>> /\ Range(queue'[d]) = {w}
    BY <1>5, <1>6, FirstOne
  <1>8. WriteAgrees(w)'
    BY WritesApart, UpdateFacts DEF WriteAgrees
  <1>9. ~AnyUploading(d)' /\ AtMostOne(calls'[d], AllUploads) /\ (edits'[d] # <<>> => Image(d)' = profile'[d])
    BY <1>5, <1>6 DEF AnyUploading, Image, PostsAt
  <1> QED BY <1>5, <1>6, <1>7, <1>8, <1>9, OnlyWrite

LEMMA updatedPosts ==
    ASSUME TypesInv, NEW d \in Devices, PictureAt(d), PostsAt(d), updated(d)
    PROVE  PostsAt(d)'
  <1>1. PICK i \in Nat : \E b \in UpdateBlocks(i) : UpdatedMoved(d, i, b)
    BY updatedFacts
  <1>2. PICK b \in UpdateBlocks(i) : UpdatedMoved(d, i, b)
    BY <1>1
  <1>3. HeadTaken(d, b) /\ b \notin SaveBlocks /\ IsUpdate(b) /\ b.then.img = i
    BY <1>2, BlocksApart DEF UpdatedMoved
  <1>4. Late(d) /\ LastScreen(d)
    BY <1>3, NotEarly
  <1>5. /\ mainq'[d] = <<>> /\ queue[d] = <<>> /\ gets[d] = <<>> /\ ~AnyUploading(d) /\ AtMostOne(calls[d], AllUploads)
        /\ BlockAgrees(b) /\ docs' = docs /\ b \in Range(mainq[d])
    BY <1>3, LastBlock
  <1>6. b.res /\ b.then.k = Len(edits[d])
    BY <1>3, <1>4, <1>5 DEF Late, LastScreen, IsUpdate
  <1>7. queue'[d] = <<>> /\ calls' = calls /\ b.then.k \in Ks /\ b.then.k <= Len(edits[d])
    BY <1>2, <1>5 DEF UpdatedMoved
  <1>8. gets'[d] = Append(<<>>, PostsRead(i)) /\ wantsToUpdate(d, b.then.k, i)
    BY <1>2, <1>5, <1>6 DEF UpdatedMoved
  <1>9. profile'[d] = i
    BY <1>8, wantsToUpdateFacts
  <1>10. Image(d)' = i
    <2>1. PICK n : n = Len(edits[d])
      OBVIOUS
    <2>2. n \in Ks /\ n \in 1..Len(edits[d]) /\ edits[d][n] \in Screens
      BY <1>6, <1>7, <2>1, ScreenFacts
    <2>3. PICK x : x = [edits[d][n] EXCEPT !.image = i]
      OBVIOUS
    <2>4. x \in Screens /\ x.image = i
      BY <2>2, <2>3 DEF Screens
    <2>5. edits' = [edits EXCEPT ![d] = [edits[d] EXCEPT ![n] = x]]
      BY <1>2, <1>6, <2>1, <2>3 DEF UpdatedMoved
    <2>6. EditedOne(d, n, x)
      BY <2>2, <2>4, <2>5, EditOne
    <2> QED BY <2>1, <2>4, <2>6 DEF EditedOne, Image
  <1>11. Len(gets'[d]) = 1 /\ gets'[d] # <<>> /\ Range(gets'[d]) = {PostsRead(i)}
    BY <1>8, FirstOne
  <1>12. PostsRead(i).then.img = docs'[UserDoc]
    BY <1>3, <1>5, ReadFacts DEF BlockAgrees, IsUpdate
  <1>13. ~AnyUploading(d)' /\ AtMostOne(calls'[d], AllUploads)
    BY <1>5, <1>7 DEF AnyUploading
  <1> QED BY <1>5, <1>7, <1>9, <1>10, <1>11, <1>12, <1>13, OnlyRead

LEMMA foundPostsPosts ==
    ASSUME TypesInv, NEW d \in Devices, PostsAt(d), foundPosts(d)
    PROVE  PostsAt(d)'
  <1>1. PICK i \in Nat : \E b \in FoundBlocks(i) : FoundMoved(d, i, b)
    BY foundPostsFacts
  <1>2. PICK b \in FoundBlocks(i) : FoundMoved(d, i, b)
    BY <1>1
  <1>3. HeadTaken(d, b) /\ b.then.kind = "foundPosts" /\ b.then.img = i
    BY <1>2, BlockFacts DEF FoundMoved
  <1>4. /\ mainq'[d] = <<>> /\ queue[d] = <<>> /\ gets[d] = <<>> /\ ~AnyUploading(d) /\ AtMostOne(calls[d], AllUploads)
        /\ BlockAgrees(b) /\ docs' = docs
    BY <1>3, LastBlock
  <1>5. gets'[d] = <<>> /\ calls' = calls /\ edits' = edits /\ profile' = profile
    BY <1>2, <1>4 DEF FoundMoved
  <1>6. ~AnyUploading(d)' /\ AtMostOne(calls'[d], AllUploads) /\ (edits'[d] # <<>> => Image(d)' = profile'[d])
    BY <1>4, <1>5 DEF AnyUploading, Image, PostsAt
  <1>7. CASE PostDocs = {} /\ queue'[d] = queue[d]
    <2>1. AllShow'
      BY <1>7 DEF AllShow
    <2> QED BY <1>4, <1>5, <1>6, <1>7, <2>1, OnlyCalls
  <1>8. ASSUME NEW w \in PostsWrites(i), w.paths = PostDocs, queue'[d] = Append(queue[d], w) PROVE PostsAt(d)'
    <2>1. Len(queue'[d]) = 1 /\ queue'[d] # <<>> /\ Range(queue'[d]) = {w}
      BY <1>4, <1>8, FirstOne
    <2>2. w \notin SaveWrites /\ w.data = i
      BY WritesApart, PostsFacts
    <2>3. i = docs[UserDoc]
      BY <1>3, <1>4 DEF BlockAgrees
    <2>4. WriteAgrees(w)'
      BY <1>4, <1>8, <2>2, <2>3 DEF WriteAgrees
    <2> QED BY <1>4, <1>5, <1>6, <2>1, <2>4, OnlyWrite
  <1> QED BY <1>2, <1>7, <1>8 DEF FoundMoved

\* Done is tapped when nothing is in flight: a save or an upload is the one thing.
LEMMA DonePosts ==
    ASSUME TypesInv, NEW d \in Devices, PictureAt(d), PostsAt(d), Settled(d), handleDone(d)
    PROVE  PostsAt(d)'
  <1>1. DoneMoved(d)
    BY handleDoneFacts
  <1>2. /\ profile[d] = docs[UserDoc] /\ queue[d] = <<>> /\ gets[d] = <<>> /\ mainq[d] = <<>> /\ calls[d] = <<>>
        /\ Range(calls[d]) = {}
    BY SettledAgrees DEF PictureAt
  <1>3. ~AnyUploading(d) /\ AllShow /\ AtMostOne(calls[d], AllUploads)
    <2>1. ~AnyUploading(d)
      BY <1>2 DEF AnyUploading
    <2> QED BY <2>1 DEF PostsAt, OneThing, Settled
  <1>4. /\ edits' = edits /\ docs' = docs /\ gets' = gets /\ mainq' = mainq /\ profile' = profile
        /\ edits[d] # <<>>
    BY <1>1 DEF DoneMoved
  <1>5. Image(d) = profile[d] /\ Image(d)' = Image(d) /\ edits[d][Len(edits[d])].image = Image(d)
    BY <1>4 DEF PostsAt, Image
  <1>6. CASE Started(d, Len(edits[d])) /\ queue' = queue
    BY <1>2, <1>3, <1>4, <1>5, <1>6, StartPosts
  <1>7. ASSUME calls' = calls, NEW w \in SaveWrites, w.data = edits[d][Len(edits[d])].image,
               queue'[d] = Append(queue[d], w)
        PROVE  PostsAt(d)'
    <2>1. Len(queue'[d]) = 1 /\ queue'[d] # <<>> /\ Range(queue'[d]) = {w}
      BY <1>2, <1>7, FirstOne
    <2>2. AllShow' /\ w.data = docs'[UserDoc]
      BY <1>2, <1>3, <1>4, <1>5, <1>7 DEF AllShow
    <2>4. WriteAgrees(w)'
      BY <2>2 DEF WriteAgrees, AllShow
    <2>5. ~AnyUploading(d)' /\ AtMostOne(calls'[d], AllUploads)
      BY <1>3, <1>7 DEF AnyUploading
    <2> QED BY <1>2, <1>4, <1>5, <2>1, <2>4, <2>5, OnlyWrite
  <1> QED BY <1>1, <1>6, <1>7 DEF DoneMoved

LEMMA TouchPosts ==
    ASSUME TypesInv, NEW d \in Devices, PictureAt(d), PostsAt(d), Touch(d), haste' = {}
    PROVE  PostsAt(d)'
  <1>1. CASE showEditProfileController(d)
    <2>1. ShowMoved(d)
      BY <1>1, showEditProfileControllerFacts
    <2>2. UNCHANGED <<docs, queue, gets, mainq, calls, profile>> /\ edits'[d] = Append(edits[d], Screen(profile[d]))
      BY <2>1 DEF ShowMoved
    <2>3. Image(d)' = profile'[d]
      <3>1. edits[d] \in Seq(Screens)
        BY FlightFacts
      <3>2. edits'[d][Len(edits'[d])] = Screen(profile[d])
        BY <2>2, <3>1
      <3>3. Screen(profile[d]).image = profile[d]
        BY DEF Screen
      <3> QED BY <2>2, <3>2, <3>3 DEF Image
    <2> QED BY <2>2, <2>3, PostsIdle
  <1>2. CASE handleCancel(d)
    <2>1. UNCHANGED <<docs, queue, gets, mainq, calls, profile, edits>>
      BY <1>2 DEF handleCancel
    <2>2. edits'[d] # <<>> => Image(d)' = profile'[d]
      BY <2>1 DEF PostsAt, Image
    <2> QED BY <2>1, <2>2, PostsIdle
  <1>3. CASE didFinishPickingMedia(d) \/ updateUserInfo(d)
    <2>1. MarkMoved(d)
      BY <1>3, MarkFacts
    <2>2. /\ UNCHANGED <<docs, queue, gets, mainq, calls, profile>> /\ edits[d] # <<>>
          /\ Len(edits'[d]) = Len(edits[d])
          /\ \A k \in DOMAIN edits[d] : edits'[d][k].image = edits[d][k].image
      BY <2>1 DEF MarkMoved
    <2>3. Len(edits[d]) \in DOMAIN edits[d]
      BY <2>2, FlightFacts, EmptySeq
    <2>4. Image(d)' = profile'[d]
      BY <2>2, <2>3 DEF PostsAt, Image
    <2> QED BY <2>2, <2>4, PostsIdle
  <1>4. CASE handleDone(d) /\ Remember(d, "done")
    <2>1. Settled(d)
      BY <1>4 DEF Remember
    <2> QED BY <1>4, <2>1, DonePosts
  <1> QED BY <1>1, <1>2, <1>3, <1>4 DEF Touch

LEMMA StepPosts ==
    ASSUME ~Failures, TypesInv, NEW d \in Devices, PictureAt(d), PostsAt(d), Step(d)
    PROVE  PostsAt(d)'
  <1>1. CASE Deliver(d)
    <2>1. UNCHANGED appVars /\ Network(d)
      BY <1>1 DEF Deliver
    <2>2. CASE Answer(d, TRUE)
      BY <2>1, <2>2, AnswerPosts
    <2>3. ASSUME NEW k \in DOMAIN gets[d], Resolve(d, k) PROVE PostsAt(d)'
      BY <2>1, <2>3, ResolvePosts
    <2> QED BY <2>1, <2>2, <2>3 DEF Network, Serve, Fail, Commit, Refuse, Lose
  <1>2. CASE saved(d)
    BY <1>2, savedPosts DEF PictureAt
  <1>3. CASE uploaded(d)
    BY <1>3, uploadedPosts
  <1>4. CASE updated(d)
    BY <1>4, updatedPosts
  <1>5. CASE foundPosts(d)
    BY <1>5, foundPostsPosts
  <1>6. CASE Animate(d)
    <2>1. UNCHANGED <<docs, queue, gets, mainq, calls, profile, edits>>
      BY <1>6 DEF Animate
    <2>2. edits'[d] # <<>> => Image(d)' = profile'[d]
      BY <2>1 DEF PostsAt, Image
    <2> QED BY <2>1, <2>2, PostsIdle
  <1>7. ASSUME NEW i \in DOMAIN calls[d], StorageAnswer(d, i) PROVE PostsAt(d)'
    BY <1>7, StoragePosts
  <1> QED BY <1>1, <1>2, <1>3, <1>4, <1>5, <1>6, <1>7 DEF Step, MainQueue

LEMMA NextPosts ==
    ASSUME ~Failures, OneDevice, TypesInv, PictureInv, PostsInv, [Next]_vars
    PROVE  PostsInv'
  <1> SUFFICES ASSUME haste' = {}, NEW d \in Devices PROVE PostsAt(d)'
    BY DEF PostsInv
  <1>1. CASE UNCHANGED vars
    <2>1. UNCHANGED <<docs, queue, gets, mainq, calls, profile, edits, haste>>
      BY <1>1 DEF vars, appVars
    <2>2. PostsAt(d)
      BY <2>1 DEF PostsInv
    <2>3. edits'[d] # <<>> => Image(d)' = profile'[d]
      BY <2>1, <2>2 DEF PostsAt, Image
    <2> QED BY <2>1, <2>2, <2>3, PostsIdle
  <1>2. ASSUME NEW e \in Devices, Touch(e) \/ (Step(e) /\ UNCHANGED haste) PROVE PostsAt(d)'
    <2>1. e = d
      BY DEF OneDevice
    <2>2. haste = {}
      BY <1>2 DEF Touch, Remember
    <2>3. PictureAt(d) /\ PostsAt(d)
      BY <2>2 DEF PictureInv, PostsInv
    <2>4. CASE Touch(d)
      BY <2>3, <2>4, TouchPosts
    <2>5. CASE Step(d)
      BY <2>3, <2>5, StepPosts
    <2> QED BY <1>2, <2>1, <2>4, <2>5
  <1> QED BY <1>1, <1>2 DEF Next

LEMMA InitPosts ==
    ASSUME Init
    PROVE  PostsInv
  <1> SUFFICES ASSUME NEW d \in Devices PROVE PostsAt(d)
    BY DEF PostsInv
  <1>1. /\ queue[d] = <<>> /\ gets[d] = <<>> /\ mainq[d] = <<>> /\ calls[d] = <<>> /\ edits[d] = <<>>
    BY DEF Init
  <1>2. Range(queue[d]) = {} /\ Range(gets[d]) = {} /\ Range(mainq[d]) = {} /\ Range(calls[d]) = {}
    BY <1>1, RangeOfEmpty
  <1>3. AllShow
    BY DEF Init, AllShow, PostDocs, UserDoc
  <1>4. OneThing(d)
    BY <1>1, <1>2 DEF OneThing, AtMostOne, AnyUploading
  <1> QED BY <1>1, <1>2, <1>3, <1>4 DEF PostsAt

\* On one device, and if every call is answered: whenever nothing is in flight the
\* profile screen shows the account's picture, although the saves that
\* wantsToUpdate follows may overlap (unless the edit screen is opened or left
\* meanwhile); and so do all posts, which updateProfileImage rewrites without
\* anybody waiting, for users who let every touch settle.
THEOREM PicturesMatch == ASSUME ~Failures, OneDevice PROVE Spec => []PicturesAgree
  <1>1. Init => PostsInv
    BY InitPosts
  <1>2. TypesInv /\ PictureInv /\ PostsInv /\ [Next]_vars => PostsInv'
    BY NextPosts
  <1>3. ASSUME TypesInv, PictureInv PROVE ProfileCurrent
    <2> SUFFICES ASSUME "screen" \notin haste, NEW d \in Devices, Settled(d) PROVE profile[d] = docs[UserDoc]
      BY DEF ProfileCurrent
    <2>1. Early(d) \/ Late(d)
      BY <1>3 DEF PictureInv, PictureAt
    <2> QED BY <1>3, <2>1, SettledAgrees
  <1>4. ASSUME PostsInv PROVE PostsShowImage
    <2> SUFFICES ASSUME haste = {}, NEW d \in Devices, Settled(d) PROVE AllShow
      BY DEF PostsShowImage, AllShow
    <2>1. Quiet(d) /\ calls[d] = <<>>
      BY DEF Settled
    <2>2. ~AnyUploading(d)
      BY <2>1, RangeOfEmpty DEF AnyUploading
    <2> QED BY <1>4, <2>1, <2>2 DEF PostsInv, PostsAt
  <1>5. TypesInv /\ PictureInv /\ PostsInv => PicturesAgree
    BY <1>3, <1>4 DEF PicturesAgree
  <1> QED BY <1>1, <1>2, <1>5, PictureSafe, PTL DEF Spec
=============================================================================
