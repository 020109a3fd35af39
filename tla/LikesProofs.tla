----------------------------- MODULE LikesProofs -----------------------------
(***************************************************************************)
(* Proofs about Likes, for every set of devices, users, posts, cells and   *)
(* screens, every bound, with crashes, refused writes and failed reads.    *)
(***************************************************************************)
EXTENDS Likes, FirestoreProofs

-----------------------------------------------------------------------------
(* Facts about numbers and sequences.                                      *)

\* A nonempty set of naturals below n has a greatest element, so the index of
\* the last queued write that View looks for is one of the indices.
LEMMA MaxInSet ==
    ASSUME NEW n \in Nat, NEW S \in SUBSET (0..n), S # {}
    PROVE  Max(S) \in S
  <1> DEFINE R == {ss \in Nat \X Nat : ss[1] < ss[2]}
             T == {n - i : i \in S}
  <1>1. T \subseteq Nat
    OBVIOUS
  <1>2. T # {}
    <2>1. PICK i \in S : TRUE
      OBVIOUS
    <2>2. n - i \in T
      OBVIOUS
    <2> QED BY <2>2
  <1>3. PICK x \in T : \A y \in T : ~(<<y, x>> \in R)
    <2> HIDE DEF T
    <2> QED BY <1>1, <1>2, LessThanWellFounded, WFMin
  <1>4. PICK i \in S : x = n - i
    OBVIOUS
  <1>5. ASSUME NEW j \in S PROVE i >= j
    <2>1. n - j \in T
      OBVIOUS
    <2>2. ~(<<n - j, n - i>> \in R)
      BY <2>1, <1>3, <1>4
    <2> QED BY <2>2
  <1> QED BY <1>5 DEF Max

\* What the queues do to a sequence of well-formed calls: one leaves at the
\* head, or from the middle.
LEMMA HeadTailSeq ==
    ASSUME NEW G, NEW s \in Seq(G), s # <<>>
    PROVE  Tail(s) \in Seq(G) /\ Head(s) \in G
  BY HeadTailProperties

LEMMA SingletonSeq ==
    ASSUME NEW G, NEW x \in G
    PROVE  <<x>> \in Seq(G)
  OBVIOUS

LEMMA RemoveAtSeq ==
    ASSUME NEW G, NEW s \in Seq(G), NEW i \in DOMAIN s
    PROVE  RemoveAt(s, i) \in Seq(G)
  BY DEF RemoveAt

-----------------------------------------------------------------------------
(* Document paths: collections do not overlap.                             *)
LEMMA MarkPaths ==
    /\ \A p \in Posts : PostDoc(p) \in PostDocs /\ PostDoc(p) \in Documents
    /\ \A p \in Posts, u \in Users : PostLike(p, u) \in Marks
    /\ \A p \in Posts, u \in Users : UserLike(u, p) \in Marks /\ UserLike(u, p) \in UserLikes
    /\ \A p \in Posts, u \in Users : LikeNotifications(u, p) \subseteq Marks
    /\ UserLikes \subseteq Marks
  <1>1. \A p \in Posts : PostDoc(p) \in PostDocs /\ PostDoc(p) \in Documents
    BY DEF Documents, PostDocs
  <1>2. \A x \in PostDocs : x[1] = "posts"
    BY DEF PostDocs, PostDoc
  <1>3. ASSUME NEW p \in Posts, NEW u \in Users
        PROVE  PostLike(p, u) \in Marks
    <2>1. PostLike(p, u) \in PostLikes
      <3>1. <<p, u>> \in Posts \X Users
        OBVIOUS
      <3> QED BY <3>1 DEF PostLikes
    <2>2. PostLike(p, u)[1] # "posts"
      BY DEF PostLike
    <2> QED BY <1>2, <2>1, <2>2 DEF Marks, Documents
  <1>4. ASSUME NEW p \in Posts, NEW u \in Users
        PROVE  UserLike(u, p) \in UserLikes
    <2>1. <<u, p>> \in Users \X Posts
      OBVIOUS
    <2> QED BY <2>1 DEF UserLikes
  <1>5. UserLikes \subseteq Marks
    <2>1. \A x \in UserLikes : x[1] # "posts"
      BY DEF UserLikes, UserLike
    <2> QED BY <1>2, <2>1 DEF Marks, Documents
  <1>6. ASSUME NEW p \in Posts, NEW u \in Users
        PROVE  LikeNotifications(u, p) \subseteq Marks
    <2>1. \A x \in LikeNotifications(u, p) : x[1] # "posts"
      BY DEF LikeNotifications, LikeNotification
    <2>2. <<u, p>> \in Users \X Posts
      OBVIOUS
    <2>3. LikeNotifications(u, p) \subseteq Documents
      BY <2>2 DEF Documents
    <2> QED BY <1>2, <2>1, <2>3 DEF Marks
  <1> QED BY <1>1, <1>3, <1>4, <1>5, <1>6

-----------------------------------------------------------------------------
(* The sets of well-formed calls depend on the state through ops and cell. *)
LEMMA SameOps ==
    ASSUME ops' = ops, cell' = cell
    PROVE  /\ Counts' = Counts
           /\ \A d : /\ OpsOf(d)' = OpsOf(d)
                    /\ MarkBlocks(d)' = MarkBlocks(d)
                    /\ WritesOf(d)' = WritesOf(d)
                    /\ BlocksOf(d)' = BlocksOf(d)
  <1>1. Counts' = Counts
    BY DEF Counts
  <1>2. \A d : OpsOf(d)' = OpsOf(d)
    BY DEF OpsOf
  <1>3. \A d : MarkBlocks(d)' = MarkBlocks(d)
    BY <1>2 DEF MarkBlocks
  <1>4. \A d : WritesOf(d)' = WritesOf(d)
    BY <1>1, <1>3 DEF WritesOf
  <1>5. \A d : BlocksOf(d)' = BlocksOf(d)
    <2>1. \A d : MarkAnswers(d)' = MarkAnswers(d)
      BY <1>3 DEF MarkAnswers
    <2>2. \A d : ListAnswers(d)' = ListAnswers(d)
      BY <1>1 DEF ListAnswers
    <2>3. \A d : DetailAnswers(d)' = DetailAnswers(d)
      BY <1>1 DEF DetailAnswers
    <2> QED BY <2>1, <2>2, <2>3 DEF BlocksOf
  <1> QED BY <1>1, <1>2, <1>3, <1>4, <1>5

LEMMA CountType == Cardinality(Users) \in Nat
  BY LikesAssumption, FS_CardinalityType

\* The cells of the screens of d that are bound to a post stay bound to one.
CellsStayBound(d) ==
    \A s \in ScreensOf(d), c \in Cells : cell[s][c].p \in Posts => cell'[s][c].p \in Posts

\* A tap, or binding cells again, only adds to them.
LEMMA MoreOps ==
    ASSUME ops \in Nat, ops' \in {ops, ops + 1}, NEW d, CellsStayBound(d)
    PROVE  /\ Counts \subseteq Counts'
           /\ OpsOf(d) \subseteq OpsOf(d)'
           /\ WritesOf(d) \subseteq WritesOf(d)'
           /\ BlocksOf(d) \subseteq BlocksOf(d)'
           /\ Seq(WritesOf(d)) \subseteq Seq(WritesOf(d)')
           /\ Seq(BlocksOf(d)) \subseteq Seq(BlocksOf(d)')
  <1>1. Counts \subseteq Counts'
    BY CountType DEF Counts
  <1>2. OpsOf(d) \subseteq OpsOf(d)'
    BY CountType DEF OpsOf, CellsStayBound
  <1>3. MarkBlocks(d) \subseteq MarkBlocks(d)'
    BY <1>2 DEF MarkBlocks
  <1>4. WritesOf(d) \subseteq WritesOf(d)'
    BY <1>1, <1>3 DEF WritesOf
  <1>5. BlocksOf(d) \subseteq BlocksOf(d)'
    <2>1. MarkAnswers(d) \subseteq MarkAnswers(d)'
      BY <1>3 DEF MarkAnswers
    <2>2. ListAnswers(d) \subseteq ListAnswers(d)'
      BY <1>1 DEF ListAnswers
    <2>3. ASSUME NEW b \in DetailAnswers(d)
          PROVE  b \in DetailAnswers(d)'
      <3>1. PICK x \in PostDocs : b.res \in [{x} -> Counts \cup {NoDoc}]
        BY DEF DetailAnswers
      <3>2. b.res \in [{x} -> Counts' \cup {NoDoc}]
        BY <1>1, <3>1
      <3> QED BY <3>2 DEF DetailAnswers
    <2> QED BY <2>1, <2>2, <2>3 DEF BlocksOf
  <1> QED BY <1>1, <1>2, <1>4, <1>5, SeqMonotonic

-----------------------------------------------------------------------------
(* What a read returns.                                                    *)
LEMMA ViewType ==
    ASSUME ServerOK, QueuesOK, NEW d \in Devices
    PROVE  /\ \A x \in PostDocs : View(d, x) \in Counts \cup {NoDoc}
           /\ \A x \in Marks : View(d, x) \in {Marked, NoDoc}
  <1> DEFINE q == queue[d]
  <1>1. q \in Seq(WritesOf(d))
    BY DEF QueuesOK
  <1>2. \A i \in DOMAIN q : q[i] \in WritesOf(d)
    BY <1>1
  <1>3. ASSUME NEW S \in SUBSET DOMAIN q, S # {}
        PROVE  Max(S) \in S
    <2>1. Len(q) \in Nat /\ DOMAIN q = 1..Len(q)
      BY <1>1
    <2>2. S \in SUBSET (0..Len(q))
      BY <2>1
    <2> QED BY <2>1, <2>2, <1>3, MaxInSet
  <1>4. ASSUME NEW i \in DOMAIN q, NEW x \in q[i].paths
        PROVE  /\ x \in PostDocs => q[i].data \in Counts
               /\ x \in Marks => q[i].data \in {Marked, NoDoc}
    BY <1>2 DEF WritesOf, Marks
  <1>5. ASSUME NEW x, NEW G,
               docs[x] \in G,
               \A i \in DOMAIN q : x \in q[i].paths => q[i].data \in G
        PROVE  View(d, x) \in G
    <2> DEFINE W == {i \in DOMAIN q : x \in q[i].paths}
               S == {i \in W : ~q[i].upd}
    <2>1. W # {} => Max(W) \in W
      BY <1>3
    <2>2. S # {} => Max(S) \in S
      BY <1>3
    <2>3. View(d, x) = LET base == IF S = {} THEN docs[x] ELSE q[Max(S)].data
                       IN IF W = {} \/ base = NoDoc THEN base ELSE q[Max(W)].data
      BY DEF View
    <2> QED BY <1>5, <2>1, <2>2, <2>3
  <1>6. ASSUME NEW x \in PostDocs PROVE View(d, x) \in Counts \cup {NoDoc}
    <2>1. docs[x] \in Counts \cup {NoDoc}
      BY DEF ServerOK
    <2> QED BY <1>4, <1>5, <2>1
  <1>7. ASSUME NEW x \in Marks PROVE View(d, x) \in {Marked, NoDoc}
    <2>1. docs[x] \in {Marked, NoDoc}
      BY DEF ServerOK
    <2> QED BY <1>4, <1>5, <2>1
  <1> QED BY <1>6, <1>7

-----------------------------------------------------------------------------
(* The network keeps the invariant.                                        *)
LEMMA AnswerOK ==
    ASSUME ServerOK, QueuesOK, NEW d \in Devices, NEW done \in BOOLEAN, Answer(d, done),
           ops' = ops, cell' = cell
    PROVE  ServerOK' /\ QueuesOK'
  <1> DEFINE w == Head(queue[d])
  <1>1. queue[d] \in Seq(WritesOf(d)) /\ queue[d] # <<>>
    BY DEF QueuesOK, Answer
  <1>2. w \in WritesOf(d) /\ Tail(queue[d]) \in Seq(WritesOf(d))
    BY <1>1, HeadTailSeq
  <1>3. PICK path \in w.paths :
           /\ docs' = IF done /\ Accepts(w, path) THEN [docs EXCEPT ![path] = w.data] ELSE docs
           /\ queue' = [queue EXCEPT ![d] =
                 IF w.paths = {path} THEN Tail(@)
                 ELSE <<[w EXCEPT !.paths = @ \ {path}]>> \o Tail(@)]
           /\ mainq' = IF w.then = NoThen THEN mainq
                        ELSE [mainq EXCEPT ![d] = Append(@, [then |-> w.then, res |-> done /\ Accepts(w, path)])]
    BY DEF Answer
  <1>4. gets' = gets
    BY DEF Answer
  <1>5. Counts' = Counts
    BY SameOps
  <1>6. ServerOK'
    <2>1. path \in PostDocs => w.data \in Counts \cup {NoDoc}
      BY <1>2 DEF WritesOf, Marks
    <2>2. path \in Marks => w.data \in {Marked, NoDoc}
      BY <1>2 DEF WritesOf, Marks
    <2>3. DOMAIN docs' = Documents
      BY <1>3 DEF ServerOK
    <2>4. \A x \in Documents : docs'[x] = docs[x] \/ (x = path /\ docs'[x] = w.data)
      BY <1>3 DEF ServerOK
    <2>5. PostDocs \subseteq Documents /\ Marks \subseteq Documents
      BY DEF Documents, Marks
    <2> QED BY <1>5, <2>1, <2>2, <2>3, <2>4, <2>5 DEF ServerOK
  <1>7. [w EXCEPT !.paths = @ \ {path}] \in WritesOf(d)
    BY <1>2 DEF WritesOf
  <1>8. queue'[d] \in Seq(WritesOf(d))
    <2>1. queue'[d] = IF w.paths = {path} THEN Tail(queue[d])
                      ELSE <<[w EXCEPT !.paths = @ \ {path}]>> \o Tail(queue[d])
      BY <1>3 DEF QueuesOK
    <2> QED BY <1>2, <1>7, <2>1
  <1>9. mainq'[d] \in Seq(BlocksOf(d))
    <2>1. w.then # NoThen => [then |-> w.then, res |-> done /\ Accepts(w, path)] \in BlocksOf(d)
      BY <1>2 DEF WritesOf, BlocksOf, MarkAnswers, Accepts
    <2>2. mainq[d] \in Seq(BlocksOf(d))
      BY DEF QueuesOK
    <2>3. mainq'[d] = IF w.then = NoThen THEN mainq[d]
                      ELSE Append(mainq[d], [then |-> w.then, res |-> done /\ Accepts(w, path)])
      BY <1>3 DEF QueuesOK
    <2> QED BY <2>1, <2>2, <2>3
  <1>10. \A e \in Devices : e # d => queue'[e] = queue[e] /\ mainq'[e] = mainq[e]
    BY <1>3 DEF QueuesOK
  <1>11. DOMAIN queue' = Devices /\ DOMAIN mainq' = Devices
    BY <1>3 DEF QueuesOK
  <1>12. QueuesOK'
    BY <1>4, <1>8, <1>9, <1>10, <1>11, SameOps DEF QueuesOK, ReadsOf
  <1> QED BY <1>6, <1>12

\* A read leaves, whole or in part; the rest is well formed.
LEMMA RestOK ==
    ASSUME QueuesOK, NEW d \in Devices, NEW i \in DOMAIN gets[d],
           NEW ps \in Part(gets[d][i]), gets' = Rest(d, i, ps)
    PROVE  /\ DOMAIN gets' = Devices
           /\ \A e \in Devices : gets'[e] \in Seq(ReadsOf(e))
  <1> DEFINE r == gets[d][i]
  <1>1. gets[d] \in Seq(ReadsOf(d)) /\ r \in ReadsOf(d)
    BY DEF QueuesOK
  <1>2. CASE ps = r.paths
    <2>1. gets' = [gets EXCEPT ![d] = RemoveAt(@, i)]
      BY <1>2 DEF Rest
    <2>2. RemoveAt(gets[d], i) \in Seq(ReadsOf(d))
      BY <1>1, RemoveAtSeq
    <2> QED BY <2>1, <2>2 DEF QueuesOK
  <1>3. CASE ps # r.paths
    <2>1. gets' = [gets EXCEPT ![d][i].paths = @ \ ps]
      BY <1>3 DEF Rest
    <2>2. r.each
      BY <1>3 DEF Part
    <2>3. r \in [paths : SUBSET UserLikes, each : {TRUE}, then : CheckBlocks(d)]
      BY <1>1, <2>2 DEF ReadsOf
    <2>4. [r EXCEPT !.paths = @ \ ps] \in ReadsOf(d)
      BY <2>3 DEF ReadsOf
    <2>5. gets'[d] = [gets[d] EXCEPT ![i] = [r EXCEPT !.paths = @ \ ps]]
      BY <2>1 DEF QueuesOK
    <2>6. gets'[d] \in Seq(ReadsOf(d))
      BY <1>1, <2>4, <2>5, ExceptSeq
    <2> QED BY <2>1, <2>6 DEF QueuesOK
  <1> QED BY <1>2, <1>3

LEMMA ResolveOK ==
    ASSUME ServerOK, QueuesOK, NEW d \in Devices, NEW i \in DOMAIN gets[d],
           Resolve(d, i), ops' = ops, cell' = cell
    PROVE  ServerOK' /\ QueuesOK'
  <1> DEFINE r == gets[d][i]
  <1>1. PICK ps \in Part(r) :
           /\ mainq' = [mainq EXCEPT ![d] = Append(@,
                [then |-> r.then, res |-> [path \in ps |-> View(d, path)]])]
           /\ gets' = Rest(d, i, ps)
    BY DEF Resolve
  <1>2. docs' = docs /\ queue' = queue
    BY DEF Resolve
  <1>3. ServerOK'
    BY <1>2, SameOps DEF ServerOK
  <1>4. r \in ReadsOf(d)
    BY DEF QueuesOK
  <1> DEFINE f == [path \in ps |-> View(d, path)]
             b == [then |-> r.then, res |-> f]
  <1>5. b \in BlocksOf(d)
    <2>1. CASE r \in [paths : {PostDocs}, each : {FALSE}, then : ListBlocks(d)]
      <3>1. ps = PostDocs
        BY <2>1 DEF Part
      <3>2. f \in [PostDocs -> Counts \cup {NoDoc}]
        BY <3>1, ViewType
      <3> QED BY <2>1, <3>2 DEF BlocksOf, ListAnswers
    <2>2. CASE r \in {x \in [paths : SUBSET PostDocs, each : {FALSE}, then : DetailBlocks(d)] :
                         x.paths = {PostDoc(x.then.s[2])}}
      <3>1. ps = {PostDoc(r.then.s[2])} /\ PostDoc(r.then.s[2]) \in PostDocs
        BY <2>2 DEF Part
      <3>2. f \in [{PostDoc(r.then.s[2])} -> Counts \cup {NoDoc}]
        BY <3>1, ViewType
      <3>3. f \in UNION {[{x} -> Counts \cup {NoDoc}] : x \in PostDocs}
        BY <3>1, <3>2
      <3>4. DOMAIN f = {PostDoc(r.then.s[2])}
        BY <3>1
      <3> QED BY <2>2, <3>3, <3>4 DEF BlocksOf, DetailAnswers
    <2>3. CASE r \in [paths : SUBSET UserLikes, each : {TRUE}, then : CheckBlocks(d)]
      <3>1. PICK x \in UserLikes : ps = {x}
        BY <2>3 DEF Part
      <3>2. x \in Marks
        BY <3>1, MarkPaths
      <3>3. f \in [{x} -> {Marked, NoDoc}]
        BY <3>1, <3>2, ViewType
      <3> QED BY <2>3, <3>3 DEF BlocksOf, CheckAnswers
    <2>4. CASE r \in {x \in [paths : SUBSET Marks, each : {FALSE}, then : FindBlocks] :
                         x.paths \in {{}, LikeNotifications(x.then.u, x.then.p)}}
      <3>1. ps = r.paths
        BY <2>4 DEF Part
      <3>2. ps \subseteq Marks /\ ps \in {{}, LikeNotifications(r.then.u, r.then.p)}
        BY <2>4, <3>1
      <3>3. f \in [ps -> {Marked, NoDoc}]
        BY <3>2, ViewType
      <3>4. r.then.u \in Users /\ r.then.p \in Posts /\ r.then \in FindBlocks
        BY <2>4 DEF FindBlocks
      <3>5. ps \in {{}} \cup {LikeNotifications(y[1], y[2]) : y \in Users \X Posts}
        <4>1. <<r.then.u, r.then.p>> \in Users \X Posts
          BY <3>4
        <4> QED BY <3>2, <4>1
      <3>6. DOMAIN f = ps
        OBVIOUS
      <3>7. b \in FindAnswers
        BY <3>2, <3>3, <3>4, <3>5, <3>6 DEF FindAnswers
      <3> QED BY <3>7 DEF BlocksOf
    <2> QED BY <1>4, <2>1, <2>2, <2>3, <2>4 DEF ReadsOf
  <1>6. DOMAIN mainq' = Devices /\ \A e \in Devices : mainq'[e] \in Seq(BlocksOf(e))
    <2>1. mainq[d] \in Seq(BlocksOf(d))
      BY DEF QueuesOK
    <2>2. Append(mainq[d], b) \in Seq(BlocksOf(d))
      BY <2>1, <1>5
    <2>3. mainq' = [mainq EXCEPT ![d] = Append(@, b)]
      BY <1>1
    <2> HIDE DEF b
    <2> QED BY <2>2, <2>3 DEF QueuesOK
  <1>7. DOMAIN gets' = Devices /\ \A e \in Devices : gets'[e] \in Seq(ReadsOf(e))
    BY <1>1, RestOK
  <1>8. QueuesOK'
    BY <1>2, <1>6, <1>7, SameOps DEF QueuesOK
  <1> QED BY <1>3, <1>8

LEMMA LoseOK ==
    ASSUME ServerOK, QueuesOK, NEW d \in Devices, NEW i \in DOMAIN gets[d],
           Lose(d, i), ops' = ops, cell' = cell
    PROVE  ServerOK' /\ QueuesOK'
  <1>1. PICK ps \in Part(gets[d][i]) : gets' = Rest(d, i, ps)
    BY DEF Lose
  <1>2. docs' = docs /\ queue' = queue /\ mainq' = mainq
    BY DEF Lose
  <1>3. DOMAIN gets' = Devices /\ \A e \in Devices : gets'[e] \in Seq(ReadsOf(e))
    BY <1>1, RestOK
  <1>4. ServerOK'
    BY <1>2, SameOps DEF ServerOK
  <1>5. QueuesOK'
    BY <1>2, <1>3, SameOps DEF QueuesOK
  <1> QED BY <1>4, <1>5

-----------------------------------------------------------------------------
(* Handlers and completion blocks: what they add to the queues.            *)
LEMMA IssueOK ==
    ASSUME QueuesOK, NEW d \in Devices, NEW ws, NEW rs, Issue(d, ws, rs),
           ops \in Nat, ops' \in {ops, ops + 1},
           \A e \in Devices : CellsStayBound(e),
           ws \in Seq(WritesOf(d)'), rs \in Seq(ReadsOf(d))
    PROVE  QueuesOK'
  <1>1. \A e \in Devices : /\ queue[e] \in Seq(WritesOf(e)')
                           /\ gets[e] \in Seq(ReadsOf(e))
                           /\ mainq[e] \in Seq(BlocksOf(e)')
    BY MoreOps DEF QueuesOK
  <1>2. /\ DOMAIN queue = Devices /\ DOMAIN gets = Devices /\ DOMAIN mainq = Devices
        /\ queue' = [queue EXCEPT ![d] = @ \o ws]
        /\ gets' = [gets EXCEPT ![d] = @ \o rs]
        /\ mainq' = mainq
    BY DEF QueuesOK, Issue
  <1>3. queue[d] \o ws \in Seq(WritesOf(d)') /\ gets[d] \o rs \in Seq(ReadsOf(d))
    BY <1>1, ConcatProperties
  <1> QED BY <1>1, <1>2, <1>3 DEF QueuesOK

LEMMA TakeOK ==
    ASSUME QueuesOK, NEW d \in Devices, NEW ws, NEW rs, Take(d, ws, rs), mainq[d] # <<>>,
           ops \in Nat, ops' = ops,
           \A e \in Devices : CellsStayBound(e),
           ws \in Seq(WritesOf(d)'), rs \in Seq(ReadsOf(d))
    PROVE  QueuesOK'
  <1>1. \A e \in Devices : /\ queue[e] \in Seq(WritesOf(e)')
                           /\ gets[e] \in Seq(ReadsOf(e))
                           /\ mainq[e] \in Seq(BlocksOf(e)')
    BY MoreOps DEF QueuesOK
  <1>2. /\ DOMAIN queue = Devices /\ DOMAIN gets = Devices /\ DOMAIN mainq = Devices
        /\ queue' = [queue EXCEPT ![d] = @ \o ws]
        /\ gets' = [gets EXCEPT ![d] = @ \o rs]
        /\ mainq' = [mainq EXCEPT ![d] = Tail(@)]
    BY DEF QueuesOK, Take
  <1>3. queue[d] \o ws \in Seq(WritesOf(d)') /\ gets[d] \o rs \in Seq(ReadsOf(d))
    BY <1>1, ConcatProperties
  <1>4. Tail(mainq[d]) \in Seq(BlocksOf(d)')
    BY <1>1, HeadTailSeq
  <1> QED BY <1>1, <1>2, <1>3, <1>4 DEF QueuesOK

\* posts = ps and the reload it causes.
LEMMA SetPostsOK ==
    ASSUME ScreensOK, NEW s \in Screens, NEW ps, setPosts(s, ps), ops' = ops,
           DOMAIN ps \subseteq Posts,
           ps \in [DOMAIN ps -> [likes : Counts, didLike : BOOLEAN]]
    PROVE  ScreensOK' /\ \A e : CellsStayBound(e)
  <1>1. Counts' = Counts
    BY DEF Counts
  <1>2. posts' = [posts EXCEPT ![s] = ps]
    BY DEF setPosts
  <1>3. PICK f \in Layouts(Cells, DOMAIN ps, NoPost) :
          cell' = [cell EXCEPT ![s] = [c \in Cells |->
                   IF f[c] = NoPost THEN [cell[s][c] EXCEPT !.shown = FALSE]
                   ELSE ViewModel(ps, f[c])]]
    BY DEF setPosts, reloadData
  <1>4. f \in [Cells -> DOMAIN ps \cup {NoPost}]
    BY DEF Layouts
  <1> DEFINE M == [p : Posts \cup {NoPost}, likes : Counts, didLike : BOOLEAN, shown : BOOLEAN]
  <1>5. cell \in [Screens -> [Cells -> M]]
    BY DEF ScreensOK
  <1>6. ASSUME NEW c \in Cells
        PROVE  /\ cell'[s][c] \in M
               /\ cell'[s][c].shown => cell'[s][c].p \in Posts
               /\ cell[s][c].p \in Posts => cell'[s][c].p \in Posts
    <2>1. cell'[s][c] = IF f[c] = NoPost THEN [cell[s][c] EXCEPT !.shown = FALSE]
                        ELSE ViewModel(ps, f[c])
      BY <1>3, <1>5
    <2>2. cell[s][c] \in M
      BY <1>5
    <2>3. CASE f[c] = NoPost
      BY <2>1, <2>2, <2>3
    <2>4. CASE f[c] # NoPost
      <3>1. f[c] \in Posts /\ ps[f[c]] \in [likes : Counts, didLike : BOOLEAN]
        BY <1>4, <2>4
      <3> QED BY <2>1, <2>4, <3>1 DEF ViewModel
    <2> QED BY <2>3, <2>4
  <1>7. \A t \in Screens : t # s => cell'[t] = cell[t]
    BY <1>3, <1>5
  <1>8. cell' \in [Screens -> [Cells -> M]]
    BY <1>3, <1>5, <1>6
  <1>9. \A t \in Screens, c \in Cells : cell'[t][c].shown => cell'[t][c].p \in Posts
    BY <1>6, <1>7 DEF ScreensOK
  <1>10. \A t \in Screens, c \in Cells : cell[t][c].p \in Posts => cell'[t][c].p \in Posts
    BY <1>6, <1>7
  <1>11. ScreensOK'
    BY <1>1, <1>2, <1>8, <1>9 DEF ScreensOK
  <1> QED BY <1>10, <1>11 DEF CellsStayBound, ScreensOf

-----------------------------------------------------------------------------
(* Facts shared by the actions below.                                      *)
LEMMA ServerStays ==
    ASSUME ServerOK, docs' = docs, ops \in Nat, ops' \in {ops, ops + 1}
    PROVE  ServerOK'
  <1>1. Counts \subseteq Counts'
    BY CountType DEF Counts
  <1> QED BY <1>1 DEF ServerOK

LEMMA ScreensStay ==
    ASSUME ScreensOK, posts' = posts, cell' = cell, ops' = ops
    PROVE  ScreensOK' /\ \A e : CellsStayBound(e)
  <1>1. Counts' = Counts
    BY DEF Counts
  <1> QED BY <1>1 DEF ScreensOK, CellsStayBound

LEMMA OpsNat == LikesInv => ops \in Nat
  BY LikesAssumption DEF LikesInv

\* A screen belongs to a device, on which an account is signed in.
LEMMA ScreenFacts ==
    ASSUME NEW s \in Screens
    PROVE  /\ DeviceOf(s) \in Devices
           /\ s \in ScreensOf(DeviceOf(s))
           /\ UidAt(s) \in Users
           /\ s[2] = Home => s = <<DeviceOf(s), Home>>
           /\ s[2] # Home => s \in Details /\ s[2] \in Posts
  BY LikesAssumption DEF Screens, DeviceOf, ScreensOf, UidAt

LEMMA HomeScreen ==
    ASSUME NEW d \in Devices
    PROVE  <<d, Home>> \in Screens /\ DeviceOf(<<d, Home>>) = d
  BY DEF Screens, DeviceOf

LEMMA NoPostsType ==
    /\ DOMAIN NoPosts = {}
    /\ NoPosts \in [DOMAIN NoPosts -> [likes : Counts, didLike : BOOLEAN]]
  BY DEF NoPosts

\* The reads the code issues are well formed.
LEMMA ReadTypes ==
    ASSUME NEW d \in Devices
    PROVE  /\ <<fetchPosts(<<d, Home>>)>> \in Seq(ReadsOf(d))
           /\ \A s \in ScreensOf(d), X \in SUBSET Posts :
                 checkIfUserLikedPosts(s, X) \in Seq(ReadsOf(d))
           /\ \A s \in Details : DeviceOf(s) = d =>
                 <<getDocument(PostDoc(s[2]), FetchedPost(s))>> \in Seq(ReadsOf(d))
           /\ \A o, u \in Users, p \in Posts : deleteNotification(o, u, p) \in Seq(ReadsOf(d))
  <1>1. fetchPosts(<<d, Home>>) \in ReadsOf(d)
    BY DEF fetchPosts, getDocuments, Read, FetchedPosts, ReadsOf, ListBlocks
  <1>2. ASSUME NEW s \in ScreensOf(d), NEW X \in SUBSET Posts
        PROVE  checkIfUserLikedPosts(s, X) \in Seq(ReadsOf(d))
    <2> DEFINE Y == {UserLike(UidAt(s), p) : p \in X}
    <2>1. UidAt(s) \in Users
      BY ScreenFacts DEF ScreensOf
    <2>2. Y \in SUBSET UserLikes
      BY <2>1, MarkPaths
    <2>3. Read(Y, TRUE, CheckedLike(s)) \in ReadsOf(d)
      BY <2>2 DEF Read, CheckedLike, ReadsOf, CheckBlocks
    <2>4. checkIfUserLikedPosts(s, X) = IF Y = {} THEN <<>> ELSE <<Read(Y, TRUE, CheckedLike(s))>>
      BY DEF checkIfUserLikedPosts, getEach
    <2> HIDE DEF Y
    <2>5. CASE Y = {}
      BY <2>4, <2>5
    <2>6. CASE Y # {}
      BY <2>3, <2>4, <2>6, SingletonSeq
    <2> QED BY <2>5, <2>6
  <1>3. ASSUME NEW s \in Details, DeviceOf(s) = d
        PROVE  getDocument(PostDoc(s[2]), FetchedPost(s)) \in ReadsOf(d)
    <2>1. s[2] \in Posts
      BY LikesAssumption
    <2>2. PostDoc(s[2]) \in PostDocs
      BY <2>1, MarkPaths
    <2> QED BY <1>3, <2>2 DEF getDocument, Read, FetchedPost, ReadsOf, DetailBlocks
  <1>4. ASSUME NEW o \in Users, NEW u \in Users, NEW p \in Posts
        PROVE  deleteNotification(o, u, p) \in Seq(ReadsOf(d))
    <2> DEFINE X == IF OwnerOf[p] = o THEN LikeNotifications(u, p) ELSE {}
    <2>1. X \in SUBSET Marks /\ X \in {{}, LikeNotifications(u, p)}
      BY MarkPaths
    <2>2. Read(X, FALSE, FoundNotifications(u, p)) \in ReadsOf(d)
      <3> HIDE DEF X
      <3> QED BY <2>1 DEF Read, FoundNotifications, ReadsOf, FindBlocks
    <2>3. deleteNotification(o, u, p) = <<Read(X, FALSE, FoundNotifications(u, p))>>
      BY DEF deleteNotification, getDocuments
    <2> HIDE DEF X
    <2> QED BY <2>2, <2>3, SingletonSeq
  <1> QED BY <1>1, <1>2, <1>3, <1>4

-----------------------------------------------------------------------------
(* Touches.                                                                *)
LEMMA CellForItemAtOK ==
    ASSUME LikesInv, NEW s \in Screens, NEW c \in Cells, NEW p \in DOMAIN posts[s],
           cellForItemAt(s, c, p)
    PROVE  LikesInv'
  <1>1. /\ docs' = docs /\ queue' = queue /\ gets' = gets /\ mainq' = mainq
        /\ posts' = posts /\ ops' = ops /\ crashes' = crashes
        /\ cell' = [cell EXCEPT ![s][c] = ViewModel(posts[s], p)]
    BY DEF cellForItemAt
  <1>2. Counts' = Counts
    BY <1>1 DEF Counts
  <1> DEFINE M == [p : Posts \cup {NoPost}, likes : Counts, didLike : BOOLEAN, shown : BOOLEAN]
  <1>3. cell \in [Screens -> [Cells -> M]]
    BY DEF LikesInv, ScreensOK
  <1>4. p \in Posts /\ posts[s][p] \in [likes : Counts, didLike : BOOLEAN]
    BY DEF LikesInv, ScreensOK
  <1>5. ViewModel(posts[s], p) \in M /\ ViewModel(posts[s], p).p = p
    BY <1>4 DEF ViewModel
  <1>6. \A t \in Screens, b \in Cells :
          cell'[t][b] = IF t = s /\ b = c THEN ViewModel(posts[s], p) ELSE cell[t][b]
    BY <1>1, <1>3
  <1>7. ScreensOK'
    <2>1. cell' \in [Screens -> [Cells -> M]]
      BY <1>1, <1>3, <1>5
    <2>2. \A t \in Screens, b \in Cells : cell'[t][b].shown => cell'[t][b].p \in Posts
      BY <1>4, <1>5, <1>6 DEF LikesInv, ScreensOK
    <2> QED BY <1>1, <1>2, <2>1, <2>2 DEF LikesInv, ScreensOK
  <1>8. \A e \in Devices : CellsStayBound(e)
    BY <1>4, <1>5, <1>6 DEF CellsStayBound, ScreensOf
  <1>9. QueuesOK'
    BY <1>1, <1>8, MoreOps, OpsNat DEF LikesInv, QueuesOK
  <1> QED BY <1>1, <1>7, <1>9, ServerStays, OpsNat DEF LikesInv

LEMMA HandleRefreshOK ==
    ASSUME LikesInv, NEW s \in Screens, handleRefresh(s)
    PROVE  LikesInv'
  <1>1. /\ setPosts(s, NoPosts) /\ ops' = ops /\ crashes' = crashes
        /\ s[2] = Home /\ Issue(DeviceOf(s), <<>>, <<fetchPosts(s)>>)
    BY DEF handleRefresh
  <1>2. ScreensOK' /\ \A e : CellsStayBound(e)
    BY <1>1, SetPostsOK, NoPostsType DEF LikesInv
  <1>3. s = <<DeviceOf(s), Home>> /\ DeviceOf(s) \in Devices
    BY <1>1, ScreenFacts
  <1>4. <<fetchPosts(s)>> \in Seq(ReadsOf(DeviceOf(s)))
    BY <1>3, ReadTypes
  <1>5. <<>> \in Seq(WritesOf(DeviceOf(s))')
    OBVIOUS
  <1>6. QueuesOK'
    BY <1>1, <1>2, <1>3, <1>4, <1>5, IssueOK, OpsNat DEF LikesInv
  <1>7. docs' = docs
    BY <1>1 DEF Issue
  <1> QED BY <1>1, <1>2, <1>6, <1>7, ServerStays, OpsNat DEF LikesInv

LEMMA WantsToViewPostOK ==
    ASSUME LikesInv, NEW s \in Screens, wantsToViewPost(s)
    PROVE  LikesInv'
  <1>1. /\ posts' = posts /\ cell' = cell /\ ops' = ops /\ crashes' = crashes /\ s[2] # Home
        /\ Issue(DeviceOf(s), <<>>, <<getDocument(PostDoc(s[2]), FetchedPost(s))>>)
    BY DEF wantsToViewPost
  <1>2. ScreensOK' /\ \A e : CellsStayBound(e)
    BY <1>1, ScreensStay DEF LikesInv
  <1>3. s \in Details /\ DeviceOf(s) \in Devices
    BY <1>1, ScreenFacts
  <1>4. <<getDocument(PostDoc(s[2]), FetchedPost(s))>> \in Seq(ReadsOf(DeviceOf(s)))
    BY <1>3, ReadTypes
  <1>5. <<>> \in Seq(WritesOf(DeviceOf(s))')
    OBVIOUS
  <1>6. QueuesOK'
    BY <1>1, <1>2, <1>3, <1>4, <1>5, IssueOK, OpsNat DEF LikesInv
  <1>7. docs' = docs
    BY <1>1 DEF Issue
  <1> QED BY <1>1, <1>2, <1>6, <1>7, ServerStays, OpsNat DEF LikesInv

LEMMA DidTapLikeOK ==
    ASSUME LikesInv, NEW s \in Screens, NEW c \in Cells, didTapLike(s, c)
    PROVE  LikesInv'
  <1> DEFINE m  == cell[s][c]
             d  == DeviceOf(s)
             op == [s |-> s, c |-> c, p |-> m.p, likes |-> m.likes,
                    like |-> ~m.didLike, n |-> ops + 1]
             ws == IF m.didLike THEN unlikePost(op) ELSE likePost(op)
             M  == [p : Posts \cup {NoPost}, likes : Counts, didLike : BOOLEAN, shown : BOOLEAN]
  <1>1. /\ m.shown /\ ops < MaxOps /\ ops' = ops + 1
        /\ posts' = posts /\ crashes' = crashes
        /\ cell' = [cell EXCEPT ![s][c].didLike = ~@]
        /\ Issue(d, ws, <<>>)
    BY DEF didTapLike
  <1>2. ops \in Nat /\ ops' \in 0..MaxOps
    BY <1>1, LikesAssumption DEF LikesInv
  <1>3. Counts \subseteq Counts'
    BY <1>1, <1>2, CountType DEF Counts
  <1>4. cell \in [Screens -> [Cells -> M]]
    BY DEF LikesInv, ScreensOK
  <1>5. m \in M /\ m.p \in Posts
    BY <1>1, <1>4 DEF LikesInv, ScreensOK
  <1>6. \A t \in Screens, b \in Cells :
          /\ cell'[t][b] \in M
          /\ cell'[t][b].p = cell[t][b].p
          /\ cell'[t][b].shown = cell[t][b].shown
    <2> DEFINE k == [m EXCEPT !.didLike = ~@]
    <2>1. k \in M /\ k.p = m.p /\ k.shown = m.shown
      BY <1>5
    <2>2. cell' = [cell EXCEPT ![s][c] = k]
      BY <1>1
    <2>3. \A t \in Screens, b \in Cells :
            cell'[t][b] = IF t = s /\ b = c THEN k ELSE cell[t][b]
      <3> HIDE DEF k
      <3> QED BY <1>4, <2>2
    <2> HIDE DEF k
    <2> QED BY <1>4, <2>1, <2>3
  <1>7. ScreensOK'
    <2> DEFINE k == [m EXCEPT !.didLike = ~@]
    <2>0. k \in M /\ cell' = [cell EXCEPT ![s][c] = k]
      BY <1>1, <1>5
    <2>1. cell' \in [Screens -> [Cells -> M]]
      <3> HIDE DEF k, M
      <3>1. [cell[s] EXCEPT ![c] = k] \in [Cells -> M]
        BY <1>4, <2>0
      <3>2. cell' = [cell EXCEPT ![s] = [cell[s] EXCEPT ![c] = k]]
        BY <1>4, <2>0
      <3> QED BY <1>4, <3>1, <3>2
    <2>2. cell' \in [Screens -> [Cells ->
            [p : Posts \cup {NoPost}, likes : Counts', didLike : BOOLEAN, shown : BOOLEAN]]]
      BY <1>3, <2>1
    <2> HIDE DEF k
    <2>3. \A t \in Screens, b \in Cells : cell'[t][b].shown => cell'[t][b].p \in Posts
      BY <1>6 DEF LikesInv, ScreensOK
    <2>4. \A t \in Screens :
            /\ DOMAIN posts[t] \subseteq Posts
            /\ posts[t] \in [DOMAIN posts[t] -> [likes : Counts', didLike : BOOLEAN]]
      BY <1>3 DEF LikesInv, ScreensOK
    <2> QED BY <1>1, <2>2, <2>3, <2>4 DEF LikesInv, ScreensOK
  <1>8. \A e \in Devices : CellsStayBound(e)
    BY <1>6 DEF CellsStayBound, ScreensOf
  <1>9. d \in Devices /\ s \in ScreensOf(d) /\ UidAt(s) \in Users
    BY ScreenFacts
  <1>10. (op.like \/ op.likes > 0) => op \in OpsOf(d)'
    <2>1. m.likes \in 0..(Cardinality(Users) + ops)
      BY <1>5 DEF Counts
    <2>2. m.likes \in Nat /\ m.likes < Cardinality(Users) + (ops + 1)
      BY <2>1, <1>2, CountType
    <2>3. ops + 1 \in 1..(ops + 1)
      BY <1>2
    <2>4. cell'[s][c].p \in Posts
      BY <1>5, <1>6
    <2>5. m.didLike \in BOOLEAN
      BY <1>5
    <2> HIDE DEF m, d
    <2>6. op \in [s : ScreensOf(d), c : Cells, p : Posts, likes : Nat, like : BOOLEAN, n : 1..(ops + 1)]
      BY <1>5, <1>9, <2>2, <2>3, <2>5
    <2>7. op.likes < Cardinality(Users) + op.n
      BY <2>2
    <2>8. cell'[op.s][op.c].p \in Posts
      BY <2>4
    <2> HIDE DEF op
    <2> QED BY <1>1, <2>6, <2>7, <2>8 DEF OpsOf
  <1>11. ws \in Seq(WritesOf(d)')
    <2>1. op.p \in Posts /\ UidAt(op.s) \in Users /\ op.likes = m.likes /\ op.like = ~m.didLike
      BY <1>5, <1>9
    <2>2. PostDoc(op.p) \in PostDocs /\ PostLike(op.p, UidAt(op.s)) \in Marks
      BY <2>1, MarkPaths
    <2>3. m.likes \in 0..(Cardinality(Users) + ops)
      BY <1>5 DEF Counts
    <2>4. op.likes + 1 \in Counts' /\ (op.likes > 0 => op.likes - 1 \in Counts')
      <3>1. PICK l, k : l = m.likes /\ k = Cardinality(Users)
        OBVIOUS
      <3>2. k \in Nat /\ ops \in Nat /\ l \in 0..(k + ops)
        BY <1>2, <2>3, <3>1, CountType
      <3>3. l + 1 \in 0..(k + (ops + 1)) /\ (l > 0 => l - 1 \in 0..(k + (ops + 1)))
        BY <3>2
      <3>4. Counts' = 0..(k + (ops + 1))
        BY <1>1, <3>1 DEF Counts
      <3> QED BY <2>1, <3>1, <3>3, <3>4
    <2> HIDE DEF op, m, d
    <2>5. ASSUME op \in OpsOf(d)'
          PROVE  FirstMarkDone(op) \in MarkBlocks(d)'
      BY <2>5 DEF FirstMarkDone, MarkBlocks
    <2>6. CASE m.didLike
      <3>1. CASE op.likes > 0
        <4>1. updateData(PostDoc(op.p), op.likes - 1) \in WritesOf(d)'
          BY <2>2, <2>4, <3>1 DEF updateData, Write, WritesOf
        <4>2. delete(PostLike(op.p, UidAt(op.s)), FirstMarkDone(op)) \in WritesOf(d)'
          BY <1>10, <2>2, <2>5, <3>1 DEF delete, Write, WritesOf
        <4> QED BY <2>6, <3>1, <4>1, <4>2 DEF unlikePost
      <3>2. CASE ~(op.likes > 0)
        BY <2>6, <3>2 DEF unlikePost
      <3> QED BY <3>1, <3>2
    <2>7. CASE ~m.didLike
      <3>1. updateData(PostDoc(op.p), op.likes + 1) \in WritesOf(d)'
        BY <2>2, <2>4 DEF updateData, Write, WritesOf
      <3>2. setData(PostLike(op.p, UidAt(op.s)), Marked, FirstMarkDone(op)) \in WritesOf(d)'
        BY <1>10, <2>1, <2>2, <2>5, <2>7 DEF setData, Write, WritesOf
      <3> QED BY <2>7, <3>1, <3>2 DEF likePost
    <2> QED BY <2>6, <2>7
  <1>12. <<>> \in Seq(ReadsOf(d))
    OBVIOUS
  <1>13. QueuesOK'
    <2> HIDE DEF ws, d
    <2> QED BY <1>1, <1>2, <1>8, <1>9, <1>11, <1>12, IssueOK DEF LikesInv
  <1>14. docs' = docs
    BY <1>1 DEF Issue
  <1> QED BY <1>1, <1>2, <1>7, <1>13, <1>14, ServerStays DEF LikesInv

-----------------------------------------------------------------------------
(* Completion blocks.                                                      *)

\* The kind of the block at the head of the main queue says what it is.
LEMMA DueBlock ==
    ASSUME LikesInv, NEW d \in Devices, NEW kind, Due(d, kind)
    PROVE  /\ mainq[d] # <<>>
           /\ kind = "fetchedPosts" => Head(mainq[d]) \in ListAnswers(d)
           /\ kind = "fetchedPost" => Head(mainq[d]) \in DetailAnswers(d)
           /\ kind = "checkedLike" => Head(mainq[d]) \in CheckAnswers(d)
           /\ kind = "foundNotifications" => Head(mainq[d]) \in FindAnswers
           /\ kind \in {"firstMarkDone", "secondMarkDone"} => Block(d).op \in OpsOf(d)
  <1> DEFINE h == Head(mainq[d])
  <1>1. mainq[d] # <<>> /\ h.then.kind = kind
    BY DEF Due
  <1>2. h \in BlocksOf(d)
    BY <1>1, HeadTailSeq DEF LikesInv, QueuesOK
  <1>3. h \in MarkAnswers(d) => /\ kind \in {"firstMarkDone", "secondMarkDone"}
                                /\ Block(d).op \in OpsOf(d)
    BY <1>1 DEF MarkAnswers, MarkBlocks, Block
  <1>4. h \in ListAnswers(d) => kind = "fetchedPosts"
    BY <1>1 DEF ListAnswers, ListBlocks
  <1>5. h \in DetailAnswers(d) => kind = "fetchedPost"
    BY <1>1 DEF DetailAnswers, DetailBlocks
  <1>6. h \in CheckAnswers(d) => kind = "checkedLike"
    BY <1>1 DEF CheckAnswers, CheckBlocks
  <1>7. h \in FindAnswers => kind = "foundNotifications"
    BY <1>1 DEF FindAnswers, FindBlocks
  <1> HIDE DEF h
  <1>8. \/ h \in MarkAnswers(d) \/ h \in ListAnswers(d) \/ h \in DetailAnswers(d)
        \/ h \in CheckAnswers(d) \/ h \in FindAnswers
    BY <1>2 DEF BlocksOf
  <1> QED BY <1>1, <1>3, <1>4, <1>5, <1>6, <1>7, <1>8 DEF h

LEMMA FetchedPostsOK ==
    ASSUME LikesInv, NEW d \in Devices, fetchedPosts(d)
    PROVE  LikesInv'
  <1> DEFINE s    == Block(d).s
             here == {p \in Posts : Result(d)[PostDoc(p)] # NoDoc}
             ps   == [p \in here |-> Post(Result(d)[PostDoc(p)])]
  <1>1. /\ Due(d, "fetchedPosts") /\ setPosts(s, ps)
        /\ Take(d, <<>>, checkIfUserLikedPosts(s, here))
        /\ ops' = ops /\ crashes' = crashes
    BY DEF fetchedPosts
  <1>2. Head(mainq[d]) \in ListAnswers(d) /\ mainq[d] # <<>>
    BY <1>1, DueBlock
  <1>3. s = <<d, Home>> /\ Result(d) \in [PostDocs -> Counts \cup {NoDoc}]
    BY <1>2 DEF ListAnswers, ListBlocks, Block, Result
  <1>4. s \in Screens /\ s \in ScreensOf(d)
    BY <1>3, HomeScreen DEF ScreensOf
  <1>5. \A p \in here : Result(d)[PostDoc(p)] \in Counts
    BY <1>3, MarkPaths
  <1>6. DOMAIN ps \subseteq Posts /\ ps \in [DOMAIN ps -> [likes : Counts, didLike : BOOLEAN]]
    BY <1>5 DEF Post
  <1>7. checkIfUserLikedPosts(s, here) \in Seq(ReadsOf(d))
    BY <1>4, ReadTypes
  <1> HIDE DEF ps, here, s
  <1>8. ScreensOK' /\ \A e : CellsStayBound(e)
    BY <1>1, <1>4, <1>6, SetPostsOK DEF LikesInv
  <1>9. <<>> \in Seq(WritesOf(d)')
    OBVIOUS
  <1>10. QueuesOK'
    BY <1>1, <1>2, <1>7, <1>8, <1>9, TakeOK, OpsNat DEF LikesInv
  <1>11. docs' = docs
    BY <1>1 DEF Take
  <1> QED BY <1>1, <1>8, <1>10, <1>11, ServerStays, OpsNat DEF LikesInv

LEMMA FetchedPostOK ==
    ASSUME LikesInv, NEW d \in Devices, fetchedPost(d)
    PROVE  LikesInv'
  <1> DEFINE s  == Block(d).s
             v  == Result(d)[PostDoc(s[2])]
             ps == [p \in {s[2]} |-> Post(v)]
  <1>1. /\ Due(d, "fetchedPost") /\ ops' = ops /\ crashes' = crashes
        /\ IF v = NoDoc
           THEN Take(d, <<>>, <<>>) /\ posts' = posts /\ cell' = cell
           ELSE setPosts(s, ps) /\ Take(d, <<>>, checkIfUserLikedPosts(s, {s[2]}))
    BY DEF fetchedPost
  <1>2. Head(mainq[d]) \in DetailAnswers(d) /\ mainq[d] # <<>>
    BY <1>1, DueBlock
  <1>3. s \in Details /\ DeviceOf(s) = d
    BY <1>2 DEF DetailAnswers, DetailBlocks, Block
  <1>4. s[2] \in Posts /\ s \in ScreensOf(d) /\ s \in Screens
    BY <1>3, LikesAssumption DEF Screens, ScreensOf
  <1>5. v \in Counts \cup {NoDoc}
    <2>1. PICK x \in PostDocs : Result(d) \in [{x} -> Counts \cup {NoDoc}]
      BY <1>2 DEF DetailAnswers, Result
    <2>2. DOMAIN Result(d) = {PostDoc(s[2])}
      BY <1>2 DEF DetailAnswers, Result, Block
    <2> QED BY <2>1, <2>2
  <1>6. <<>> \in Seq(WritesOf(d)') /\ <<>> \in Seq(ReadsOf(d))
    OBVIOUS
  <1>7. checkIfUserLikedPosts(s, {s[2]}) \in Seq(ReadsOf(d))
    BY <1>4, ReadTypes
  <1>8. v # NoDoc => /\ DOMAIN ps \subseteq Posts
                     /\ ps \in [DOMAIN ps -> [likes : Counts, didLike : BOOLEAN]]
    BY <1>4, <1>5 DEF Post
  <1> HIDE DEF ps, v, s
  <1>9. ScreensOK' /\ \A e : CellsStayBound(e)
    BY <1>1, <1>4, <1>8, SetPostsOK, ScreensStay DEF LikesInv
  <1>10. QueuesOK'
    <2>1. CASE v = NoDoc
      BY <1>1, <1>2, <1>6, <1>9, <2>1, TakeOK, OpsNat DEF LikesInv
    <2>2. CASE v # NoDoc
      BY <1>1, <1>2, <1>6, <1>7, <1>9, <2>2, TakeOK, OpsNat DEF LikesInv
    <2> QED BY <2>1, <2>2
  <1>11. docs' = docs
    BY <1>1 DEF Take
  <1> QED BY <1>1, <1>9, <1>10, <1>11, ServerStays, OpsNat DEF LikesInv

LEMMA CheckedLikeOK ==
    ASSUME LikesInv, NEW d \in Devices, checkedLike(d)
    PROVE  LikesInv'
  <1> DEFINE s == Block(d).s
  <1>1. /\ Due(d, "checkedLike") /\ ops' = ops /\ crashes' = crashes
        /\ Take(d, <<>>, <<>>)
    BY DEF checkedLike
  <1>2. Head(mainq[d]) \in CheckAnswers(d) /\ mainq[d] # <<>>
    BY <1>1, DueBlock
  <1>3. s \in Screens
    BY <1>2 DEF CheckAnswers, CheckBlocks, Block, ScreensOf
  <1>4. PICK p \in Posts :
          IF p \in DOMAIN posts[s]
          THEN setPosts(s, [posts[s] EXCEPT ![p].didLike = (Result(d)[UserLike(UidAt(s), p)] # NoDoc)])
          ELSE UNCHANGED <<posts, cell>>
    BY DEF checkedLike
  <1>5. ScreensOK' /\ \A e : CellsStayBound(e)
    <2>1. CASE p \in DOMAIN posts[s]
      <3> DEFINE ps == [posts[s] EXCEPT ![p].didLike = (Result(d)[UserLike(UidAt(s), p)] # NoDoc)]
      <3>1. DOMAIN posts[s] \subseteq Posts
        BY <1>3 DEF LikesInv, ScreensOK
      <3>2. posts[s] \in [DOMAIN posts[s] -> [likes : Counts, didLike : BOOLEAN]]
        BY <1>3 DEF LikesInv, ScreensOK
      <3>3. DOMAIN ps = DOMAIN posts[s]
        OBVIOUS
      <3>4. ps \in [DOMAIN ps -> [likes : Counts, didLike : BOOLEAN]]
        BY <2>1, <3>2, <3>3
      <3>5. setPosts(s, ps)
        BY <1>4, <2>1
      <3> HIDE DEF ps, s
      <3> QED BY <1>1, <1>3, <3>1, <3>3, <3>4, <3>5, SetPostsOK DEF LikesInv
    <2>2. CASE p \notin DOMAIN posts[s]
      BY <1>1, <1>4, <2>2, ScreensStay DEF LikesInv
    <2> QED BY <2>1, <2>2
  <1>6. <<>> \in Seq(WritesOf(d)') /\ <<>> \in Seq(ReadsOf(d))
    OBVIOUS
  <1>7. QueuesOK'
    BY <1>1, <1>2, <1>5, <1>6, TakeOK, OpsNat DEF LikesInv
  <1>8. docs' = docs
    BY <1>1 DEF Take
  <1> QED BY <1>1, <1>5, <1>7, <1>8, ServerStays, OpsNat DEF LikesInv

LEMMA FirstMarkDoneOK ==
    ASSUME LikesInv, NEW d \in Devices, firstMarkDone(d)
    PROVE  LikesInv'
  <1> DEFINE op == Block(d).op
  <1>1. /\ Due(d, "firstMarkDone") /\ Take(d, secondMark(op), <<>>)
        /\ posts' = posts /\ cell' = cell /\ ops' = ops /\ crashes' = crashes
    BY DEF firstMarkDone
  <1>2. op \in OpsOf(d) /\ mainq[d] # <<>>
    BY <1>1, DueBlock
  <1> HIDE DEF op
  <1>3. op.p \in Posts /\ UidAt(op.s) \in Users
    BY <1>2, ScreenFacts DEF OpsOf, ScreensOf
  <1>4. UserLike(UidAt(op.s), op.p) \in Marks
    BY <1>3, MarkPaths
  <1>5. SecondMarkDone(op) \in MarkBlocks(d)
    BY <1>2 DEF SecondMarkDone, MarkBlocks
  <1>6. /\ setData(UserLike(UidAt(op.s), op.p), Marked, SecondMarkDone(op)) \in WritesOf(d)
        /\ delete(UserLike(UidAt(op.s), op.p), SecondMarkDone(op)) \in WritesOf(d)
    BY <1>4, <1>5 DEF setData, delete, Write, WritesOf
  <1>7. secondMark(op) \in Seq(WritesOf(d)')
    <2>1. WritesOf(d)' = WritesOf(d)
      BY <1>1, SameOps
    <2>2. secondMark(op) \in Seq(WritesOf(d))
      BY <1>6, SingletonSeq DEF secondMark
    <2> QED BY <2>1, <2>2
  <1>8. ScreensOK' /\ \A e : CellsStayBound(e)
    BY <1>1, ScreensStay DEF LikesInv
  <1>9. <<>> \in Seq(ReadsOf(d))
    OBVIOUS
  <1>10. QueuesOK'
    BY <1>1, <1>2, <1>7, <1>8, <1>9, TakeOK, OpsNat DEF LikesInv
  <1>11. docs' = docs
    BY <1>1 DEF Take
  <1> QED BY <1>1, <1>8, <1>10, <1>11, ServerStays, OpsNat DEF LikesInv

LEMMA SecondMarkDoneOK ==
    ASSUME LikesInv, NEW d \in Devices, secondMarkDone(d)
    PROVE  LikesInv'
  <1> DEFINE op == Block(d).op
             v  == IF op.like THEN op.likes + 1 ELSE op.likes - 1
             ws == IF op.like THEN uploadNotification(op) ELSE <<>>
             rs == IF op.like THEN <<>>
                   ELSE deleteNotification(OwnerOf[op.p], UidAt(op.s), cell[op.s][op.c].p)
             M  == [p : Posts \cup {NoPost}, likes : Counts, didLike : BOOLEAN, shown : BOOLEAN]
  <1>1. /\ Due(d, "secondMarkDone") /\ posts' = posts /\ ops' = ops /\ crashes' = crashes
        /\ cell' = [cell EXCEPT ![op.s][op.c].likes = v]
        /\ Take(d, ws, rs)
    BY DEF secondMarkDone
  <1>2. op \in OpsOf(d) /\ mainq[d] # <<>>
    BY <1>1, DueBlock
  <1>3. Counts' = Counts /\ ops \in Nat
    BY <1>1, OpsNat DEF Counts
  <1> HIDE DEF op
  <1>4. /\ op.s \in Screens /\ op.c \in Cells /\ op.p \in Posts /\ UidAt(op.s) \in Users
        /\ op.n \in 1..ops /\ cell[op.s][op.c].p \in Posts
    BY <1>2, ScreenFacts DEF OpsOf, ScreensOf
  <1>5. v \in Counts
    <2>1. op.likes \in Nat /\ op.likes < Cardinality(Users) + op.n /\ (op.like \/ op.likes > 0)
      BY <1>2 DEF OpsOf
    <2>2. op.likes + 1 \in Counts
      BY <1>3, <1>4, <2>1, CountType DEF Counts
    <2>3. op.likes > 0 => op.likes - 1 \in Counts
      BY <1>3, <1>4, <2>1, CountType DEF Counts
    <2> QED BY <2>1, <2>2, <2>3
  <1>6. cell \in [Screens -> [Cells -> M]]
    BY DEF LikesInv, ScreensOK
  <1>7. \A t \in Screens, b \in Cells :
          /\ cell'[t][b] \in M
          /\ cell'[t][b].p = cell[t][b].p
          /\ cell'[t][b].shown = cell[t][b].shown
    <2> HIDE DEF v
    <2> DEFINE k == [cell[op.s][op.c] EXCEPT !.likes = v]
    <2>1. k \in M /\ k.p = cell[op.s][op.c].p /\ k.shown = cell[op.s][op.c].shown
      BY <1>4, <1>5, <1>6
    <2>2. cell' = [cell EXCEPT ![op.s][op.c] = k]
      BY <1>1
    <2>3. \A t \in Screens, b \in Cells :
            cell'[t][b] = IF t = op.s /\ b = op.c THEN k ELSE cell[t][b]
      <3> HIDE DEF k
      <3> QED BY <1>4, <1>6, <2>2
    <2> HIDE DEF k
    <2> QED BY <1>4, <1>6, <2>1, <2>3
  <1>8. ScreensOK'
    <2>1. cell' \in [Screens -> [Cells -> M]]
      <3> HIDE DEF v
      <3> QED BY <1>1, <1>4, <1>6, <1>7
    <2>2. \A t \in Screens, b \in Cells : cell'[t][b].shown => cell'[t][b].p \in Posts
      BY <1>7 DEF LikesInv, ScreensOK
    <2> QED BY <1>1, <1>3, <2>1, <2>2 DEF LikesInv, ScreensOK
  <1>9. \A e \in Devices : CellsStayBound(e)
    BY <1>7 DEF CellsStayBound, ScreensOf
  <1>10. ws \in Seq(WritesOf(d)')
    <2> DEFINE x == LikeNotification(UidAt(op.s), op.p, op.n)
    <2>1. op.n \in 0..MaxOps
      BY <1>3, <1>4, LikesAssumption DEF LikesInv
    <2>2. x \in Marks
      BY <1>4, <2>1, MarkPaths DEF LikeNotifications
    <2>3. setData(x, Marked, NoThen) \in WritesOf(d)'
      <3> HIDE DEF x
      <3> QED BY <2>2 DEF setData, Write, WritesOf
    <2>4. ws = <<>> \/ ws = <<setData(x, Marked, NoThen)>>
      BY DEF uploadNotification
    <2>5. <<setData(x, Marked, NoThen)>> \in Seq(WritesOf(d)')
      <3> DEFINE y == setData(x, Marked, NoThen)
                 G == WritesOf(d)'
      <3> HIDE DEF y, G
      <3>1. <<y>> \in Seq(G)
        BY <2>3, SingletonSeq DEF y, G
      <3> QED BY <3>1 DEF y, G
    <2>6. <<>> \in Seq(WritesOf(d)')
      OBVIOUS
    <2> HIDE DEF x, ws
    <2> QED BY <2>4, <2>5, <2>6
  <1>11. rs \in Seq(ReadsOf(d))
    <2>1. OwnerOf[op.p] \in Users
      BY <1>4, LikesAssumption
    <2>2. deleteNotification(OwnerOf[op.p], UidAt(op.s), cell[op.s][op.c].p) \in Seq(ReadsOf(d))
      BY <1>4, <2>1, ReadTypes
    <2>3. <<>> \in Seq(ReadsOf(d))
      OBVIOUS
    <2> QED BY <2>2, <2>3
  <1> HIDE DEF ws, rs, v
  <1>12. QueuesOK'
    BY <1>1, <1>2, <1>3, <1>9, <1>10, <1>11, TakeOK DEF LikesInv
  <1>13. docs' = docs
    BY <1>1 DEF Take
  <1> QED BY <1>1, <1>3, <1>8, <1>12, <1>13, ServerStays DEF LikesInv

LEMMA FoundNotificationsOK ==
    ASSUME LikesInv, NEW d \in Devices, foundNotifications(d)
    PROVE  LikesInv'
  <1> DEFINE found == {x \in DOMAIN Result(d) : Result(d)[x] # NoDoc}
             ws    == IF found = {} THEN <<>> ELSE <<deleteAll(found, NoThen)>>
  <1>1. /\ Due(d, "foundNotifications") /\ Take(d, ws, <<>>)
        /\ posts' = posts /\ cell' = cell /\ ops' = ops /\ crashes' = crashes
    BY DEF foundNotifications
  <1>2. Head(mainq[d]) \in FindAnswers /\ mainq[d] # <<>>
    BY <1>1, DueBlock
  <1>3. DOMAIN Result(d) \subseteq Marks
    <2>1. /\ Block(d).u \in Users /\ Block(d).p \in Posts
          /\ DOMAIN Result(d) \in {{}, LikeNotifications(Block(d).u, Block(d).p)}
      BY <1>2 DEF FindAnswers, FindBlocks, Block, Result
    <2> QED BY <2>1, MarkPaths
  <1>4. deleteAll(found, NoThen) \in WritesOf(d)'
    <2>1. found \in SUBSET Marks
      BY <1>3
    <2> HIDE DEF found
    <2> QED BY <2>1 DEF deleteAll, Write, WritesOf
  <1>5. ws \in Seq(WritesOf(d)')
    <2>1. ws = <<>> \/ ws = <<deleteAll(found, NoThen)>>
      OBVIOUS
    <2>2. <<>> \in Seq(WritesOf(d)')
      OBVIOUS
    <2> HIDE DEF ws, found
    <2>3. <<deleteAll(found, NoThen)>> \in Seq(WritesOf(d)')
      BY <1>4, SingletonSeq
    <2> QED BY <2>1, <2>2, <2>3
  <1> HIDE DEF ws
  <1>6. ScreensOK' /\ \A e : CellsStayBound(e)
    BY <1>1, ScreensStay DEF LikesInv
  <1>7. <<>> \in Seq(ReadsOf(d))
    OBVIOUS
  <1>8. QueuesOK'
    BY <1>1, <1>2, <1>5, <1>6, <1>7, TakeOK, OpsNat DEF LikesInv
  <1>9. docs' = docs
    BY <1>1 DEF Take
  <1> QED BY <1>1, <1>6, <1>8, <1>9, ServerStays, OpsNat DEF LikesInv

-----------------------------------------------------------------------------
(* A crash: the screens of the device start anew, the writes it still has  *)
(* to send lose their completion blocks.                                   *)
LEMMA CrashOK ==
    ASSUME LikesInv, NEW d \in Devices, Crash(d)
    PROVE  LikesInv'
  <1>1. /\ crashes < MaxCrashes /\ crashes' = crashes + 1 /\ ops' = ops
        /\ posts' = [s \in Screens |-> IF DeviceOf(s) = d THEN NoPosts ELSE posts[s]]
        /\ cell' = [s \in Screens |-> IF DeviceOf(s) = d THEN [c \in Cells |-> Blank] ELSE cell[s]]
        /\ Restart(d, <<fetchPosts(<<d, Home>>)>>)
    BY DEF Crash
  <1>2. /\ queue' = [queue EXCEPT ![d] = [i \in DOMAIN @ |-> [@[i] EXCEPT !.then = NoThen]]]
        /\ gets' = [gets EXCEPT ![d] = <<fetchPosts(<<d, Home>>)>>]
        /\ mainq' = [mainq EXCEPT ![d] = <<>>]
        /\ docs' = docs
    BY <1>1 DEF Restart
  <1>3. crashes' \in 0..MaxCrashes
    BY <1>1, LikesAssumption DEF LikesInv
  <1>4. Counts' = Counts
    BY <1>1 DEF Counts
  <1> DEFINE M == [p : Posts \cup {NoPost}, likes : Counts, didLike : BOOLEAN, shown : BOOLEAN]
  <1>5. ScreensOK'
    <2>1. 0 \in Counts
      BY CountType, OpsNat DEF Counts
    <2>2. Blank \in M /\ ~Blank.shown
      BY <2>1 DEF Blank
    <2>3. cell \in [Screens -> [Cells -> M]]
      BY DEF LikesInv, ScreensOK
    <2>4. \A s \in Screens, c \in Cells :
            cell'[s][c] = IF DeviceOf(s) = d THEN Blank ELSE cell[s][c]
      BY <1>1
    <2>5. cell' \in [Screens -> [Cells -> M]]
      <3>1. \A s \in Screens : cell'[s] \in [Cells -> M]
        BY <1>1, <2>2, <2>3
      <3> QED BY <1>1, <3>1
    <2>6. \A s \in Screens, c \in Cells : cell'[s][c].shown => cell'[s][c].p \in Posts
      BY <2>2, <2>4 DEF LikesInv, ScreensOK
    <2>7. \A s \in Screens :
            /\ DOMAIN posts'[s] \subseteq Posts
            /\ posts'[s] \in [DOMAIN posts'[s] -> [likes : Counts, didLike : BOOLEAN]]
      BY <1>1, NoPostsType DEF LikesInv, ScreensOK
    <2>8. DOMAIN posts' = Screens
      BY <1>1
    <2> QED BY <1>4, <2>5, <2>6, <2>7, <2>8 DEF ScreensOK
  <1>6. \A e \in Devices : e # d => CellsStayBound(e)
    <2>1. \A s \in Screens : DeviceOf(s) # d => cell'[s] = cell[s]
      BY <1>1
    <2> QED BY <2>1 DEF CellsStayBound, ScreensOf
  <1>7. queue'[d] \in Seq(WritesOf(d)')
    <2> DEFINE q == queue[d]
    <2>1. q \in Seq(WritesOf(d)) /\ queue'[d] = [i \in DOMAIN q |-> [q[i] EXCEPT !.then = NoThen]]
      BY <1>2 DEF LikesInv, QueuesOK
    <2>2. ASSUME NEW w \in WritesOf(d)
          PROVE  [w EXCEPT !.then = NoThen] \in WritesOf(d)'
      <3>1. CASE w \in [paths : SUBSET PostDocs, data : Counts, upd : {TRUE}, then : {NoThen}]
        BY <1>4, <3>1 DEF WritesOf
      <3>2. CASE w \in [paths : SUBSET Marks, data : {Marked, NoDoc}, upd : {FALSE},
                        then : MarkBlocks(d) \cup {NoThen}]
        BY <3>2 DEF WritesOf
      <3> QED BY <3>1, <3>2 DEF WritesOf
    <2>3. Len(q) \in Nat /\ DOMAIN q = 1..Len(q) /\ \A i \in DOMAIN q : q[i] \in WritesOf(d)
      BY <2>1
    <2>4. \A i \in 1..Len(q) : [q[i] EXCEPT !.then = NoThen] \in WritesOf(d)'
      BY <2>2, <2>3
    <2> HIDE DEF q
    <2> QED BY <2>1, <2>3, <2>4, IsASeq
  <1>8. \A e \in Devices : e # d =>
           /\ queue'[e] \in Seq(WritesOf(e)')
           /\ mainq'[e] \in Seq(BlocksOf(e)')
    <2> SUFFICES ASSUME NEW e \in Devices, e # d
                 PROVE  queue'[e] \in Seq(WritesOf(e)') /\ mainq'[e] \in Seq(BlocksOf(e)')
      OBVIOUS
    <2>1. Seq(WritesOf(e)) \subseteq Seq(WritesOf(e)') /\ Seq(BlocksOf(e)) \subseteq Seq(BlocksOf(e)')
      BY <1>1, <1>6, MoreOps, OpsNat
    <2> QED BY <1>2, <2>1 DEF LikesInv, QueuesOK
  <1>9. gets'[d] \in Seq(ReadsOf(d)) /\ mainq'[d] \in Seq(BlocksOf(d)')
    BY <1>2, ReadTypes DEF LikesInv, QueuesOK
  <1>10. QueuesOK'
    BY <1>2, <1>7, <1>8, <1>9 DEF LikesInv, QueuesOK
  <1> QED BY <1>1, <1>2, <1>3, <1>5, <1>10, ServerStays, OpsNat DEF LikesInv

-----------------------------------------------------------------------------
(* The initial states.                                                     *)
LEMMA InitOK == Init => LikesInv
  <1> SUFFICES ASSUME Init PROVE LikesInv
    OBVIOUS
  <1>1. PICK liked \in InitialLikes :
         docs = [x \in Documents |->
            CASE x[1] = "posts"      -> Cardinality({u \in Users : <<x[2], u>> \in liked})
              [] x[1] = "post-likes" -> IF <<x[2], x[3]>> \in liked THEN Marked ELSE NoDoc
              [] x[1] = "user-likes" -> IF <<x[3], x[2]>> \in liked THEN Marked ELSE NoDoc
              [] x[1] = "user-notifications" ->
                   IF <<x[4], x[3]>> \in liked /\ x[2] # x[3] /\ x[5] = 0 THEN Marked ELSE NoDoc]
    BY DEF Init
  <1>2. ops = 0 /\ crashes = 0
    BY DEF Init
  <1>3. ServerOK
    <2>1. ASSUME NEW x \in PostDocs PROVE docs[x] \in Counts
      <3>1. x[1] = "posts" /\ x \in Documents
        BY DEF PostDocs, PostDoc, Documents
      <3>2. docs[x] = Cardinality({u \in Users : <<x[2], u>> \in liked})
        BY <1>1, <3>1
      <3> DEFINE L == {u \in Users : <<x[2], u>> \in liked}
      <3>3. IsFiniteSet(L) /\ Cardinality(L) <= Cardinality(Users)
        BY FS_Subset, LikesAssumption
      <3>4. Cardinality(L) \in Nat
        BY <3>3, FS_CardinalityType
      <3> HIDE DEF L
      <3>5. Cardinality(L) \in 0..(Cardinality(Users) + ops)
        BY <1>2, <3>3, <3>4, CountType
      <3> QED BY <3>2, <3>5 DEF Counts, L
    <2>2. ASSUME NEW x \in Marks PROVE docs[x] \in {Marked, NoDoc}
      <3>1. x \in Documents /\ x[1] \in {"post-likes", "user-likes", "user-notifications"}
        <4>1. x \in PostLikes => x[1] = "post-likes"
          BY DEF PostLikes, PostLike
        <4>2. x \in UserLikes => x[1] = "user-likes"
          BY DEF UserLikes, UserLike
        <4>3. \A u, p : x \in LikeNotifications(u, p) => x[1] = "user-notifications"
          BY DEF LikeNotifications, LikeNotification
        <4> QED BY <4>1, <4>2, <4>3 DEF Marks, Documents
      <3> QED BY <1>1, <3>1
    <2> QED BY <1>1, <2>1, <2>2 DEF ServerOK
  <1>4. QueuesOK
    <2>1. \A d \in Devices : <<fetchPosts(<<d, Home>>)>> \in Seq(ReadsOf(d))
      BY ReadTypes
    <2>2. /\ queue = [d \in Devices |-> <<>>]
          /\ gets  = [d \in Devices |-> <<fetchPosts(<<d, Home>>)>>]
          /\ mainq = [d \in Devices |-> <<>>]
      BY DEF Init
    <2> QED BY <2>1, <2>2 DEF QueuesOK
  <1>5. ScreensOK
    <2>1. 0 \in Counts
      BY <1>2, CountType DEF Counts
    <2>2. Blank \in [p : Posts \cup {NoPost}, likes : Counts, didLike : BOOLEAN, shown : BOOLEAN]
      BY <2>1 DEF Blank
    <2>3. ~Blank.shown
      BY DEF Blank
    <2>4. posts = [s \in Screens |-> NoPosts] /\ cell = [s \in Screens |-> [c \in Cells |-> Blank]]
      BY DEF Init
    <2> QED BY <2>2, <2>3, <2>4, NoPostsType DEF ScreensOK
  <1> QED BY <1>2, <1>3, <1>4, <1>5, LikesAssumption DEF LikesInv

LEMMA NextOK == LikesInv /\ [Next]_vars => LikesInv'
  <1> SUFFICES ASSUME LikesInv, [Next]_vars PROVE LikesInv'
    OBVIOUS
  <1>1. ASSUME NEW s \in Screens, Touch(s) PROVE LikesInv'
    BY <1>1, HandleRefreshOK, WantsToViewPostOK, DidTapLikeOK, CellForItemAtOK DEF Touch
  <1>2. ASSUME NEW d \in Devices, Deliver(d) PROVE LikesInv'
    <2>1. posts' = posts /\ cell' = cell /\ ops' = ops /\ crashes' = crashes /\ Network(d)
      BY <1>2 DEF Deliver
    <2>2. ServerOK' /\ QueuesOK'
      BY <2>1, AnswerOK, ResolveOK, LoseOK DEF LikesInv, Network, Serve, Fail, Commit, Refuse
    <2> QED BY <2>1, <2>2, ScreensStay DEF LikesInv
  <1>3. ASSUME NEW d \in Devices, MainQueue(d) PROVE LikesInv'
    BY <1>3, FetchedPostsOK, FetchedPostOK, CheckedLikeOK, FirstMarkDoneOK,
       SecondMarkDoneOK, FoundNotificationsOK DEF MainQueue
  <1>4. ASSUME NEW d \in Devices, Crash(d) PROVE LikesInv'
    BY <1>4, CrashOK
  <1>5. CASE UNCHANGED vars
    <2>1. /\ docs' = docs /\ queue' = queue /\ gets' = gets /\ mainq' = mainq
          /\ posts' = posts /\ cell' = cell /\ ops' = ops /\ crashes' = crashes
      BY <1>5 DEF vars
    <2>2. QueuesOK'
      BY <2>1, SameOps DEF LikesInv, QueuesOK
    <2> QED BY <2>1, <2>2, ServerStays, ScreensStay, OpsNat DEF LikesInv
  <1> QED BY <1>1, <1>2, <1>3, <1>4, <1>5 DEF Next

-----------------------------------------------------------------------------
\* Every copy of a counter, wherever it is, stays in Counts and every queued
\* call, read and completion block is one the code can issue.
THEOREM LikesInvariant == Spec => []LikesInv
  BY InitOK, NextOK, PTL DEF Spec

\* The variables keep their types.
THEOREM LikesTypeCorrect == Spec => []TypeOK
  <1>1. LikesInv => TypeOK
    <2> SUFFICES ASSUME LikesInv PROVE TypeOK
      OBVIOUS
    <2>1. Counts \subseteq Int
      BY CountType, OpsNat DEF Counts
    <2>2. /\ DOMAIN docs = Documents
          /\ \A p \in Posts : docs[PostDoc(p)] \in Int \cup {NoDoc}
          /\ \A x \in Documents \ PostDocs : docs[x] \in {Marked, NoDoc}
      BY <2>1, MarkPaths DEF LikesInv, ServerOK, Marks
    <2>3. /\ DOMAIN posts = Screens
          /\ \A s \in Screens :
               /\ DOMAIN posts[s] \subseteq Posts
               /\ \A p \in DOMAIN posts[s] : posts[s][p] \in [likes : Int, didLike : BOOLEAN]
      <3>1. [likes : Counts, didLike : BOOLEAN] \subseteq [likes : Int, didLike : BOOLEAN]
        BY <2>1
      <3>2. \A s \in Screens : \A p \in DOMAIN posts[s] :
              posts[s][p] \in [likes : Counts, didLike : BOOLEAN]
        BY DEF LikesInv, ScreensOK
      <3>3. \A s \in Screens : \A p \in DOMAIN posts[s] :
              posts[s][p] \in [likes : Int, didLike : BOOLEAN]
        BY <3>1, <3>2
      <3> QED BY <3>3 DEF LikesInv, ScreensOK
    <2>4. cell \in [Screens -> [Cells ->
            [p : Posts \cup {NoPost}, likes : Int, didLike : BOOLEAN, shown : BOOLEAN]]]
      <3> DEFINE M == [p : Posts \cup {NoPost}, likes : Counts, didLike : BOOLEAN, shown : BOOLEAN]
                 N == [p : Posts \cup {NoPost}, likes : Int, didLike : BOOLEAN, shown : BOOLEAN]
      <3>1. M \subseteq N
        BY <2>1
      <3>2. cell \in [Screens -> [Cells -> M]]
        BY DEF LikesInv, ScreensOK
      <3> HIDE DEF M, N
      <3>3. cell \in [Screens -> [Cells -> N]]
        BY <3>1, <3>2
      <3> QED BY <3>3 DEF N
    <2> QED BY <2>2, <2>3, <2>4 DEF LikesInv, QueuesOK, TypeOK
  <1> QED BY <1>1, LikesInvariant, PTL

\* No order of taps, answers, crashes and failures takes the counter of a post
\* below zero (the guard of unlikePost on a possibly stale copy is enough).
THEOREM LikesNeverNegative == Spec => []LikesNonNegative
  <1>1. LikesInv => LikesNonNegative
    BY MarkPaths, CountType, OpsNat DEF LikesInv, ServerOK, Counts, LikesNonNegative
  <1> QED BY <1>1, LikesInvariant, PTL

\* Nor does it take the counter above the accounts plus the taps.
THEOREM LikesStayBounded == Spec => []LikesBounded
  <1>1. LikesInv => LikesBounded
    BY MarkPaths, CountType, OpsNat DEF LikesInv, ServerOK, Counts, LikesBounded
  <1> QED BY <1>1, LikesInvariant, PTL

\* A completion block of a tap always finds its cell bound to a post.
THEOREM CapturedCellsStayBound == Spec => []CapturedCellsBound
  <1>1. LikesInv => CapturedCellsBound
    <2> SUFFICES ASSUME LikesInv, NEW d \in Devices
                 PROVE  /\ \A i \in DOMAIN queue[d] : queue[d][i].then # NoThen =>
                             cell[queue[d][i].then.op.s][queue[d][i].then.op.c].p \in Posts
                        /\ \A i \in DOMAIN mainq[d] :
                             mainq[d][i].then.kind \in {"firstMarkDone", "secondMarkDone"} =>
                               cell[mainq[d][i].then.op.s][mainq[d][i].then.op.c].p \in Posts
      BY DEF CapturedCellsBound
    <2>1. ASSUME NEW t \in MarkBlocks(d) PROVE cell[t.op.s][t.op.c].p \in Posts
      BY DEF MarkBlocks, OpsOf
    <2>2. ASSUME NEW i \in DOMAIN queue[d], queue[d][i].then # NoThen
          PROVE  queue[d][i].then \in MarkBlocks(d)
      <3>1. queue[d][i] \in WritesOf(d)
        BY DEF LikesInv, QueuesOK
      <3> QED BY <2>2, <3>1 DEF WritesOf
    <2>3. ASSUME NEW i \in DOMAIN mainq[d],
                 mainq[d][i].then.kind \in {"firstMarkDone", "secondMarkDone"}
          PROVE  mainq[d][i].then \in MarkBlocks(d)
      <3> DEFINE b == mainq[d][i]
      <3>1. b \in BlocksOf(d)
        BY DEF LikesInv, QueuesOK
      <3> HIDE DEF b
      <3>2. b.then.kind \in {"firstMarkDone", "secondMarkDone"}
        BY <2>3 DEF b
      <3>3. b \notin ListAnswers(d) /\ b \notin DetailAnswers(d)
        BY <3>2 DEF ListAnswers, ListBlocks, DetailAnswers, DetailBlocks
      <3>4. b \notin CheckAnswers(d) /\ b \notin FindAnswers
        BY <3>2 DEF CheckAnswers, CheckBlocks, FindAnswers, FindBlocks
      <3>5. b \in MarkAnswers(d)
        BY <3>1, <3>3, <3>4 DEF BlocksOf
      <3> QED BY <3>5 DEF MarkAnswers, b
    <2> QED BY <2>1, <2>2, <2>3
  <1> QED BY <1>1, LikesInvariant, PTL

-----------------------------------------------------------------------------
(***************************************************************************)
(* The counter at rest, for one device whose user lets every touch settle. *)
(***************************************************************************)
OneDevice == \A d, e \in Devices : d = e

Notes == UNION {LikeNotifications(x[1], x[2]) : x \in Users \X Posts}
Bit(b) == IF b THEN 1 ELSE 0

\* What the other accounts contribute to the counter of p.
Others(d, p) == Cardinality({v \in Users \ {UidOf[d]} : Liked(p, v)})

\* The counter is right if the account likes p exactly if b; the two marks agree.
Counted(d, p, b) == docs[PostDoc(p)] = Others(d, p) + Bit(b)
Paired(d, p)     == Listed(UidOf[d], p) <=> Liked(p, UidOf[d])
Agreeing(d, p)   == Counted(d, p, Liked(p, UidOf[d])) /\ Paired(d, p)

\* The answer that will tell screen s whether the account likes p is to come.
Pending(d, s, p) ==
    \/ \E r \in Range(gets[d]) : r.then = CheckedLike(s) /\ UserLike(UidOf[d], p) \in r.paths
    \/ \E b \in Range(mainq[d]) : b.then = CheckedLike(s) /\ UserLike(UidOf[d], p) \in DOMAIN b.res

\* A copy x of p on screen s: new, and not checked, or its counter and its heart fit.
CopyFine(d, s, p, x) ==
    /\ Pending(d, s, p) => x.likes = docs[PostDoc(p)]
    /\ ~Pending(d, s, p) => x.likes = Others(d, p) + Bit(x.didLike)

PostsFine(d) == \A s \in ScreensOf(d) : \A p \in DOMAIN posts[s] : CopyFine(d, s, p, posts[s][p])
CellFine(d, s, c) ==
    cell[s][c].shown => cell[s][c].p \in DOMAIN posts[s] /\ CopyFine(d, s, cell[s][c].p, cell[s][c])

\* No tap is in flight: nothing but notifications is written.
IsMark(b) == b.then.kind \in {"firstMarkDone", "secondMarkDone"}
AnswerRight(b) == \A x \in DOMAIN b.res : x \in PostDocs \cup UserLikes => b.res[x] = docs[x]
Free(d) ==
    /\ \A w \in Range(queue[d]) : w.paths \subseteq Notes /\ w.then = NoThen
    /\ \A b \in Range(mainq[d]) : ~IsMark(b) /\ AnswerRight(b)
    /\ \A p \in Posts : Agreeing(d, p)
    /\ \A s \in ScreensOf(d), c \in Cells : CellFine(d, s, c)

\* The tap op is in flight: its writes, and how far it is.
Taps(d) == [s : ScreensOf(d), c : Cells, p : Posts, likes : Nat, like : BOOLEAN, n : Nat]
Count(op) == updateData(PostDoc(op.p), IF op.like THEN op.likes + 1 ELSE op.likes - 1)
First(op) ==
    IF op.like THEN setData(PostLike(op.p, UidAt(op.s)), Marked, FirstMarkDone(op))
    ELSE delete(PostLike(op.p, UidAt(op.s)), FirstMarkDone(op))
Second(op) ==
    IF op.like THEN setData(UserLike(UidAt(op.s), op.p), Marked, SecondMarkDone(op))
    ELSE delete(UserLike(UidAt(op.s), op.p), SecondMarkDone(op))
Done(then) == [then |-> then, res |-> TRUE]

Counting(d, op) ==
    queue[d] = <<Count(op), First(op)>> /\ mainq[d] = <<>> /\ Agreeing(d, op.p)
Liking(d, op) ==
    queue[d] = <<First(op)>> /\ mainq[d] = <<>> /\ Counted(d, op.p, op.like) /\ Paired(d, op.p)
Chaining(d, op) ==
    /\ queue[d] = <<>> /\ mainq[d] = <<Done(FirstMarkDone(op))>>
    /\ Counted(d, op.p, op.like) /\ (Liked(op.p, UidOf[d]) <=> op.like)
Listing(d, op) ==
    /\ queue[d] = <<Second(op)>> /\ mainq[d] = <<>>
    /\ Counted(d, op.p, op.like) /\ (Liked(op.p, UidOf[d]) <=> op.like)
Ending(d, op) ==
    queue[d] = <<>> /\ mainq[d] = <<Done(SecondMarkDone(op))>> /\ Agreeing(d, op.p)

\* Nothing else is; the captured cell has the tap's counter and the new heart.
Captured(op) ==
    LET m == cell[op.s][op.c]
    IN  m.p = op.p /\ m.likes = op.likes /\ m.didLike = op.like /\ m.p \in DOMAIN posts[op.s]
TapFine(d, op) ==
    /\ gets[d] = <<>>
    /\ op.likes = Others(d, op.p) + Bit(~op.like)
    /\ \A p \in Posts \ {op.p} : Agreeing(d, p)
    /\ Captured(op)
    /\ \A s \in ScreensOf(d), c \in Cells : <<s, c>> # <<op.s, op.c>> => CellFine(d, s, c)
Tapping(d, op) ==
    /\ TapFine(d, op)
    /\ Counting(d, op) \/ Liking(d, op) \/ Chaining(d, op) \/ Listing(d, op) \/ Ending(d, op)

ExactAt(d) == PostsFine(d) /\ (Free(d) \/ \E op \in Taps(d) : Tapping(d, op))
ExactInv == ~hasty /\ crashes = 0 => \A d \in Devices : ExactAt(d)

\* Collections do not overlap, and a path names one post and one account.
LEMMA PathsApart ==
    /\ \A p, q \in Posts, u, v \in Users :
          /\ PostDoc(p) = PostDoc(q) => p = q
          /\ PostLike(p, u) = PostLike(q, v) => p = q /\ u = v
          /\ UserLike(u, p) = UserLike(v, q) => p = q /\ u = v
          /\ PostDoc(p) # PostLike(q, v) /\ PostDoc(p) # UserLike(v, q) /\ PostLike(p, u) # UserLike(v, q)
    /\ \A p \in Posts, u \in Users :
          /\ PostDoc(p) \in Documents /\ PostLike(p, u) \in Documents /\ UserLike(u, p) \in Documents
          /\ PostDoc(p) \notin Notes /\ PostLike(p, u) \notin Notes /\ UserLike(u, p) \notin Notes
    /\ Notes \cap PostDocs = {} /\ Notes \cap UserLikes = {}
  <1>1. \A p, q \in Posts, u, v \in Users :
          /\ PostDoc(p) = PostDoc(q) => p = q
          /\ PostLike(p, u) = PostLike(q, v) => p = q /\ u = v
          /\ UserLike(u, p) = UserLike(v, q) => p = q /\ u = v
          /\ PostDoc(p) # PostLike(q, v) /\ PostDoc(p) # UserLike(v, q) /\ PostLike(p, u) # UserLike(v, q)
    BY DEF PostDoc, PostLike, UserLike
  <1>2. \A x \in Notes : x[1] = "user-notifications"
    BY DEF Notes, LikeNotifications, LikeNotification
  <1>3. /\ \A x \in PostDocs : x[1] = "posts"
        /\ \A x \in UserLikes : x[1] = "user-likes"
    BY DEF PostDocs, PostDoc, UserLikes, UserLike
  <1>4. \A p \in Posts, u \in Users : PostDoc(p)[1] = "posts" /\ PostLike(p, u)[1] = "post-likes" /\ UserLike(u, p)[1] = "user-likes"
    BY DEF PostDoc, PostLike, UserLike
  <1>5. \A p \in Posts, u \in Users : PostDoc(p) \in Documents /\ PostLike(p, u) \in Documents /\ UserLike(u, p) \in Documents
    BY MarkPaths DEF Marks
  <1> QED BY <1>1, <1>2, <1>3, <1>4, <1>5

\* The others' likes, as long as their marks are left alone.
LEMMA OthersSame ==
    ASSUME NEW d \in Devices,
           \A p \in Posts, v \in Users \ {UidOf[d]} : docs'[PostLike(p, v)] = docs[PostLike(p, v)]
    PROVE  \A p \in Posts : Others(d, p)' = Others(d, p)
  <1> SUFFICES ASSUME NEW p \in Posts PROVE Others(d, p)' = Others(d, p)
    OBVIOUS
  <1>1. {v \in Users \ {UidOf[d]} : docs'[PostLike(p, v)] # NoDoc} = {v \in Users \ {UidOf[d]} : docs[PostLike(p, v)] # NoDoc}
    OBVIOUS
  <1> QED BY <1>1 DEF Others, Liked

LEMMA OthersNat ==
    ASSUME NEW d \in Devices, NEW p
    PROVE  Others(d, p) \in Nat
  <1>1. IsFiniteSet({v \in Users \ {UidOf[d]} : Liked(p, v)})
    BY LikesAssumption, FS_Subset
  <1> QED BY <1>1, FS_CardinalityType DEF Others

\* All who like p are the others and perhaps the account of d.
LEMMA CountAll ==
    ASSUME NEW d \in Devices, NEW p
    PROVE  Cardinality({u \in Users : Liked(p, u)}) = Others(d, p) + Bit(Liked(p, UidOf[d]))
  <1>1. PICK S : S = {v \in Users \ {UidOf[d]} : Liked(p, v)}
    OBVIOUS
  <1>2. UidOf[d] \in Users
    BY LikesAssumption
  <1>3. IsFiniteSet(S) /\ UidOf[d] \notin S
    BY <1>1, LikesAssumption, FS_Subset
  <1>4. Cardinality(S \cup {UidOf[d]}) = Cardinality(S) + 1
    BY <1>3, FS_AddElement
  <1>5. Cardinality(S) \in Nat /\ Cardinality(S) = Others(d, p)
    BY <1>1, <1>3, FS_CardinalityType DEF Others
  <1>6. CASE Liked(p, UidOf[d])
    <2>1. {u \in Users : Liked(p, u)} = S \cup {UidOf[d]}
      BY <1>1, <1>2, <1>6
    <2> QED BY <1>4, <1>5, <1>6, <2>1 DEF Bit
  <1>7. CASE ~Liked(p, UidOf[d])
    <2>1. {u \in Users : Liked(p, u)} = S
      BY <1>1, <1>2, <1>7
    <2> QED BY <1>5, <1>7, <2>1 DEF Bit
  <1> QED BY <1>6, <1>7

\* Nothing changes but notifications.
LEMMA KeepDocs ==
    ASSUME NEW d \in Devices,
           \A p \in Posts, v \in Users : /\ docs'[PostDoc(p)] = docs[PostDoc(p)]
                                         /\ docs'[PostLike(p, v)] = docs[PostLike(p, v)]
                                         /\ docs'[UserLike(v, p)] = docs[UserLike(v, p)]
    PROVE  \A p \in Posts : /\ Others(d, p)' = Others(d, p)
                            /\ docs'[PostDoc(p)] = docs[PostDoc(p)]
                            /\ Liked(p, UidOf[d])' <=> Liked(p, UidOf[d])
                            /\ Listed(UidOf[d], p)' <=> Listed(UidOf[d], p)
                            /\ Agreeing(d, p)' <=> Agreeing(d, p)
  <1> SUFFICES ASSUME NEW p \in Posts
               PROVE  /\ Others(d, p)' = Others(d, p)
                      /\ docs'[PostDoc(p)] = docs[PostDoc(p)]
                      /\ Liked(p, UidOf[d])' <=> Liked(p, UidOf[d])
                      /\ Listed(UidOf[d], p)' <=> Listed(UidOf[d], p)
                      /\ Agreeing(d, p)' <=> Agreeing(d, p)
    OBVIOUS
  <1>1. UidOf[d] \in Users
    BY LikesAssumption
  <1>2. Others(d, p)' = Others(d, p)
    BY OthersSame
  <1>3. Liked(p, UidOf[d])' <=> Liked(p, UidOf[d])
    BY <1>1 DEF Liked
  <1>4. Listed(UidOf[d], p)' <=> Listed(UidOf[d], p)
    BY <1>1 DEF Listed
  <1>5. docs'[PostDoc(p)] = docs[PostDoc(p)]
    BY <1>1
  <1>6. Counted(d, p, Liked(p, UidOf[d]))' <=> Counted(d, p, Liked(p, UidOf[d]))
    BY <1>2, <1>3, <1>5 DEF Counted, Bit
  <1>7. Paired(d, p)' <=> Paired(d, p)
    BY <1>3, <1>4 DEF Paired
  <1> QED BY <1>2, <1>3, <1>4, <1>5, <1>6, <1>7 DEF Agreeing

\* p is left alone.
LEMMA AgreeingStays ==
    ASSUME NEW d \in Devices, NEW p \in Posts, Others(d, p)' = Others(d, p),
           docs'[PostDoc(p)] = docs[PostDoc(p)],
           docs'[PostLike(p, UidOf[d])] = docs[PostLike(p, UidOf[d])],
           docs'[UserLike(UidOf[d], p)] = docs[UserLike(UidOf[d], p)],
           Agreeing(d, p)
    PROVE  Agreeing(d, p)'
  <1>1. Liked(p, UidOf[d])' <=> Liked(p, UidOf[d])
    BY DEF Liked
  <1>2. Listed(UidOf[d], p)' <=> Listed(UidOf[d], p)
    BY DEF Listed
  <1>3. Counted(d, p, Liked(p, UidOf[d]))'
    BY <1>1 DEF Agreeing, Counted, Bit
  <1>4. Paired(d, p)'
    BY <1>1, <1>2 DEF Agreeing, Paired
  <1> QED BY <1>3, <1>4 DEF Agreeing

\* No check is to come when nothing is read and only marks are told.
LEMMA NonePending ==
    ASSUME NEW d \in Devices, Range(gets[d]) = {}, \A b \in Range(mainq[d]) : IsMark(b)
    PROVE  \A s, p : ~Pending(d, s, p)
  BY DEF Pending, IsMark, CheckedLike

\* What a cell of another screen, or a list, needs to stay right.
LEMMA CopyStays ==
    ASSUME NEW d \in Devices, NEW s, NEW p, NEW x, CopyFine(d, s, p, x),
           Pending(d, s, p)' <=> Pending(d, s, p),
           Others(d, p)' = Others(d, p), Pending(d, s, p) => docs'[PostDoc(p)] = docs[PostDoc(p)]
    PROVE  CopyFine(d, s, p, x)'
  BY DEF CopyFine

\* The lists, and one cell, of a screen stay right.
ScreenStays(d, s) ==
    /\ posts'[s] = posts[s]
    /\ \A p \in DOMAIN posts[s] : /\ Pending(d, s, p)' <=> Pending(d, s, p)
                                  /\ Others(d, p)' = Others(d, p)
                                  /\ Pending(d, s, p) => docs'[PostDoc(p)] = docs[PostDoc(p)]

LEMMA ListStays ==
    ASSUME LikesInv, NEW d \in Devices, NEW s \in ScreensOf(d), ScreenStays(d, s),
           \A p \in DOMAIN posts[s] : CopyFine(d, s, p, posts[s][p])
    PROVE  \A p \in DOMAIN posts'[s] : CopyFine(d, s, p, posts[s][p])'
  <1> SUFFICES ASSUME NEW p \in DOMAIN posts[s] PROVE CopyFine(d, s, p, posts[s][p])'
    BY DEF ScreenStays
  <1>1. p \in Posts
    BY DEF LikesInv, ScreensOK, ScreensOf
  <1>2. PICK x : x = posts[s][p]
    OBVIOUS
  <1>3. CopyFine(d, s, p, x)'
    BY <1>1, <1>2, CopyStays DEF ScreenStays
  <1>4. posts'[s][p] = x
    BY <1>2 DEF ScreenStays
  <1> QED BY <1>3, <1>4 DEF CopyFine

LEMMA CellStays ==
    ASSUME LikesInv, NEW d \in Devices, NEW s \in ScreensOf(d), ScreenStays(d, s), NEW c \in Cells,
           cell'[s][c] = cell[s][c], CellFine(d, s, c)
    PROVE  CellFine(d, s, c)'
  <1> SUFFICES ASSUME cell[s][c].shown PROVE CellFine(d, s, c)'
    BY DEF CellFine
  <1>1. PICK x : x = cell[s][c]
    OBVIOUS
  <1>2. x.p \in DOMAIN posts[s] /\ CopyFine(d, s, x.p, x)
    BY <1>1 DEF CellFine
  <1>3. x.p \in Posts
    BY <1>2 DEF LikesInv, ScreensOK, ScreensOf
  <1>4. CopyFine(d, s, x.p, x)'
    BY <1>2, <1>3, CopyStays DEF ScreenStays
  <1>5. cell'[s][c] = x /\ x.p \in DOMAIN posts'[s]
    BY <1>1, <1>2 DEF ScreenStays
  <1> QED BY <1>4, <1>5 DEF CellFine, CopyFine

\* All screens are left alone.
LEMMA ScreensStayFine ==
    ASSUME LikesInv, NEW d \in Devices, \A s \in ScreensOf(d) : ScreenStays(d, s), cell' = cell, PostsFine(d)
    PROVE  /\ PostsFine(d)'
           /\ \A s \in ScreensOf(d), c \in Cells : CellFine(d, s, c) => CellFine(d, s, c)'
  <1>1. ASSUME NEW s \in ScreensOf(d) PROVE \A p \in DOMAIN posts'[s] : CopyFine(d, s, p, posts[s][p])'
    BY ListStays DEF PostsFine
  <1>2. PostsFine(d)'
    <2>1. ScreensOf(d)' = ScreensOf(d)
      BY DEF ScreensOf
    <2> QED BY <1>1, <2>1 DEF PostsFine
  <1>3. ASSUME NEW s \in ScreensOf(d), NEW c \in Cells, CellFine(d, s, c) PROVE CellFine(d, s, c)'
    BY <1>3, CellStays
  <1> QED BY <1>2, <1>3

-----------------------------------------------------------------------------
(* A tap is in flight.                                                     *)

\* The oldest write w of d is answered by a server that accepts it.
AnswerAt(d, w, path) ==
    /\ docs' = IF Accepts(w, path) THEN [docs EXCEPT ![path] = w.data] ELSE docs
    /\ queue'[d] = IF w.paths = {path} THEN Tail(queue[d]) ELSE <<Trimmed(w, path)>> \o Tail(queue[d])
    /\ mainq'[d] = IF w.then = NoThen THEN mainq[d]
                   ELSE Append(mainq[d], [then |-> w.then, res |-> Accepts(w, path)])
    /\ gets' = gets

LEMMA AnswerHead ==
    ASSUME QueuesOK, NEW d \in Devices, Answer(d, TRUE)
    PROVE  /\ queue[d] # <<>>
           /\ \E path \in Head(queue[d]).paths : AnswerAt(d, Head(queue[d]), path)
  <1>1. PICK w : w = Head(queue[d])
    OBVIOUS
  <1>2. PICK path \in w.paths :
           /\ docs' = IF TRUE /\ Accepts(w, path) THEN [docs EXCEPT ![path] = w.data] ELSE docs
           /\ queue' = [queue EXCEPT ![d] =
                 IF w.paths = {path} THEN Tail(@)
                 ELSE <<[w EXCEPT !.paths = @ \ {path}]>> \o Tail(@)]
           /\ mainq' = IF w.then = NoThen THEN mainq
                        ELSE [mainq EXCEPT ![d] = Append(@, [then |-> w.then, res |-> TRUE /\ Accepts(w, path)])]
    BY <1>1 DEF Answer
  <1>3. queue[d] # <<>> /\ gets' = gets
    BY DEF Answer
  <1>4. DOMAIN queue = Devices /\ DOMAIN mainq = Devices
    BY DEF QueuesOK
  <1>5. docs' = IF Accepts(w, path) THEN [docs EXCEPT ![path] = w.data] ELSE docs
    BY <1>2
  <1>6. queue'[d] = IF w.paths = {path} THEN Tail(queue[d]) ELSE <<Trimmed(w, path)>> \o Tail(queue[d])
    BY <1>2, <1>4 DEF Trimmed
  <1>7. mainq'[d] = IF w.then = NoThen THEN mainq[d]
                    ELSE Append(mainq[d], [then |-> w.then, res |-> Accepts(w, path)])
    <2>1. (TRUE /\ Accepts(w, path)) = Accepts(w, path)
      BY DEF Accepts
    <2> QED BY <1>2, <1>4, <2>1
  <1>8. AnswerAt(d, w, path)
    BY <1>3, <1>5, <1>6, <1>7 DEF AnswerAt
  <1> QED BY <1>1, <1>2, <1>3, <1>8

\* What the writes of a tap are.
LEMMA TapWrites ==
    ASSUME NEW d \in Devices, NEW op \in Taps(d)
    PROVE  /\ op.s \in ScreensOf(d) /\ op.c \in Cells /\ op.p \in Posts /\ op.likes \in Nat /\ op.like \in BOOLEAN
           /\ UidAt(op.s) = UidOf[d] /\ UidOf[d] \in Users
           /\ Count(op).paths = {PostDoc(op.p)} /\ Count(op).upd /\ Count(op).then = NoThen
           /\ Count(op).data = IF op.like THEN op.likes + 1 ELSE op.likes - 1
           /\ First(op).paths = {PostLike(op.p, UidOf[d])} /\ ~First(op).upd /\ First(op).then = FirstMarkDone(op)
           /\ First(op).data # NoDoc <=> op.like
           /\ Second(op).paths = {UserLike(UidOf[d], op.p)} /\ ~Second(op).upd /\ Second(op).then = SecondMarkDone(op)
           /\ Second(op).data # NoDoc <=> op.like
  <1>1. /\ op.s \in ScreensOf(d) /\ op.c \in Cells /\ op.p \in Posts /\ op.likes \in Nat /\ op.like \in BOOLEAN
    BY DEF Taps
  <1>2. UidAt(op.s) = UidOf[d] /\ UidOf[d] \in Users
    BY <1>1, LikesAssumption DEF ScreensOf, UidAt
  <1>3. /\ Count(op).paths = {PostDoc(op.p)} /\ Count(op).upd /\ Count(op).then = NoThen
        /\ Count(op).data = IF op.like THEN op.likes + 1 ELSE op.likes - 1
    BY DEF Count, updateData, Write
  <1>4. /\ First(op).paths = {PostLike(op.p, UidOf[d])} /\ ~First(op).upd /\ First(op).then = FirstMarkDone(op)
        /\ First(op).data # NoDoc <=> op.like
    BY <1>1, <1>2, LikesAssumption DEF First, setData, delete, Write
  <1>5. /\ Second(op).paths = {UserLike(UidOf[d], op.p)} /\ ~Second(op).upd /\ Second(op).then = SecondMarkDone(op)
        /\ Second(op).data # NoDoc <=> op.like
    BY <1>1, <1>2, LikesAssumption DEF Second, setData, delete, Write
  <1> QED BY <1>1, <1>2, <1>3, <1>4, <1>5

\* The completion block of a mark is not the absence of one.
LEMMA BlockNotEmpty ==
    ASSUME NEW d \in Devices, NEW op \in Taps(d)
    PROVE  FirstMarkDone(op) # NoThen /\ SecondMarkDone(op) # NoThen
  <1>1. op \in [s : Screens, c : Cells, p : Posts, likes : Nat, like : BOOLEAN, n : Nat]
    BY DEF Taps, ScreensOf
  <1>2. NoThen \notin [kind : {"firstMarkDone", "secondMarkDone"},
                      op : [s : Screens, c : Cells, p : Posts, likes : Nat, like : BOOLEAN, n : Nat]]
    BY LikesAssumption
  <1> QED BY <1>1, <1>2 DEF FirstMarkDone, SecondMarkDone

\* Only documents of the tapped post change, and nothing on the screens.
LEMMA TapKeeps ==
    ASSUME LikesInv, NEW d \in Devices, NEW op \in Taps(d), PostsFine(d), TapFine(d, op),
           posts' = posts, cell' = cell, gets'[d] = gets[d],
           \A b \in Range(mainq[d]) : IsMark(b), \A b \in Range(mainq'[d]) : IsMark(b),
           \A p \in Posts, v \in Users \ {UidOf[d]} : docs'[PostLike(p, v)] = docs[PostLike(p, v)],
           \A p \in Posts \ {op.p} : /\ docs'[PostDoc(p)] = docs[PostDoc(p)]
                                     /\ docs'[PostLike(p, UidOf[d])] = docs[PostLike(p, UidOf[d])]
                                     /\ docs'[UserLike(UidOf[d], p)] = docs[UserLike(UidOf[d], p)]
    PROVE  PostsFine(d)' /\ TapFine(d, op)' /\ Others(d, op.p)' = Others(d, op.p)
  <1>1. \A p \in Posts : Others(d, p)' = Others(d, p)
    BY OthersSame
  <1>2. gets[d] = <<>> /\ gets'[d] = <<>> /\ Range(gets[d]) = {} /\ Range(gets'[d]) = {}
    BY RangeOfEmpty DEF TapFine
  <1>3. \A s, p : ~Pending(d, s, p) /\ ~Pending(d, s, p)'
    BY <1>2 DEF Pending, IsMark, CheckedLike
  <1>4. \A s \in ScreensOf(d) : ScreenStays(d, s)
    <2>1. \A s \in ScreensOf(d) : DOMAIN posts[s] \subseteq Posts
      BY DEF LikesInv, ScreensOK, ScreensOf
    <2> QED BY <1>1, <1>3, <2>1 DEF ScreenStays
  <1>5. PostsFine(d)' /\ \A s \in ScreensOf(d), c \in Cells : CellFine(d, s, c) => CellFine(d, s, c)'
    BY <1>4, ScreensStayFine
  <1>6. \A p \in Posts \ {op.p} : Agreeing(d, p)'
    BY <1>1, AgreeingStays DEF TapFine
  <1>7. Captured(op)'
    BY DEF TapFine, Captured
  <1>8. op.p \in Posts
    BY TapWrites
  <1>9. op.likes = Others(d, op.p)' + Bit(~op.like)
    BY <1>1, <1>8 DEF TapFine
  <1>10. ScreensOf(d)' = ScreensOf(d)
    BY DEF ScreensOf
  <1> QED BY <1>1, <1>2, <1>5, <1>6, <1>7, <1>8, <1>9, <1>10 DEF TapFine

\* The counter is written.
LEMMA CountAnswered ==
    ASSUME LikesInv, NEW d \in Devices, NEW op \in Taps(d), PostsFine(d), TapFine(d, op), Counting(d, op),
           Answer(d, TRUE), posts' = posts, cell' = cell
    PROVE  PostsFine(d)' /\ Tapping(d, op)'
  <1>1. queue[d] = <<Count(op), First(op)>> /\ mainq[d] = <<>> /\ Agreeing(d, op.p)
    BY DEF Counting
  <1>2. Head(queue[d]) = Count(op) /\ Tail(queue[d]) = <<First(op)>>
    BY <1>1
  <1>3. PICK path \in Count(op).paths : AnswerAt(d, Count(op), path)
    BY <1>2, AnswerHead DEF LikesInv
  <1>4. path = PostDoc(op.p) /\ op.p \in Posts /\ UidOf[d] \in Users
    BY TapWrites
  <1>5. Accepts(Count(op), path)
    <2>1. docs[path] \in Int
      BY <1>1, <1>4, OthersNat DEF Agreeing, Counted, Bit
    <2> QED BY <2>1, LikesAssumption DEF Accepts
  <1>6. docs' = [docs EXCEPT ![path] = Count(op).data] /\ gets' = gets
    BY <1>3, <1>5 DEF AnswerAt
  <1>7. queue'[d] = <<First(op)>>
    BY <1>2, <1>3, <1>4, TapWrites DEF AnswerAt
  <1>8. mainq'[d] = <<>>
    BY <1>1, <1>3, TapWrites DEF AnswerAt
  <1>9. \A x \in Documents : x # path => docs'[x] = docs[x]
    BY <1>6 DEF LikesInv, ServerOK
  <1>10. docs'[PostDoc(op.p)] = Count(op).data
    BY <1>4, <1>6, PathsApart DEF LikesInv, ServerOK
  <1>11. /\ \A p \in Posts, v \in Users : /\ docs'[PostLike(p, v)] = docs[PostLike(p, v)]
                                          /\ docs'[UserLike(v, p)] = docs[UserLike(v, p)]
         /\ \A p \in Posts \ {op.p} : docs'[PostDoc(p)] = docs[PostDoc(p)]
    BY <1>4, <1>9, PathsApart
  <1>12. PostsFine(d)' /\ TapFine(d, op)' /\ Others(d, op.p)' = Others(d, op.p)
    <2>1. Range(mainq[d]) = {} /\ Range(mainq'[d]) = {}
      BY <1>1, <1>8, RangeOfEmpty
    <2> QED BY <1>4, <1>6, <1>11, <2>1, TapKeeps
  <1>13. Counted(d, op.p, op.like)'
    <2>1. op.likes = Others(d, op.p) + Bit(~op.like) /\ Others(d, op.p) \in Nat /\ op.like \in BOOLEAN
      BY TapWrites, OthersNat DEF TapFine
    <2>2. Count(op).data = IF op.like THEN op.likes + 1 ELSE op.likes - 1
      BY TapWrites
    <2>3. Count(op).data = Others(d, op.p) + Bit(op.like)
      BY <2>1, <2>2 DEF Bit
    <2> QED BY <1>10, <1>12, <2>3 DEF Counted
  <1>14. Paired(d, op.p)'
    BY <1>1, <1>4, <1>11 DEF Agreeing, Paired, Liked, Listed
  <1> QED BY <1>7, <1>8, <1>12, <1>13, <1>14 DEF Tapping, Liking

\* The first mark is written.
LEMMA FirstAnswered ==
    ASSUME LikesInv, NEW d \in Devices, NEW op \in Taps(d), PostsFine(d), TapFine(d, op), Liking(d, op),
           Answer(d, TRUE), posts' = posts, cell' = cell
    PROVE  PostsFine(d)' /\ Tapping(d, op)'
  <1>1. queue[d] = <<First(op)>> /\ mainq[d] = <<>> /\ Counted(d, op.p, op.like)
    BY DEF Liking
  <1>2. Head(queue[d]) = First(op) /\ Tail(queue[d]) = <<>>
    BY <1>1
  <1>3. PICK path \in First(op).paths : AnswerAt(d, First(op), path)
    BY <1>2, AnswerHead DEF LikesInv
  <1>4. path = PostLike(op.p, UidOf[d]) /\ op.p \in Posts /\ UidOf[d] \in Users
    BY TapWrites
  <1>5. Accepts(First(op), path) /\ First(op).then # NoThen
    <2>1. First(op).then = FirstMarkDone(op) /\ ~First(op).upd
      BY TapWrites
    <2> QED BY <2>1, BlockNotEmpty DEF Accepts
  <1>6. docs' = [docs EXCEPT ![path] = First(op).data] /\ gets' = gets
    BY <1>3, <1>5 DEF AnswerAt
  <1>7. queue'[d] = <<>>
    BY <1>2, <1>3, <1>4, TapWrites DEF AnswerAt
  <1>8. mainq'[d] = <<Done(FirstMarkDone(op))>>
    <2>1. mainq'[d] = Append(<<>>, [then |-> First(op).then, res |-> Accepts(First(op), path)])
      BY <1>1, <1>3, <1>5 DEF AnswerAt
    <2>2. Accepts(First(op), path) = TRUE
      BY <1>5 DEF Accepts
    <2>3. [then |-> First(op).then, res |-> Accepts(First(op), path)] = Done(FirstMarkDone(op))
      BY <2>2, TapWrites DEF Done
    <2> QED BY <2>1, <2>3
  <1>9. \A x \in Documents : x # path => docs'[x] = docs[x]
    BY <1>6 DEF LikesInv, ServerOK
  <1>10. docs'[PostLike(op.p, UidOf[d])] = First(op).data
    BY <1>4, <1>6, PathsApart DEF LikesInv, ServerOK
  <1>11. /\ \A p \in Posts, v \in Users : /\ docs'[PostDoc(p)] = docs[PostDoc(p)]
                                          /\ docs'[UserLike(v, p)] = docs[UserLike(v, p)]
                                          /\ p # op.p \/ v # UidOf[d] => docs'[PostLike(p, v)] = docs[PostLike(p, v)]
    BY <1>4, <1>9, PathsApart
  <1>12. PostsFine(d)' /\ TapFine(d, op)' /\ Others(d, op.p)' = Others(d, op.p)
    <2>1. Range(mainq[d]) = {} /\ Range(mainq'[d]) = {Done(FirstMarkDone(op))}
      BY <1>1, <1>8, RangeOfEmpty, RangeOfOne
    <2>2. IsMark(Done(FirstMarkDone(op)))
      BY DEF IsMark, Done, FirstMarkDone
    <2> QED BY <1>4, <1>6, <1>11, <2>1, <2>2, TapKeeps
  <1>13. Counted(d, op.p, op.like)'
    BY <1>1, <1>4, <1>11, <1>12 DEF Counted
  <1>14. Liked(op.p, UidOf[d])' <=> op.like
    BY <1>10, TapWrites DEF Liked
  <1> QED BY <1>7, <1>8, <1>12, <1>13, <1>14 DEF Tapping, Chaining

\* The second mark is written.
LEMMA SecondAnswered ==
    ASSUME LikesInv, NEW d \in Devices, NEW op \in Taps(d), PostsFine(d), TapFine(d, op), Listing(d, op),
           Answer(d, TRUE), posts' = posts, cell' = cell
    PROVE  PostsFine(d)' /\ Tapping(d, op)'
  <1>1. /\ queue[d] = <<Second(op)>> /\ mainq[d] = <<>>
        /\ Counted(d, op.p, op.like) /\ (Liked(op.p, UidOf[d]) <=> op.like)
    BY DEF Listing
  <1>2. Head(queue[d]) = Second(op) /\ Tail(queue[d]) = <<>>
    BY <1>1
  <1>3. PICK path \in Second(op).paths : AnswerAt(d, Second(op), path)
    BY <1>2, AnswerHead DEF LikesInv
  <1>4. path = UserLike(UidOf[d], op.p) /\ op.p \in Posts /\ UidOf[d] \in Users
    BY TapWrites
  <1>5. Accepts(Second(op), path) /\ Second(op).then # NoThen
    BY TapWrites, BlockNotEmpty DEF Accepts
  <1>6. docs' = [docs EXCEPT ![path] = Second(op).data] /\ gets' = gets
    BY <1>3, <1>5 DEF AnswerAt
  <1>7. queue'[d] = <<>>
    BY <1>2, <1>3, <1>4, TapWrites DEF AnswerAt
  <1>8. mainq'[d] = <<Done(SecondMarkDone(op))>>
    <2>1. mainq'[d] = Append(<<>>, [then |-> Second(op).then, res |-> Accepts(Second(op), path)])
      BY <1>1, <1>3, <1>5 DEF AnswerAt
    <2>2. Accepts(Second(op), path) = TRUE
      BY <1>5 DEF Accepts
    <2>3. [then |-> Second(op).then, res |-> Accepts(Second(op), path)] = Done(SecondMarkDone(op))
      BY <2>2, TapWrites DEF Done
    <2> QED BY <2>1, <2>3
  <1>9. \A x \in Documents : x # path => docs'[x] = docs[x]
    BY <1>6 DEF LikesInv, ServerOK
  <1>10. docs'[UserLike(UidOf[d], op.p)] = Second(op).data
    BY <1>4, <1>6, PathsApart DEF LikesInv, ServerOK
  <1>11. /\ \A p \in Posts, v \in Users : /\ docs'[PostDoc(p)] = docs[PostDoc(p)]
                                          /\ docs'[PostLike(p, v)] = docs[PostLike(p, v)]
                                          /\ p # op.p => docs'[UserLike(v, p)] = docs[UserLike(v, p)]
    BY <1>4, <1>9, PathsApart
  <1>12. PostsFine(d)' /\ TapFine(d, op)' /\ Others(d, op.p)' = Others(d, op.p)
    <2>1. Range(mainq[d]) = {} /\ Range(mainq'[d]) = {Done(SecondMarkDone(op))}
      BY <1>1, <1>8, RangeOfEmpty, RangeOfOne
    <2>2. IsMark(Done(SecondMarkDone(op)))
      BY DEF IsMark, Done, SecondMarkDone
    <2> QED BY <1>4, <1>6, <1>11, <2>1, <2>2, TapKeeps
  <1>13. Counted(d, op.p, op.like)'
    BY <1>1, <1>4, <1>11, <1>12 DEF Counted
  <1>14. Liked(op.p, UidOf[d])' <=> op.like
    BY <1>1, <1>4, <1>11 DEF Liked
  <1>15. Listed(UidOf[d], op.p)' <=> op.like
    BY <1>10, TapWrites DEF Listed
  <1>16. Agreeing(d, op.p)'
    BY <1>13, <1>14, <1>15 DEF Agreeing, Counted, Paired, Bit
  <1> QED BY <1>7, <1>8, <1>12, <1>16 DEF Tapping, Ending

\* What a completion block does to the queues.
LEMMA TakeAt ==
    ASSUME QueuesOK, NEW d \in Devices, NEW ws, NEW rs, Take(d, ws, rs)
    PROVE  /\ docs' = docs
           /\ queue'[d] = queue[d] \o ws
           /\ gets'[d] = gets[d] \o rs
           /\ mainq'[d] = Tail(mainq[d])
  BY DEF QueuesOK, Take

\* The server is left alone.
LEMMA DocsStay ==
    ASSUME docs' = docs, NEW d \in Devices
    PROVE  /\ \A p : Others(d, p)' = Others(d, p)
           /\ \A p, b : Counted(d, p, b)' <=> Counted(d, p, b)
           /\ \A p : Agreeing(d, p)' <=> Agreeing(d, p)
           /\ \A p, u : Liked(p, u)' <=> Liked(p, u)
  BY DEF Others, Counted, Agreeing, Paired, Liked, Listed

\* The answer to the first mark: the second one is written.
LEMMA FirstDone ==
    ASSUME LikesInv, NEW d \in Devices, NEW op \in Taps(d), PostsFine(d), TapFine(d, op), Chaining(d, op),
           firstMarkDone(d)
    PROVE  PostsFine(d)' /\ Tapping(d, op)'
  <1>1. /\ queue[d] = <<>> /\ mainq[d] = <<Done(FirstMarkDone(op))>>
        /\ Counted(d, op.p, op.like) /\ (Liked(op.p, UidOf[d]) <=> op.like)
    BY DEF Chaining
  <1>2. Block(d).op = op
    BY <1>1 DEF Block, Done, FirstMarkDone
  <1>3. Take(d, secondMark(op), <<>>) /\ posts' = posts /\ cell' = cell
    BY <1>2 DEF firstMarkDone
  <1>4. secondMark(op) = <<Second(op)>>
    BY DEF secondMark, Second
  <1>5. docs' = docs /\ queue'[d] = <<Second(op)>> /\ gets'[d] = <<>> /\ mainq'[d] = <<>>
    <2>1. /\ docs' = docs /\ queue'[d] = queue[d] \o secondMark(op) /\ gets'[d] = gets[d] \o <<>>
          /\ mainq'[d] = Tail(mainq[d])
      BY <1>3, TakeAt DEF LikesInv
    <2>2. gets[d] = <<>>
      BY DEF TapFine
    <2> QED BY <1>1, <1>4, <2>1, <2>2
  <1>6. PostsFine(d)' /\ TapFine(d, op)'
    <2>1. /\ Range(mainq[d]) = {Done(FirstMarkDone(op))} /\ Range(mainq'[d]) = {}
          /\ IsMark(Done(FirstMarkDone(op)))
      BY <1>1, <1>5, RangeOfEmpty, RangeOfOne DEF IsMark, Done, FirstMarkDone
    <2>2. gets'[d] = gets[d]
      BY <1>5 DEF TapFine
    <2> QED BY <1>3, <1>5, <2>1, <2>2, TapKeeps
  <1>7. Counted(d, op.p, op.like)' /\ (Liked(op.p, UidOf[d])' <=> op.like)
    BY <1>1, <1>5, DocsStay
  <1> QED BY <1>5, <1>6, <1>7 DEF Tapping, Listing

\* The counter of one cell is set.
SetsCounter(s, c, v) == cell' = [cell EXCEPT ![s][c].likes = v]

LEMMA CellCounter ==
    ASSUME ScreensOK, NEW s \in Screens, NEW c \in Cells, NEW v, SetsCounter(s, c, v)
    PROVE  /\ \A t \in Screens, b \in Cells : <<t, b>> # <<s, c>> => cell'[t][b] = cell[t][b]
           /\ cell'[s][c].likes = v
           /\ cell'[s][c].p = cell[s][c].p
           /\ cell'[s][c].didLike = cell[s][c].didLike
           /\ cell'[s][c].shown = cell[s][c].shown
  <1> DEFINE M == [p : Posts \cup {NoPost}, likes : Counts, didLike : BOOLEAN, shown : BOOLEAN]
  <1>1. cell \in [Screens -> [Cells -> M]]
    BY DEF ScreensOK
  <1>2. PICK k : k = [cell[s][c] EXCEPT !.likes = v]
    OBVIOUS
  <1>3. cell[s][c] \in M
    BY <1>1
  <1>4. k.likes = v /\ k.p = cell[s][c].p /\ k.didLike = cell[s][c].didLike /\ k.shown = cell[s][c].shown
    BY <1>2, <1>3
  <1>5. cell' = [cell EXCEPT ![s][c] = k]
    BY <1>2 DEF SetsCounter
  <1> HIDE DEF M
  <1>6. cell'[s][c] = k /\ \A t \in Screens, b \in Cells : <<t, b>> # <<s, c>> => cell'[t][b] = cell[t][b]
    BY <1>1, <1>5
  <1> QED BY <1>4, <1>6

\* The answer to the second mark: the tap is over.
LEMMA SecondDone ==
    ASSUME LikesInv, NEW d \in Devices, NEW op \in Taps(d), PostsFine(d), TapFine(d, op), Ending(d, op),
           secondMarkDone(d)
    PROVE  PostsFine(d)' /\ Free(d)'
  <1>1. queue[d] = <<>> /\ mainq[d] = <<Done(SecondMarkDone(op))>> /\ Agreeing(d, op.p) /\ gets[d] = <<>>
    BY DEF Ending, TapFine
  <1>2. Block(d).op = op
    BY <1>1 DEF Block, Done, SecondMarkDone
  <1> DEFINE v  == IF op.like THEN op.likes + 1 ELSE op.likes - 1
             ws == IF op.like THEN uploadNotification(op) ELSE <<>>
             rs == IF op.like THEN <<>>
                   ELSE deleteNotification(OwnerOf[op.p], UidAt(op.s), cell[op.s][op.c].p)
  <1>3. /\ Take(d, ws, rs) /\ posts' = posts
        /\ SetsCounter(op.s, op.c, v)
        /\ Due(d, "secondMarkDone")
    BY <1>2 DEF secondMarkDone, SetsCounter
  <1>4. /\ op.s \in Screens /\ op.s \in ScreensOf(d) /\ op.c \in Cells /\ op.p \in Posts /\ op.likes \in Nat
        /\ op.like \in BOOLEAN /\ UidAt(op.s) = UidOf[d] /\ UidOf[d] \in Users
    BY TapWrites DEF ScreensOf
  <1>5. op.n \in 0..MaxOps
    <2>1. op \in OpsOf(d)
      BY <1>2, <1>3, DueBlock
    <2>2. op.n \in 1..ops
      BY <2>1 DEF OpsOf
    <2> QED BY <2>2, LikesAssumption DEF LikesInv
  <1>6. /\ \A t \in Screens, b \in Cells : <<t, b>> # <<op.s, op.c>> => cell'[t][b] = cell[t][b]
        /\ cell'[op.s][op.c].likes = v
        /\ cell'[op.s][op.c].p = cell[op.s][op.c].p
        /\ cell'[op.s][op.c].didLike = cell[op.s][op.c].didLike
    <2> HIDE DEF v
    <2> QED BY <1>3, <1>4, CellCounter DEF LikesInv
  <1>7. \A w \in Range(ws) : w.paths \subseteq Notes /\ w.then = NoThen
    <2> DEFINE note == LikeNotification(UidAt(op.s), op.p, op.n)
    <2>1. note \in Notes
      <3>1. note \in LikeNotifications(UidOf[d], op.p)
        BY <1>4, <1>5 DEF LikeNotifications
      <3>2. <<UidOf[d], op.p>> \in Users \X Posts
        BY <1>4
      <3> HIDE DEF note
      <3> QED BY <3>1, <3>2 DEF Notes
    <2>2. ws = <<>> \/ ws = <<setData(note, Marked, NoThen)>>
      BY DEF uploadNotification
    <2> HIDE DEF ws, note
    <2>3. setData(note, Marked, NoThen).paths = {note} /\ setData(note, Marked, NoThen).then = NoThen
      BY DEF setData, Write
    <2> QED BY <2>1, <2>2, <2>3, RangeOfEmpty, RangeOfOne
  <1>8. \A r \in Range(rs) : r.then.kind = "foundNotifications"
    <2> DEFINE q == getDocuments(IF OwnerOf[cell[op.s][op.c].p] = OwnerOf[op.p]
                                 THEN LikeNotifications(UidAt(op.s), cell[op.s][op.c].p) ELSE {},
                                 FoundNotifications(UidAt(op.s), cell[op.s][op.c].p))
    <2>1. rs = <<>> \/ rs = <<q>>
      BY DEF deleteNotification
    <2>2. q.then.kind = "foundNotifications"
      BY DEF getDocuments, Read, FoundNotifications
    <2> HIDE DEF rs, q
    <2> QED BY <2>1, <2>2, RangeOfEmpty, RangeOfOne
  <1>9. docs' = docs /\ queue'[d] = ws /\ gets'[d] = rs /\ mainq'[d] = <<>>
    <2>1. ws = <<>> \/ \E e : ws = <<e>>
      BY DEF uploadNotification
    <2>2. rs = <<>> \/ \E e : rs = <<e>>
      BY DEF deleteNotification
    <2> HIDE DEF ws, rs
    <2>3. /\ docs' = docs /\ queue'[d] = <<>> \o ws /\ gets'[d] = <<>> \o rs
          /\ mainq'[d] = Tail(<<Done(SecondMarkDone(op))>>)
      BY <1>1, <1>3, TakeAt DEF LikesInv
    <2> QED BY <2>1, <2>2, <2>3
  <1> HIDE DEF ws, rs
  <1>10. \A s, p : ~Pending(d, s, p) /\ ~Pending(d, s, p)'
    <2>1. Range(gets[d]) = {} /\ Range(mainq[d]) = {Done(SecondMarkDone(op))} /\ Range(mainq'[d]) = {}
      BY <1>1, <1>9, RangeOfEmpty, RangeOfOne
    <2>2. \A s : Done(SecondMarkDone(op)).then # CheckedLike(s)
      BY DEF Done, SecondMarkDone, CheckedLike
    <2>3. \A r \in Range(gets'[d]) : \A s : r.then # CheckedLike(s)
      BY <1>8, <1>9 DEF CheckedLike
    <2> QED BY <2>1, <2>2, <2>3 DEF Pending
  <1>11. \A s \in ScreensOf(d) : ScreenStays(d, s)
    BY <1>3, <1>9, <1>10, DocsStay DEF ScreenStays
  <1>12. ScreensOf(d)' = ScreensOf(d) /\ \A s \in ScreensOf(d) : s \in Screens
    BY DEF ScreensOf
  <1>13. PostsFine(d)'
    BY <1>3, <1>11, <1>12, ListStays DEF PostsFine
  <1>14. \A p \in Posts : Agreeing(d, p)'
    BY <1>1, <1>9, DocsStay DEF TapFine
  <1>15. ASSUME NEW s \in ScreensOf(d), NEW c \in Cells PROVE CellFine(d, s, c)'
    <2>1. CASE <<s, c>> # <<op.s, op.c>>
      BY <1>6, <1>11, <1>12, <2>1, CellStays DEF TapFine
    <2>2. CASE s = op.s /\ c = op.c
      <3>1. /\ cell[s][c].p = op.p /\ cell[s][c].didLike = op.like /\ op.p \in DOMAIN posts[s]
            /\ op.likes = Others(d, op.p) + Bit(~op.like)
        BY <2>2 DEF TapFine, Captured
      <3>2. v = Others(d, op.p) + Bit(op.like)
        BY <1>4, <3>1, OthersNat DEF Bit
      <3>3. /\ cell'[s][c].p = op.p /\ op.p \in DOMAIN posts'[s]
            /\ cell'[s][c].likes = Others(d, op.p)' + Bit(cell'[s][c].didLike)
        <4> HIDE DEF v
        <4> QED BY <1>3, <1>6, <1>9, <2>2, <3>1, <3>2, DocsStay
      <3> QED BY <1>10, <3>3 DEF CellFine, CopyFine
    <2> QED BY <2>1, <2>2
  <1>16. \A b \in Range(mainq'[d]) : FALSE
    BY <1>9, RangeOfEmpty
  <1>17. \A w \in Range(queue'[d]) : w.paths \subseteq Notes' /\ w.then = NoThen
    BY <1>7, <1>9 DEF Notes, LikeNotifications, LikeNotification
  <1> QED BY <1>12, <1>13, <1>14, <1>15, <1>16, <1>17 DEF Free

\* The kind of a completion block says what runs.
LEMMA MainDue ==
    ASSUME NEW d
    PROVE  /\ fetchedPosts(d) => Due(d, "fetchedPosts")
           /\ fetchedPost(d) => Due(d, "fetchedPost")
           /\ checkedLike(d) => Due(d, "checkedLike")
           /\ firstMarkDone(d) => Due(d, "firstMarkDone")
           /\ secondMarkDone(d) => Due(d, "secondMarkDone")
           /\ foundNotifications(d) => Due(d, "foundNotifications")
  <1>1. fetchedPosts(d) => Due(d, "fetchedPosts")
    BY DEF fetchedPosts
  <1>2. fetchedPost(d) => Due(d, "fetchedPost")
    BY DEF fetchedPost
  <1>3. checkedLike(d) => Due(d, "checkedLike")
    BY DEF checkedLike
  <1>4. firstMarkDone(d) => Due(d, "firstMarkDone")
    BY DEF firstMarkDone
  <1>5. secondMarkDone(d) => Due(d, "secondMarkDone")
    BY DEF secondMarkDone
  <1>6. foundNotifications(d) => Due(d, "foundNotifications")
    BY DEF foundNotifications
  <1> QED BY <1>1, <1>2, <1>3, <1>4, <1>5, <1>6

\* Every step of the network and of the main queue while a tap is in flight.
LEMMA TapStep ==
    ASSUME ~Failures, LikesInv, NEW d \in Devices, NEW op \in Taps(d), PostsFine(d), Tapping(d, op),
           Deliver(d) \/ MainQueue(d)
    PROVE  PostsFine(d)' /\ (Free(d)' \/ Tapping(d, op)')
  <1>1. TapFine(d, op) /\ gets[d] = <<>>
    BY DEF Tapping, TapFine
  <1>2. CASE Deliver(d)
    <2>1. Answer(d, TRUE) /\ queue[d] # <<>> /\ posts' = posts /\ cell' = cell
      <3>1. Network(d) /\ posts' = posts /\ cell' = cell
        BY <1>2 DEF Deliver
      <3>2. DOMAIN gets[d] = {}
        BY <1>1
      <3>3. Answer(d, TRUE)
        BY <3>1, <3>2 DEF Network, Serve, Fail, Refuse, Lose, Commit
      <3> QED BY <3>1, <3>3 DEF Answer
    <2>2. Counting(d, op) \/ Liking(d, op) \/ Listing(d, op)
      BY <2>1 DEF Tapping, Chaining, Ending
    <2> QED BY <1>1, <2>1, <2>2, CountAnswered, FirstAnswered, SecondAnswered
  <1>3. CASE MainQueue(d)
    <2>1. mainq[d] # <<>>
      BY <1>3, MainDue DEF MainQueue, Due
    <2>2. Chaining(d, op) \/ Ending(d, op)
      BY <2>1 DEF Tapping, Counting, Liking, Listing
    <2>3. CASE Chaining(d, op)
      <3>1. Head(mainq[d]).then.kind = "firstMarkDone"
        BY <2>3 DEF Chaining, Done, FirstMarkDone
      <3>2. firstMarkDone(d)
        BY <1>3, <3>1, MainDue DEF MainQueue, Due
      <3> QED BY <1>1, <2>3, <3>2, FirstDone
    <2>4. CASE Ending(d, op)
      <3>1. Head(mainq[d]).then.kind = "secondMarkDone"
        BY <2>4 DEF Ending, Done, SecondMarkDone
      <3>2. secondMarkDone(d)
        BY <1>3, <3>1, MainDue DEF MainQueue, Due
      <3> QED BY <1>1, <2>4, <3>2, SecondDone
    <2> QED BY <2>2, <2>3, <2>4
  <1> QED BY <1>2, <1>3

-----------------------------------------------------------------------------
(* No tap is in flight.                                                    *)
OnlyNotes(d)  == \A w \in Range(queue[d]) : w.paths \subseteq Notes /\ w.then = NoThen
OnlyRight(d)  == \A b \in Range(mainq[d]) : ~IsMark(b) /\ AnswerRight(b)

\* The documents that matter here are left alone.
NotesOnly == \A x \in PostDocs \cup PostLikes \cup UserLikes : docs'[x] = docs[x]

LEMMA NotesKeep ==
    ASSUME NotesOnly, NEW d \in Devices
    PROVE  /\ \A p \in Posts : /\ Others(d, p)' = Others(d, p)
                               /\ docs'[PostDoc(p)] = docs[PostDoc(p)]
                               /\ Agreeing(d, p)' <=> Agreeing(d, p)
           /\ \A b : AnswerRight(b) => AnswerRight(b)'
  <1>1. \A p \in Posts, v \in Users : PostDoc(p) \in PostDocs /\ PostLike(p, v) \in PostLikes /\ UserLike(v, p) \in UserLikes
    <2> TAKE p \in Posts, v \in Users
    <2>1. <<p, v>> \in Posts \X Users /\ <<v, p>> \in Users \X Posts
      OBVIOUS
    <2>2. PostLike(<<p, v>>[1], <<p, v>>[2]) \in PostLikes
      BY <2>1 DEF PostLikes
    <2>3. UserLike(<<v, p>>[1], <<v, p>>[2]) \in UserLikes
      BY <2>1 DEF UserLikes
    <2> QED BY <2>2, <2>3 DEF PostDocs
  <1>2. \A p \in Posts, v \in Users : /\ docs'[PostDoc(p)] = docs[PostDoc(p)]
                                      /\ docs'[PostLike(p, v)] = docs[PostLike(p, v)]
                                      /\ docs'[UserLike(v, p)] = docs[UserLike(v, p)]
    BY <1>1 DEF NotesOnly
  <1>3. \A b : AnswerRight(b) => AnswerRight(b)'
    <2>1. PostDocs' = PostDocs /\ UserLikes' = UserLikes
      BY DEF PostDocs, PostDoc, UserLikes, UserLike
    <2> QED BY <2>1 DEF NotesOnly, AnswerRight
  <1> QED BY <1>2, <1>3, KeepDocs

\* A step that leaves the screens alone.
LEMMA FreeStays ==
    ASSUME LikesInv, NEW d \in Devices, PostsFine(d), Free(d), NotesOnly, posts' = posts, cell' = cell,
           OnlyNotes(d)', OnlyRight(d)',
           \A s \in ScreensOf(d) : \A p \in DOMAIN posts[s] : Pending(d, s, p)' <=> Pending(d, s, p)
    PROVE  PostsFine(d)' /\ Free(d)'
  <1>1. \A s \in ScreensOf(d) : DOMAIN posts[s] \subseteq Posts
    BY DEF LikesInv, ScreensOK, ScreensOf
  <1>2. \A s \in ScreensOf(d) : ScreenStays(d, s)
    BY <1>1, NotesKeep DEF ScreenStays
  <1>3. PostsFine(d)' /\ \A s \in ScreensOf(d), c \in Cells : CellFine(d, s, c) => CellFine(d, s, c)'
    BY <1>2, ScreensStayFine
  <1>4. \A p \in Posts : Agreeing(d, p)'
    BY NotesKeep DEF Free
  <1>5. ScreensOf(d)' = ScreensOf(d)
    BY DEF ScreensOf
  <1> QED BY <1>3, <1>4, <1>5 DEF Free, OnlyNotes, OnlyRight

LEMMA AnswerFree ==
    ASSUME LikesInv, NEW d \in Devices, PostsFine(d), Free(d), Answer(d, TRUE), posts' = posts, cell' = cell
    PROVE  PostsFine(d)' /\ Free(d)'
  <1>1. PICK w : w = Head(queue[d])
    OBVIOUS
  <1>2. PICK path \in w.paths : AnswerAt(d, w, path)
    BY <1>1, AnswerHead DEF LikesInv
  <1>3. queue[d] \in Seq(WritesOf(d)) /\ queue[d] # <<>>
    BY DEF LikesInv, QueuesOK, Answer
  <1>4. Range(queue[d]) = {w} \cup Range(Tail(queue[d])) /\ Tail(queue[d]) \in Seq(WritesOf(d))
    BY <1>1, <1>3, RangeOfTail
  <1>5. w.paths \subseteq Notes /\ w.then = NoThen
    BY <1>4 DEF Free
  <1>6. mainq'[d] = mainq[d] /\ gets' = gets
    BY <1>2, <1>5 DEF AnswerAt
  <1>7. path \notin PostDocs \cup PostLikes \cup UserLikes
    <2>1. path[1] = "user-notifications"
      BY <1>5 DEF Notes, LikeNotifications, LikeNotification
    <2> QED BY <2>1 DEF PostDocs, PostDoc, PostLikes, PostLike, UserLikes, UserLike
  <1>8. NotesOnly
    BY <1>2, <1>7 DEF AnswerAt, NotesOnly, LikesInv, ServerOK
  <1>9. OnlyNotes(d)'
    <2>1. Notes' = Notes
      BY DEF Notes, LikeNotifications, LikeNotification
    <2>2. Range(queue'[d]) \subseteq {w, Trimmed(w, path)} \cup Range(Tail(queue[d]))
      <3>1. CASE w.paths = {path}
        BY <1>2, <3>1 DEF AnswerAt
      <3>2. CASE w.paths # {path}
        <4>1. queue'[d] = <<Trimmed(w, path)>> \o Tail(queue[d])
          BY <1>2, <3>2 DEF AnswerAt
        <4>2. PICK t : t = Trimmed(w, path)
          OBVIOUS
        <4>3. Range(<<t>> \o Tail(queue[d])) = {t} \cup Range(Tail(queue[d]))
          <5>1. PICK S : S = WritesOf(d) \cup {t}
            OBVIOUS
          <5>2. PICK a : a = <<t>>
            OBVIOUS
          <5>3. PICK q : q = Tail(queue[d])
            OBVIOUS
          <5>4. a \in Seq(S) /\ q \in Seq(S)
            BY <1>4, <5>1, <5>2, <5>3
          <5>5. Range(a \o q) = Range(a) \cup Range(q)
            BY <5>4, RangeOfConcat
          <5> QED BY <5>2, <5>3, <5>5, RangeOfOne
        <4> QED BY <4>1, <4>2, <4>3
      <3> QED BY <3>1, <3>2
    <2>3. Trimmed(w, path).paths \subseteq Notes /\ Trimmed(w, path).then = NoThen
      <3>1. w \in WritesOf(d)
        BY <1>1, <1>3
      <3>2. \E D : w \in [paths : SUBSET D, data : Counts \cup {Marked, NoDoc}, upd : BOOLEAN, then : MarkBlocks(d) \cup {NoThen}]
        BY <3>1 DEF WritesOf
      <3> QED BY <1>5, <3>2 DEF Trimmed
    <2>4. \A x \in Range(Tail(queue[d])) : x.paths \subseteq Notes /\ x.then = NoThen
      BY <1>4 DEF Free
    <2> QED BY <1>5, <2>1, <2>2, <2>3, <2>4 DEF OnlyNotes
  <1>10. OnlyRight(d)'
    BY <1>6, <1>8, NotesKeep DEF OnlyRight, Free, IsMark
  <1>11. \A s, p : Pending(d, s, p)' <=> Pending(d, s, p)
    BY <1>6 DEF Pending
  <1> QED BY <1>8, <1>9, <1>10, <1>11, FreeStays

\* What has been answered or is asked for.
CheckAsked(d, s, p)    == \E r \in Range(gets[d]) : r.then = CheckedLike(s) /\ UserLike(UidOf[d], p) \in r.paths
CheckTold(d, s, p) == \E b \in Range(mainq[d]) : b.then = CheckedLike(s) /\ UserLike(UidOf[d], p) \in DOMAIN b.res

\* A device that has only notifications queued sees the server's documents.
LEMMA ViewServer ==
    ASSUME NEW d \in Devices, OnlyNotes(d), NEW x, x \notin Notes
    PROVE  View(d, x) = docs[x]
  <1>1. \A i \in DOMAIN queue[d] : x \notin queue[d][i].paths
    BY DEF OnlyNotes, Range
  <1>2. {i \in DOMAIN queue[d] : x \in queue[d][i].paths} = {}
    BY <1>1
  <1>3. {i \in {} : ~queue[d][i].upd} = {}
    OBVIOUS
  <1> QED BY <1>2, <1>3 DEF View

\* The reads of d once one answer has come to the i-th.
LEMMA RestAt ==
    ASSUME QueuesOK, NEW d \in Devices, NEW i \in DOMAIN gets[d],
           NEW ps \in Part(gets[d][i]), gets' = Rest(d, i, ps)
    PROVE  \A then, path : (\E r \in Range(gets[d]) : r.then = then /\ path \in r.paths)
              <=> \/ \E r \in Range(gets'[d]) : r.then = then /\ path \in r.paths
                  \/ gets[d][i].then = then /\ path \in ps
  <1> SUFFICES ASSUME NEW then, NEW path
               PROVE  (\E r \in Range(gets[d]) : r.then = then /\ path \in r.paths)
              <=> \/ \E r \in Range(gets'[d]) : r.then = then /\ path \in r.paths
                  \/ gets[d][i].then = then /\ path \in ps
    OBVIOUS
  <1>1. gets[d] \in Seq(ReadsOf(d)) /\ DOMAIN gets = Devices /\ gets[d][i] \in ReadsOf(d)
    BY DEF QueuesOK
  <1>2. ps \subseteq gets[d][i].paths
    BY DEF Part
  <1>3. CASE ps = gets[d][i].paths
    <2>1. gets'[d] = RemoveAt(gets[d], i)
      BY <1>1, <1>3 DEF Rest
    <2>2. Range(gets[d]) = {gets[d][i]} \cup Range(gets'[d])
      BY <1>1, <2>1, RangeOfRemoveAt
    <2> QED BY <1>3, <2>2
  <1>4. CASE ps # gets[d][i].paths
    <2>1. PICK t : t = [gets[d][i] EXCEPT !.paths = @ \ ps]
      OBVIOUS
    <2>2. t.paths = gets[d][i].paths \ ps /\ t.then = gets[d][i].then
      <3>1. \E D : gets[d][i] \in [paths : SUBSET D, each : BOOLEAN,
                                   then : ListBlocks(d) \cup DetailBlocks(d) \cup CheckBlocks(d) \cup FindBlocks]
        <4>1. gets[d][i] \in [paths : SUBSET (PostDocs \cup UserLikes \cup Marks), each : BOOLEAN,
                              then : ListBlocks(d) \cup DetailBlocks(d) \cup CheckBlocks(d) \cup FindBlocks]
          BY <1>1 DEF ReadsOf
        <4> QED BY <4>1
      <3> QED BY <2>1, <3>1
    <2>3. gets' = [gets EXCEPT ![d][i] = t]
      BY <1>4, <2>1 DEF Rest
    <2>4. gets'[d] = [gets[d] EXCEPT ![i] = t]
      BY <1>1, <2>3
    <2>5. DOMAIN gets'[d] = DOMAIN gets[d] /\ gets'[d][i] = t /\ \A j \in DOMAIN gets[d] : j # i => gets'[d][j] = gets[d][j]
      BY <2>4
    <2>6. Range(gets'[d]) = {gets'[d][j] : j \in DOMAIN gets[d]} /\ Range(gets[d]) = {gets[d][j] : j \in DOMAIN gets[d]}
      BY <2>5 DEF Range
    <2> QED BY <1>2, <2>2, <2>5, <2>6
  <1> QED BY <1>3, <1>4

LEMMA ResolveFree ==
    ASSUME LikesInv, NEW d \in Devices, PostsFine(d), Free(d), NEW i \in DOMAIN gets[d], Resolve(d, i),
           posts' = posts, cell' = cell
    PROVE  PostsFine(d)' /\ Free(d)'
  <1>1. PICK ps \in Part(gets[d][i]) :
           /\ mainq' = [mainq EXCEPT ![d] = Append(@,
                [then |-> gets[d][i].then, res |-> [path \in ps |-> View(d, path)]])]
           /\ gets' = Rest(d, i, ps)
    BY DEF Resolve
  <1>2. docs' = docs /\ queue' = queue
    BY DEF Resolve
  <1>3. PICK b : b = [then |-> gets[d][i].then, res |-> [path \in ps |-> View(d, path)]]
    OBVIOUS
  <1>4. mainq'[d] = Append(mainq[d], b) /\ mainq[d] \in Seq(BlocksOf(d))
    BY <1>1, <1>3 DEF LikesInv, QueuesOK
  <1>5. Range(mainq'[d]) = Range(mainq[d]) \cup {b}
    <2>1. PICK S : S = BlocksOf(d) \cup {b}
      OBVIOUS
    <2>2. mainq[d] \in Seq(S) /\ b \in S
      BY <1>4, <2>1
    <2> QED BY <1>4, <2>2, RangeOfAppend
  <1>6. gets[d][i].then.kind \notin {"firstMarkDone", "secondMarkDone"}
    <2>1. gets[d][i] \in ReadsOf(d)
      BY DEF LikesInv, QueuesOK
    <2> QED BY <2>1 DEF ReadsOf, ListBlocks, DetailBlocks, CheckBlocks, FindBlocks
  <1>7. OnlyNotes(d)
    BY DEF Free, OnlyNotes
  <1>8. ~IsMark(b) /\ AnswerRight(b)
    <2>1. \A x \in ps : x \notin Notes => b.res[x] = docs[x]
      BY <1>3, <1>7, ViewServer
    <2> QED BY <1>3, <1>6, <2>1, PathsApart DEF IsMark, AnswerRight
  <1>9. NotesOnly
    BY <1>2 DEF NotesOnly
  <1>10. OnlyNotes(d)'
    <2>1. Notes' = Notes
      BY DEF Notes, LikeNotifications, LikeNotification
    <2> QED BY <1>2, <1>7, <2>1 DEF OnlyNotes
  <1>11. OnlyRight(d)'
    BY <1>5, <1>8, <1>9, NotesKeep DEF OnlyRight, Free, IsMark
  <1>12. \A then, path : (\E r \in Range(gets[d]) : r.then = then /\ path \in r.paths)
              <=> \/ \E r \in Range(gets'[d]) : r.then = then /\ path \in r.paths
                  \/ gets[d][i].then = then /\ path \in ps
    <2>1. QueuesOK /\ gets' = Rest(d, i, ps)
      BY <1>1 DEF LikesInv
    <2> QED BY <2>1, RestAt
  <1>13. \A s, p : Pending(d, s, p)' <=> Pending(d, s, p)
    <2> TAKE s, p
    <2>1. DOMAIN b.res = ps /\ b.then = gets[d][i].then
      BY <1>3
    <2>2. CheckAsked(d, s, p) <=> CheckAsked(d, s, p)' \/ (b.then = CheckedLike(s) /\ UserLike(UidOf[d], p) \in DOMAIN b.res)
      <3>1. PICK then : then = CheckedLike(s)
        OBVIOUS
      <3>2. PICK path : path = UserLike(UidOf[d], p)
        OBVIOUS
      <3>3. (\E r \in Range(gets[d]) : r.then = then /\ path \in r.paths)
              <=> \/ \E r \in Range(gets'[d]) : r.then = then /\ path \in r.paths
                  \/ gets[d][i].then = then /\ path \in ps
        BY <1>12
      <3> QED BY <2>1, <3>1, <3>2, <3>3 DEF CheckAsked
    <2>3. CheckTold(d, s, p)' <=> CheckTold(d, s, p) \/ (b.then = CheckedLike(s) /\ UserLike(UidOf[d], p) \in DOMAIN b.res)
      BY <1>5 DEF CheckTold, CheckedLike, UserLike
    <2> QED BY <2>2, <2>3 DEF Pending, CheckAsked, CheckTold
  <1> QED BY <1>9, <1>10, <1>11, <1>13, FreeStays

\* A completion block leaves the main queue and issues ws and rs.
LEMMA TakeRanges ==
    ASSUME QueuesOK, NEW d \in Devices, mainq[d] # <<>>, NEW ws, NEW rs, Take(d, ws, rs),
           NEW W, ws \in Seq(W), NEW R, rs \in Seq(R)
    PROVE  /\ docs' = docs
           /\ Range(mainq[d]) = {Head(mainq[d])} \cup Range(mainq'[d])
           /\ Range(queue'[d]) = Range(queue[d]) \cup Range(ws)
           /\ Range(gets'[d]) = Range(gets[d]) \cup Range(rs)
  <1>1. docs' = docs /\ queue'[d] = queue[d] \o ws /\ gets'[d] = gets[d] \o rs /\ mainq'[d] = Tail(mainq[d])
    BY TakeAt
  <1>2. PICK q : q = queue[d]
    OBVIOUS
  <1>3. PICK g : g = gets[d]
    OBVIOUS
  <1>4. PICK S : S = WritesOf(d) \cup W
    OBVIOUS
  <1>5. PICK T : T = ReadsOf(d) \cup R
    OBVIOUS
  <1>6. q \in Seq(S) /\ ws \in Seq(S) /\ g \in Seq(T) /\ rs \in Seq(T)
    BY <1>2, <1>3, <1>4, <1>5 DEF QueuesOK
  <1>7. Range(q \o ws) = Range(q) \cup Range(ws)
    BY <1>6, RangeOfConcat
  <1>8. Range(g \o rs) = Range(g) \cup Range(rs)
    BY <1>6, RangeOfConcat
  <1>9. mainq[d] \in Seq(BlocksOf(d))
    BY DEF QueuesOK
  <1>10. Range(mainq[d]) = {Head(mainq[d])} \cup Range(Tail(mainq[d]))
    BY <1>9, RangeOfTail
  <1> QED BY <1>1, <1>2, <1>3, <1>7, <1>8, <1>10

\* What is left of Free when no tap is in flight and a block has run.
LEMMA TakeFree ==
    ASSUME LikesInv, NEW d \in Devices, Free(d), mainq[d] # <<>>, NEW ws, NEW rs, Take(d, ws, rs),
           NEW W, ws \in Seq(W), NEW R, rs \in Seq(R),
           \A w \in Range(ws) : w.paths \subseteq Notes /\ w.then = NoThen
    PROVE  /\ NotesOnly /\ OnlyNotes(d)' /\ OnlyRight(d)' /\ \A p \in Posts : Agreeing(d, p)'
           /\ ~IsMark(Head(mainq[d])) /\ AnswerRight(Head(mainq[d]))
  <1>1. /\ docs' = docs
        /\ Range(mainq[d]) = {Head(mainq[d])} \cup Range(mainq'[d])
        /\ Range(queue'[d]) = Range(queue[d]) \cup Range(ws)
    BY TakeRanges DEF LikesInv
  <1>2. NotesOnly
    BY <1>1 DEF NotesOnly
  <1>3. Notes' = Notes
    BY DEF Notes, LikeNotifications, LikeNotification
  <1>4. OnlyNotes(d)'
    BY <1>1, <1>3 DEF OnlyNotes, Free
  <1>5. OnlyRight(d)'
    BY <1>1, <1>2, NotesKeep DEF OnlyRight, Free, IsMark
  <1>6. \A p \in Posts : Agreeing(d, p)'
    BY <1>2, NotesKeep DEF Free
  <1> QED BY <1>1, <1>2, <1>4, <1>5, <1>6 DEF Free

LEMMA FoundFree ==
    ASSUME LikesInv, NEW d \in Devices, PostsFine(d), Free(d), foundNotifications(d)
    PROVE  PostsFine(d)' /\ Free(d)'
  <1>1. PICK found : found = {x \in DOMAIN Result(d) : Result(d)[x] # NoDoc}
    OBVIOUS
  <1>2. PICK ws : ws = IF found = {} THEN <<>> ELSE <<deleteAll(found, NoThen)>>
    OBVIOUS
  <1>3. Due(d, "foundNotifications") /\ Take(d, ws, <<>>) /\ posts' = posts /\ cell' = cell
    BY <1>1, <1>2 DEF foundNotifications
  <1>4. Head(mainq[d]) \in FindAnswers /\ mainq[d] # <<>>
    BY <1>3, DueBlock
  <1>5. found \subseteq Notes
    <2>1. /\ Block(d).u \in Users /\ Block(d).p \in Posts
          /\ DOMAIN Result(d) \in {{}, LikeNotifications(Block(d).u, Block(d).p)}
      BY <1>4 DEF FindAnswers, FindBlocks, Block, Result
    <2>2. <<Block(d).u, Block(d).p>> \in Users \X Posts
      BY <2>1
    <2>3. LikeNotifications(Block(d).u, Block(d).p) \subseteq Notes
      BY <2>2 DEF Notes
    <2> QED BY <1>1, <2>1, <2>3
  <1>6. PICK w : w = deleteAll(found, NoThen)
    OBVIOUS
  <1>7. w.paths = found /\ w.then = NoThen
    BY <1>6 DEF deleteAll, Write
  <1>8. ws \in Seq({w}) /\ Range(ws) \subseteq {w}
    <2>1. CASE ws = <<>>
      BY <2>1, RangeOfEmpty
    <2>2. CASE ws = <<w>>
      BY <2>2, RangeOfOne
    <2> QED BY <1>2, <1>6, <2>1, <2>2
  <1>9. <<>> \in Seq({})
    OBVIOUS
  <1>10. NotesOnly /\ OnlyNotes(d)' /\ OnlyRight(d)'
    BY <1>3, <1>4, <1>5, <1>7, <1>8, <1>9, TakeFree
  <1>11. /\ Range(mainq[d]) = {Head(mainq[d])} \cup Range(mainq'[d])
         /\ Range(gets'[d]) = Range(gets[d])
    <2>1. QueuesOK
      BY DEF LikesInv
    <2>2. /\ Range(mainq[d]) = {Head(mainq[d])} \cup Range(mainq'[d])
          /\ Range(gets'[d]) = Range(gets[d]) \cup Range(<<>>)
      BY <1>3, <1>4, <1>8, <1>9, <2>1, TakeRanges
    <2> QED BY <2>2, RangeOfEmpty
  <1>12. Head(mainq[d]).then.kind = "foundNotifications"
    BY <1>3 DEF Due
  <1>13. \A s, p : Pending(d, s, p)' <=> Pending(d, s, p)
    BY <1>11, <1>12 DEF Pending, CheckedLike, UserLike
  <1> QED BY <1>3, <1>10, <1>13, FreeStays

\* The posts of a screen are set, and all its cells bound to them.
LEMMA ScreenLoaded ==
    ASSUME LikesInv, NEW d \in Devices, NEW s \in ScreensOf(d), NEW ps, DOMAIN ps \subseteq Posts,
           setPosts(s, ps), PostsFine(d),
           \A t \in ScreensOf(d), c \in Cells : CellFine(d, t, c),
           \A t \in ScreensOf(d) \ {s} : posts'[t] = posts[t] => ScreenStays(d, t),
           \A p \in DOMAIN ps : CopyFine(d, s, p, ps[p])'
    PROVE  PostsFine(d)' /\ \A t \in ScreensOf(d), c \in Cells : CellFine(d, t, c)'
  <1>1. s \in Screens /\ ScreensOf(d) \subseteq Screens /\ ScreensOf(d)' = ScreensOf(d)
    BY DEF ScreensOf
  <1>2. posts'[s] = ps /\ \A t \in Screens : t # s => posts'[t] = posts[t]
    BY <1>1 DEF setPosts, LikesInv, ScreensOK
  <1>3. PICK f \in Layouts(Cells, DOMAIN ps, NoPost) :
          cell' = [cell EXCEPT ![s] = [c \in Cells |->
                   IF f[c] = NoPost THEN [cell[s][c] EXCEPT !.shown = FALSE]
                   ELSE ViewModel(ps, f[c])]]
    BY DEF setPosts, reloadData
  <1>4. f \in [Cells -> DOMAIN ps \cup {NoPost}]
    BY DEF Layouts
  <1> DEFINE M == [p : Posts \cup {NoPost}, likes : Counts, didLike : BOOLEAN, shown : BOOLEAN]
  <1>5. cell \in [Screens -> [Cells -> M]]
    BY DEF LikesInv, ScreensOK
  <1>6. /\ \A c \in Cells : cell'[s][c] = IF f[c] = NoPost THEN [cell[s][c] EXCEPT !.shown = FALSE]
                                          ELSE ViewModel(ps, f[c])
        /\ \A t \in Screens : t # s => cell'[t] = cell[t]
    BY <1>1, <1>3, <1>5
  <1>7. ASSUME NEW c \in Cells, cell'[s][c].shown
        PROVE  \E p \in DOMAIN ps : /\ cell'[s][c].p = p /\ cell'[s][c].likes = ps[p].likes
                                    /\ cell'[s][c].didLike = ps[p].didLike
    <2>1. cell[s][c] \in M
      BY <1>1, <1>5
    <2>2. f[c] # NoPost
      <3> SUFFICES ASSUME f[c] = NoPost PROVE FALSE
        OBVIOUS
      <3>1. cell'[s][c] = [cell[s][c] EXCEPT !.shown = FALSE]
        BY <1>6
      <3>2. ~cell'[s][c].shown
        BY <2>1, <3>1
      <3> QED BY <1>7, <3>2
    <2>3. cell'[s][c] = ViewModel(ps, f[c]) /\ f[c] \in DOMAIN ps
      BY <1>4, <1>6, <2>2
    <2> QED BY <2>3 DEF ViewModel
  <1>8. \A c \in Cells : CellFine(d, s, c)'
    <2> SUFFICES ASSUME NEW c \in Cells, cell'[s][c].shown PROVE CellFine(d, s, c)'
      BY DEF CellFine
    <2>1. PICK p \in DOMAIN ps : /\ cell'[s][c].p = p /\ cell'[s][c].likes = ps[p].likes
                                 /\ cell'[s][c].didLike = ps[p].didLike
      BY <1>7
    <2> QED BY <1>2, <2>1 DEF CellFine, CopyFine
  <1>9. \A t \in ScreensOf(d) \ {s} : ScreenStays(d, t) /\ cell'[t] = cell[t]
    BY <1>1, <1>2, <1>6
  <1>10. \A t \in ScreensOf(d) \ {s} : \A c \in Cells : CellFine(d, t, c)'
    BY <1>9, CellStays
  <1>11. \A t \in ScreensOf(d) \ {s} : \A p \in DOMAIN posts'[t] : CopyFine(d, t, p, posts[t][p])'
    BY <1>9, ListStays DEF PostsFine
  <1>12. \A p \in DOMAIN posts'[s] : CopyFine(d, s, p, posts[s][p])'
    BY <1>2 DEF CopyFine
  <1> QED BY <1>1, <1>8, <1>10, <1>11, <1>12 DEF PostsFine

\* New copies, all of them to be checked.
LEMMA LoadFree ==
    ASSUME LikesInv, NEW d \in Devices, PostsFine(d), Free(d), NEW s \in ScreensOf(d), NEW here \in SUBSET Posts,
           NEW ps, ps = [p \in here |-> Post(docs[PostDoc(p)])], setPosts(s, ps),
           mainq[d] # <<>>, Head(mainq[d]).then.kind # "checkedLike",
           Take(d, <<>>, checkIfUserLikedPosts(s, here))
    PROVE  PostsFine(d)' /\ Free(d)'
  <1>1. PICK rs : rs = checkIfUserLikedPosts(s, here)
    OBVIOUS
  <1>2. PICK Y : Y = {UserLike(UidOf[d], p) : p \in here}
    OBVIOUS
  <1>3. PICK r : r = Read(Y, TRUE, CheckedLike(s))
    OBVIOUS
  <1>4. UidAt(s) = UidOf[d] /\ UidOf[d] \in Users
    BY LikesAssumption DEF UidAt, ScreensOf
  <1>5. rs = IF Y = {} THEN <<>> ELSE <<r>>
    BY <1>1, <1>2, <1>3, <1>4 DEF checkIfUserLikedPosts, getEach
  <1>6. r.then = CheckedLike(s) /\ r.paths = Y
    BY <1>3 DEF Read
  <1>7. rs \in Seq({r}) /\ Range(rs) \subseteq {r} /\ (Y # {} => r \in Range(rs))
    <2>1. CASE rs = <<>> /\ Y = {}
      BY <2>1, RangeOfEmpty
    <2>2. CASE rs = <<r>>
      BY <2>2, RangeOfOne
    <2> QED BY <1>5, <2>1, <2>2
  <1>8. <<>> \in Seq({}) /\ \A w \in Range(<<>>) : w.paths \subseteq Notes /\ w.then = NoThen
    BY RangeOfEmpty
  <1>9. NotesOnly /\ OnlyNotes(d)' /\ OnlyRight(d)' /\ \A p \in Posts : Agreeing(d, p)'
    <2>1. Take(d, <<>>, rs)
      BY <1>1
    <2> QED BY <1>7, <1>8, <2>1, TakeFree
  <1>10. /\ docs' = docs
         /\ Range(mainq[d]) = {Head(mainq[d])} \cup Range(mainq'[d])
         /\ Range(gets'[d]) = Range(gets[d]) \cup Range(rs)
    <2>1. Take(d, <<>>, rs) /\ QueuesOK
      BY <1>1 DEF LikesInv
    <2> QED BY <1>7, <1>8, <2>1, TakeRanges
  <1>11. \A t : \A p : CheckTold(d, t, p)' <=> CheckTold(d, t, p)
    BY <1>10 DEF CheckTold, CheckedLike, UserLike
  <1>12. \A t : t # s => \A p : CheckAsked(d, t, p)' <=> CheckAsked(d, t, p)
    <2>1. \A t : t # s => CheckedLike(t) # CheckedLike(s)
      BY DEF CheckedLike
    <2> QED BY <1>6, <1>7, <1>10, <2>1 DEF CheckAsked
  <1>13. \A t : t # s => \A p : Pending(d, t, p)' <=> Pending(d, t, p)
    BY <1>11, <1>12 DEF Pending, CheckAsked, CheckTold
  <1>14. \A p \in here : Pending(d, s, p)'
    <2> TAKE p \in here
    <2>1. UserLike(UidOf[d], p) \in r.paths
      BY <1>2, <1>6
    <2>2. r \in Range(gets'[d])
      BY <1>6, <1>7, <1>10, <2>1
    <2> QED BY <1>6, <2>1, <2>2 DEF Pending
  <1>15. DOMAIN ps = here /\ \A p \in DOMAIN ps : CopyFine(d, s, p, ps[p])'
    <2>1. DOMAIN ps = here /\ \A p \in here : ps[p].likes = docs'[PostDoc(p)]
      BY <1>10 DEF Post
    <2> QED BY <1>14, <2>1 DEF CopyFine
  <1>16. \A t \in ScreensOf(d) \ {s} : posts'[t] = posts[t] => ScreenStays(d, t)
    <2>1. \A t \in ScreensOf(d) : DOMAIN posts[t] \subseteq Posts
      BY DEF LikesInv, ScreensOK, ScreensOf
    <2> QED BY <1>9, <1>13, <2>1, NotesKeep DEF ScreenStays
  <1>17. PostsFine(d)' /\ \A t \in ScreensOf(d), c \in Cells : CellFine(d, t, c)'
    <2>1. \A t \in ScreensOf(d), c \in Cells : CellFine(d, t, c)
      BY DEF Free
    <2> QED BY <1>15, <1>16, <2>1, ScreenLoaded
  <1>18. ScreensOf(d)' = ScreensOf(d)
    BY DEF ScreensOf
  <1> QED BY <1>9, <1>17, <1>18 DEF Free, OnlyNotes, OnlyRight

\* The answer that is at the head of the main queue says what the server has.
LEMMA RightCounts ==
    ASSUME NEW d \in Devices, Free(d), mainq[d] # <<>>, LikesInv
    PROVE  /\ AnswerRight(Head(mainq[d])) /\ ~IsMark(Head(mainq[d]))
           /\ \A p \in Posts : docs[PostDoc(p)] \in Nat /\ docs[PostDoc(p)] # NoDoc
  <1>1. mainq[d] \in Seq(BlocksOf(d))
    BY DEF LikesInv, QueuesOK
  <1>2. Head(mainq[d]) \in Range(mainq[d])
    BY <1>1, RangeOfTail
  <1>3. \A p \in Posts : docs[PostDoc(p)] \in Nat
    BY OthersNat DEF Free, Agreeing, Counted, Bit
  <1> QED BY <1>2, <1>3, LikesAssumption DEF Free

LEMMA FetchedPostsFree ==
    ASSUME LikesInv, NEW d \in Devices, PostsFine(d), Free(d), fetchedPosts(d)
    PROVE  PostsFine(d)' /\ Free(d)'
  <1>1. PICK s : s = Block(d).s
    OBVIOUS
  <1>2. PICK here : here = {p \in Posts : Result(d)[PostDoc(p)] # NoDoc}
    OBVIOUS
  <1>3. PICK ps : ps = [p \in here |-> Post(Result(d)[PostDoc(p)])]
    OBVIOUS
  <1>4. /\ Due(d, "fetchedPosts") /\ setPosts(s, ps)
        /\ Take(d, <<>>, checkIfUserLikedPosts(s, here))
    BY <1>1, <1>2, <1>3 DEF fetchedPosts
  <1>5. Head(mainq[d]) \in ListAnswers(d) /\ mainq[d] # <<>>
    BY <1>4, DueBlock
  <1>6. s = <<d, Home>> /\ DOMAIN Result(d) = PostDocs
    BY <1>1, <1>5 DEF ListAnswers, ListBlocks, Block, Result
  <1>7. s \in ScreensOf(d)
    BY <1>6, HomeScreen DEF ScreensOf
  <1>8. \A p \in Posts : Result(d)[PostDoc(p)] = docs[PostDoc(p)]
    BY <1>5, <1>6, RightCounts DEF AnswerRight, Result, PostDocs
  <1>9. here \in SUBSET Posts /\ ps = [p \in here |-> Post(docs[PostDoc(p)])]
    BY <1>2, <1>3, <1>8
  <1>10. Head(mainq[d]).then.kind # "checkedLike"
    BY <1>4 DEF Due
  <1> QED BY <1>4, <1>5, <1>7, <1>9, <1>10, LoadFree

LEMMA FetchedPostFree ==
    ASSUME LikesInv, NEW d \in Devices, PostsFine(d), Free(d), fetchedPost(d)
    PROVE  PostsFine(d)' /\ Free(d)'
  <1>1. PICK s : s = Block(d).s
    OBVIOUS
  <1>2. Due(d, "fetchedPost")
    BY DEF fetchedPost
  <1>3. Head(mainq[d]) \in DetailAnswers(d) /\ mainq[d] # <<>>
    BY <1>2, DueBlock
  <1>4. s \in Details /\ DeviceOf(s) = d /\ DOMAIN Result(d) = {PostDoc(s[2])}
    BY <1>1, <1>3 DEF DetailAnswers, DetailBlocks, Block, Result
  <1>5. s \in ScreensOf(d) /\ s[2] \in Posts
    BY <1>4, LikesAssumption DEF ScreensOf, Screens
  <1>6. Result(d)[PostDoc(s[2])] = docs[PostDoc(s[2])] /\ docs[PostDoc(s[2])] # NoDoc
    BY <1>3, <1>4, <1>5, RightCounts DEF AnswerRight, Result, PostDocs
  <1>7. PICK ps : ps = [p \in {s[2]} |-> Post(Result(d)[PostDoc(s[2])])]
    OBVIOUS
  <1>8. setPosts(s, ps) /\ Take(d, <<>>, checkIfUserLikedPosts(s, {s[2]}))
    BY <1>1, <1>6, <1>7 DEF fetchedPost
  <1>9. {s[2]} \in SUBSET Posts /\ ps = [p \in {s[2]} |-> Post(docs[PostDoc(p)])]
    BY <1>5, <1>6, <1>7
  <1>10. Head(mainq[d]).then.kind # "checkedLike"
    BY <1>2 DEF Due
  <1> QED BY <1>3, <1>5, <1>8, <1>9, <1>10, LoadFree

\* The heart of a new copy is set: the counter it was made with still is right.
LEMMA CheckedLikeFree ==
    ASSUME LikesInv, NEW d \in Devices, PostsFine(d), Free(d), checkedLike(d)
    PROVE  PostsFine(d)' /\ Free(d)'
  <1>1. PICK s : s = Block(d).s
    OBVIOUS
  <1>2. PICK b : b = Head(mainq[d])
    OBVIOUS
  <1>3. Due(d, "checkedLike") /\ Take(d, <<>>, <<>>)
    BY DEF checkedLike
  <1>4. b \in CheckAnswers(d) /\ mainq[d] # <<>>
    BY <1>2, <1>3, DueBlock
  <1>5. s \in ScreensOf(d) /\ b.then = CheckedLike(s)
    BY <1>1, <1>2, <1>4 DEF CheckAnswers, CheckBlocks, Block, CheckedLike
  <1>6. UidAt(s) = UidOf[d] /\ UidOf[d] \in Users
    BY <1>5, LikesAssumption DEF UidAt, ScreensOf
  <1>7. PICK p \in Posts :
            /\ UserLike(UidOf[d], p) \in DOMAIN b.res
            /\ IF p \in DOMAIN posts[s]
               THEN setPosts(s, [posts[s] EXCEPT ![p].didLike = (b.res[UserLike(UidOf[d], p)] # NoDoc)])
               ELSE UNCHANGED <<posts, cell>>
    BY <1>1, <1>2, <1>6 DEF checkedLike, Result
  <1>8. DOMAIN b.res = {UserLike(UidOf[d], p)}
    BY <1>4, <1>7 DEF CheckAnswers
  <1>9. <<>> \in Seq({}) /\ \A w \in Range(<<>>) : w.paths \subseteq Notes /\ w.then = NoThen
    BY RangeOfEmpty
  <1>10. /\ NotesOnly /\ OnlyNotes(d)' /\ OnlyRight(d)' /\ \A q \in Posts : Agreeing(d, q)'
         /\ AnswerRight(b)
    BY <1>2, <1>3, <1>4, <1>9, TakeFree
  <1>11. /\ docs' = docs
         /\ Range(mainq[d]) = {b} \cup Range(mainq'[d])
         /\ Range(gets'[d]) = Range(gets[d])
    <2>1. QueuesOK
      BY DEF LikesInv
    <2>2. /\ docs' = docs
          /\ Range(mainq[d]) = {Head(mainq[d])} \cup Range(mainq'[d])
          /\ Range(gets'[d]) = Range(gets[d]) \cup Range(<<>>)
      BY <1>3, <1>4, <1>9, <2>1, TakeRanges
    <2> QED BY <1>2, <2>2, RangeOfEmpty
  <1>12. \A t : \A q : CheckAsked(d, t, q)' <=> CheckAsked(d, t, q)
    BY <1>11 DEF CheckAsked
  <1>13. \A t : \A q \in Posts : t # s \/ q # p => (CheckTold(d, t, q)' <=> CheckTold(d, t, q))
    <2>1. \A t : t # s => CheckedLike(t) # CheckedLike(s)
      BY DEF CheckedLike
    <2>2. \A q \in Posts : q # p => UserLike(UidOf[d], q) \notin DOMAIN b.res
      BY <1>6, <1>8, PathsApart
    <2> QED BY <1>5, <1>11, <2>1, <2>2 DEF CheckTold
  <1>14. \A t : \A q \in Posts : t # s \/ q # p => (Pending(d, t, q)' <=> Pending(d, t, q))
    BY <1>12, <1>13 DEF Pending, CheckAsked, CheckTold
  <1>15. \A t \in ScreensOf(d) : DOMAIN posts[t] \subseteq Posts
    BY DEF LikesInv, ScreensOK, ScreensOf
  <1>16. CASE p \notin DOMAIN posts[s]
    <2>1. posts' = posts /\ cell' = cell
      BY <1>7, <1>16
    <2>2. \A t \in ScreensOf(d) : \A q \in DOMAIN posts[t] : Pending(d, t, q)' <=> Pending(d, t, q)
      BY <1>14, <1>15, <1>16
    <2> QED BY <1>10, <2>1, <2>2, FreeStays
  <1>17. CASE p \in DOMAIN posts[s]
    <2>1. PICK v : v = (b.res[UserLike(UidOf[d], p)] # NoDoc)
      OBVIOUS
    <2>2. PICK ps : ps = [posts[s] EXCEPT ![p].didLike = v]
      OBVIOUS
    <2>3. setPosts(s, ps)
      BY <1>7, <1>17, <2>1, <2>2
    <2>4. DOMAIN ps = DOMAIN posts[s] /\ \A q \in DOMAIN posts[s] : q # p => ps[q] = posts[s][q]
      BY <2>2
    <2>5. ps[p].likes = posts[s][p].likes /\ ps[p].didLike = v
      <3>1. posts[s][p] \in [likes : Counts, didLike : BOOLEAN]
        BY <1>5, <1>17 DEF LikesInv, ScreensOK, ScreensOf
      <3>2. ps[p] = [posts[s][p] EXCEPT !.didLike = v]
        BY <1>17, <2>2
      <3> QED BY <3>1, <3>2
    <2>6. Pending(d, s, p) /\ posts[s][p].likes = docs[PostDoc(p)]
      <3>1. Pending(d, s, p)
        BY <1>5, <1>7, <1>11 DEF Pending
      <3> QED BY <1>5, <1>17, <3>1 DEF PostsFine, CopyFine
    <2>7. docs[PostDoc(p)] = Others(d, p) + Bit(v)
      <3>1. UserLike(UidOf[d], p) \in UserLikes
        <4>1. <<UidOf[d], p>> \in Users \X Posts
          BY <1>6
        <4> QED BY <4>1 DEF UserLikes
      <3>2. v <=> Listed(UidOf[d], p)
        BY <1>7, <1>10, <2>1, <3>1 DEF AnswerRight, Listed
      <3>3. Agreeing(d, p)
        BY DEF Free
      <3> QED BY <3>2, <3>3 DEF Agreeing, Counted, Paired, Bit
    <2>8. \A q \in Posts : Others(d, q)' = Others(d, q) /\ docs'[PostDoc(q)] = docs[PostDoc(q)]
      BY <1>10, NotesKeep
    <2>9. CopyFine(d, s, p, ps[p])'
      BY <2>5, <2>6, <2>7, <2>8 DEF CopyFine
    <2>10. ASSUME NEW q \in DOMAIN ps, q # p PROVE CopyFine(d, s, q, ps[q])'
      <3>1. q \in Posts /\ ps[q] = posts[s][q] /\ q \in DOMAIN posts[s]
        BY <1>5, <1>15, <2>4, <2>10
      <3>2. PICK x : x = ps[q]
        OBVIOUS
      <3>3. CopyFine(d, s, q, x)
        BY <1>5, <3>1, <3>2 DEF PostsFine, CopyFine
      <3>4. CopyFine(d, s, q, x)'
        BY <1>14, <2>8, <2>10, <3>1, <3>3, CopyStays
      <3> QED BY <3>2, <3>4
    <2>11. \A t \in ScreensOf(d) \ {s} : posts'[t] = posts[t] => ScreenStays(d, t)
      BY <1>14, <1>15, <2>8 DEF ScreenStays
    <2>12. PostsFine(d)' /\ \A t \in ScreensOf(d), c \in Cells : CellFine(d, t, c)'
      <3>1. \A t \in ScreensOf(d), c \in Cells : CellFine(d, t, c)
        BY DEF Free
      <3>2. DOMAIN ps \subseteq Posts
        BY <1>5, <1>15, <2>4
      <3>3. \A q \in DOMAIN ps : CopyFine(d, s, q, ps[q])'
        BY <2>9, <2>10
      <3> QED BY <1>5, <2>3, <2>11, <3>1, <3>2, <3>3, ScreenLoaded
    <2>13. ScreensOf(d)' = ScreensOf(d)
      BY DEF ScreensOf
    <2> QED BY <1>10, <2>12, <2>13 DEF Free, OnlyNotes, OnlyRight
  <1> QED BY <1>16, <1>17

\* Every step of the network and of the main queue while no tap is in flight.
LEMMA FreeStep ==
    ASSUME ~Failures, LikesInv, NEW d \in Devices, PostsFine(d), Free(d), Deliver(d) \/ MainQueue(d)
    PROVE  PostsFine(d)' /\ Free(d)'
  <1>1. CASE Deliver(d)
    <2>1. Network(d) /\ posts' = posts /\ cell' = cell
      BY <1>1 DEF Deliver
    <2>2. Answer(d, TRUE) \/ \E i \in DOMAIN gets[d] : Resolve(d, i)
      BY <2>1 DEF Network, Serve, Fail, Refuse, Lose, Commit
    <2> QED BY <2>1, <2>2, AnswerFree, ResolveFree
  <1>2. CASE MainQueue(d)
    <2>1. ~firstMarkDone(d) /\ ~secondMarkDone(d)
      <3> SUFFICES ASSUME firstMarkDone(d) \/ secondMarkDone(d) PROVE FALSE
        OBVIOUS
      <3>1. mainq[d] # <<>> /\ Head(mainq[d]).then.kind \in {"firstMarkDone", "secondMarkDone"}
        BY MainDue DEF Due
      <3>2. ~IsMark(Head(mainq[d]))
        BY <3>1, RightCounts
      <3> QED BY <3>1, <3>2 DEF IsMark
    <2> QED BY <1>2, <2>1, FetchedPostsFree, FetchedPostFree, CheckedLikeFree, FoundFree DEF MainQueue
  <1> QED BY <1>1, <1>2

-----------------------------------------------------------------------------
(* Touches, of a device of which nothing is in flight.                     *)
LEMMA QuietFacts ==
    ASSUME LikesInv, NEW d \in Devices, Quiet(d), ExactAt(d)
    PROVE  /\ Free(d) /\ PostsFine(d)
           /\ queue[d] = <<>> /\ gets[d] = <<>> /\ mainq[d] = <<>>
           /\ \A s, p : ~Pending(d, s, p)
  <1>1. queue[d] = <<>> /\ gets[d] = <<>> /\ mainq[d] = <<>>
    BY DEF Quiet
  <1>2. \A op : ~Tapping(d, op)
    BY <1>1 DEF Tapping, Counting, Liking, Chaining, Listing, Ending
  <1>3. Free(d) /\ PostsFine(d)
    BY <1>2 DEF ExactAt
  <1>4. Range(gets[d]) = {} /\ Range(mainq[d]) = {}
    BY <1>1, RangeOfEmpty
  <1> QED BY <1>1, <1>3, <1>4, NonePending

\* A read, other than a check, is issued, and perhaps all posts dropped.
LEMMA QuietRead ==
    ASSUME LikesInv, NEW d \in Devices, Quiet(d), ExactAt(d), NEW r, NEW k, r.then.kind = k, k # "checkedLike",
           Issue(d, <<>>, <<r>>)
    PROVE  /\ NotesOnly /\ OnlyNotes(d)' /\ OnlyRight(d)' /\ \A p \in Posts : Agreeing(d, p)'
           /\ \A s, p : ~Pending(d, s, p)'
  <1>1. /\ Free(d)
        /\ queue[d] = <<>> /\ gets[d] = <<>> /\ mainq[d] = <<>>
    BY QuietFacts
  <1>2. /\ docs' = docs /\ mainq' = mainq
        /\ queue' = [queue EXCEPT ![d] = @ \o <<>>] /\ gets' = [gets EXCEPT ![d] = @ \o <<r>>]
    BY DEF Issue
  <1>3. queue'[d] = queue[d] \o <<>> /\ gets'[d] = gets[d] \o <<r>>
    BY <1>2 DEF LikesInv, QueuesOK
  <1>4. queue'[d] = <<>> /\ gets'[d] = <<r>> /\ mainq'[d] = <<>>
    BY <1>1, <1>2, <1>3
  <1>5. Range(queue'[d]) = {} /\ Range(gets'[d]) = {r} /\ Range(mainq'[d]) = {}
    BY <1>4, RangeOfEmpty, RangeOfOne
  <1>6. NotesOnly
    BY <1>2 DEF NotesOnly
  <1>7. OnlyNotes(d)' /\ OnlyRight(d)'
    BY <1>5 DEF OnlyNotes, OnlyRight
  <1>8. \A s, p : ~Pending(d, s, p)'
    BY <1>5 DEF Pending, CheckedLike
  <1>9. \A p \in Posts : Agreeing(d, p)'
    BY <1>1, <1>6, NotesKeep DEF Free
  <1> QED BY <1>6, <1>7, <1>8, <1>9

LEMMA WantsFree ==
    ASSUME LikesInv, NEW s \in Screens, Quiet(DeviceOf(s)), ExactAt(DeviceOf(s)), wantsToViewPost(s)
    PROVE  ExactAt(DeviceOf(s))'
  <1>1. PICK d \in Devices : d = DeviceOf(s)
    BY ScreenFacts
  <1>2. PICK r : r = getDocument(PostDoc(s[2]), FetchedPost(s))
    OBVIOUS
  <1>3. posts' = posts /\ cell' = cell /\ Issue(d, <<>>, <<r>>)
    BY <1>1, <1>2 DEF wantsToViewPost
  <1>4. r.then.kind = "fetchedPost"
    BY <1>2 DEF getDocument, Read, FetchedPost
  <1>5. NotesOnly /\ OnlyNotes(d)' /\ OnlyRight(d)' /\ \A t, p : ~Pending(d, t, p)'
    BY <1>1, <1>3, <1>4, QuietRead
  <1>6. Free(d) /\ PostsFine(d) /\ \A t, p : ~Pending(d, t, p)
    BY <1>1, QuietFacts
  <1>7. PostsFine(d)' /\ Free(d)'
    BY <1>3, <1>5, <1>6, FreeStays
  <1>8. ExactAt(d)'
    BY <1>7 DEF ExactAt
  <1> QED BY <1>1, <1>8

LEMMA RefreshFree ==
    ASSUME LikesInv, NEW s \in Screens, Quiet(DeviceOf(s)), ExactAt(DeviceOf(s)), handleRefresh(s)
    PROVE  ExactAt(DeviceOf(s))'
  <1>1. PICK d \in Devices : d = DeviceOf(s)
    BY ScreenFacts
  <1>2. PICK r : r = fetchPosts(s)
    OBVIOUS
  <1>3. setPosts(s, NoPosts) /\ Issue(d, <<>>, <<r>>)
    BY <1>1, <1>2 DEF handleRefresh
  <1>4. r.then.kind = "fetchedPosts"
    BY <1>2 DEF fetchPosts, getDocuments, Read, FetchedPosts
  <1>5. /\ NotesOnly /\ OnlyNotes(d)' /\ OnlyRight(d)' /\ \A p \in Posts : Agreeing(d, p)'
        /\ \A t, p : ~Pending(d, t, p)'
    BY <1>1, <1>3, <1>4, QuietRead
  <1>6. Free(d) /\ PostsFine(d) /\ \A t, p : ~Pending(d, t, p)
    BY <1>1, QuietFacts
  <1>7. \A t \in ScreensOf(d) \ {s} : posts'[t] = posts[t] => ScreenStays(d, t)
    <2>1. \A t \in ScreensOf(d) : DOMAIN posts[t] \subseteq Posts
      BY DEF LikesInv, ScreensOK, ScreensOf
    <2> QED BY <1>5, <1>6, <2>1, NotesKeep DEF ScreenStays
  <1>8. s \in ScreensOf(d)
    BY <1>1, ScreenFacts
  <1>9. PostsFine(d)' /\ \A t \in ScreensOf(d), c \in Cells : CellFine(d, t, c)'
    <2>1. \A t \in ScreensOf(d), c \in Cells : CellFine(d, t, c)
      BY <1>6 DEF Free
    <2>2. PICK ps : ps = NoPosts
      OBVIOUS
    <2>3. DOMAIN ps = {}
      BY <2>2, NoPostsType
    <2>4. DOMAIN ps \subseteq Posts /\ \A p \in DOMAIN ps : CopyFine(d, s, p, ps[p])'
      BY <2>3
    <2> QED BY <1>3, <1>6, <1>7, <1>8, <2>1, <2>2, <2>4, ScreenLoaded
  <1>10. ScreensOf(d)' = ScreensOf(d)
    BY DEF ScreensOf
  <1>11. Free(d)'
    BY <1>5, <1>9, <1>10 DEF Free, OnlyNotes, OnlyRight
  <1>12. ExactAt(d)'
    BY <1>9, <1>11 DEF ExactAt
  <1> QED BY <1>1, <1>12

\* A cell comes on screen with the copy of its post.
LEMMA ScrollFree ==
    ASSUME LikesInv, NEW s \in Screens, NEW c \in Cells, NEW p \in DOMAIN posts[s],
           Quiet(DeviceOf(s)), ExactAt(DeviceOf(s)), cellForItemAt(s, c, p)
    PROVE  ExactAt(DeviceOf(s))'
  <1>1. PICK d \in Devices : d = DeviceOf(s)
    BY ScreenFacts
  <1>2. /\ docs' = docs /\ queue' = queue /\ gets' = gets /\ mainq' = mainq /\ posts' = posts
        /\ cell' = [cell EXCEPT ![s][c] = ViewModel(posts[s], p)]
    BY DEF cellForItemAt
  <1>3. s \in ScreensOf(d)
    BY <1>1, ScreenFacts
  <1>4. Free(d) /\ PostsFine(d)
    BY <1>1, QuietFacts
  <1>5. NotesOnly
    BY <1>2 DEF NotesOnly
  <1>6. \A t \in ScreensOf(d) : ScreenStays(d, t)
    <2>1. \A t \in ScreensOf(d) : DOMAIN posts[t] \subseteq Posts
      BY DEF LikesInv, ScreensOK, ScreensOf
    <2>2. \A t, q : Pending(d, t, q)' <=> Pending(d, t, q)
      BY <1>2 DEF Pending
    <2> QED BY <1>2, <1>5, <2>1, <2>2, NotesKeep DEF ScreenStays
  <1>7. ScreensOf(d)' = ScreensOf(d) /\ ScreensOf(d) \subseteq Screens
    BY DEF ScreensOf
  <1>8. PostsFine(d)'
    BY <1>2, <1>4, <1>6, <1>7, ListStays DEF PostsFine
  <1>9. /\ cell'[s][c] = ViewModel(posts[s], p)
        /\ \A t \in Screens, b \in Cells : <<t, b>> # <<s, c>> => cell'[t][b] = cell[t][b]
    <2>1. DOMAIN cell = Screens /\ DOMAIN cell[s] = Cells
      BY DEF LikesInv, ScreensOK
    <2>2. PICK k : k = ViewModel(posts[s], p)
      OBVIOUS
    <2> QED BY <1>2, <2>1, <2>2
  <1>10. ASSUME NEW t \in ScreensOf(d), NEW b \in Cells PROVE CellFine(d, t, b)'
    <2>1. CASE <<t, b>> # <<s, c>>
      BY <1>4, <1>6, <1>7, <1>9, <2>1, CellStays DEF Free
    <2>2. CASE t = s /\ b = c
      <3>1. p \in DOMAIN posts'[s] /\ CopyFine(d, s, p, posts[s][p])'
        BY <1>2, <1>3, <1>7, <1>8 DEF PostsFine
      <3>2. /\ cell'[s][c].p = p /\ cell'[s][c].likes = posts'[s][p].likes
            /\ cell'[s][c].didLike = posts'[s][p].didLike
        BY <1>2, <1>9 DEF ViewModel
      <3> QED BY <2>2, <3>1, <3>2 DEF CellFine, CopyFine
    <2> QED BY <2>1, <2>2
  <1>11. \A q \in Posts : Agreeing(d, q)'
    BY <1>4, <1>5, NotesKeep DEF Free
  <1>12. OnlyNotes(d)' /\ OnlyRight(d)'
    <2>1. Notes' = Notes
      BY DEF Notes, LikeNotifications, LikeNotification
    <2>2. OnlyNotes(d)'
      BY <1>2, <1>4, <2>1 DEF OnlyNotes, Free
    <2>3. OnlyRight(d)'
      BY <1>2, <1>4, <1>5, NotesKeep DEF OnlyRight, Free, IsMark
    <2> QED BY <2>2, <2>3
  <1>13. Free(d)'
    BY <1>7, <1>10, <1>11, <1>12 DEF Free, OnlyNotes, OnlyRight
  <1>14. ExactAt(d)'
    BY <1>8, <1>13 DEF ExactAt
  <1> QED BY <1>1, <1>14

\* The heart of one cell is toggled.
TogglesHeart(s, c) == cell' = [cell EXCEPT ![s][c].didLike = ~@]

LEMMA CellHeart ==
    ASSUME ScreensOK, NEW s \in Screens, NEW c \in Cells, TogglesHeart(s, c)
    PROVE  /\ \A t \in Screens, b \in Cells : <<t, b>> # <<s, c>> => cell'[t][b] = cell[t][b]
           /\ cell'[s][c].likes = cell[s][c].likes
           /\ cell'[s][c].p = cell[s][c].p
           /\ cell'[s][c].didLike = ~cell[s][c].didLike
           /\ cell[s][c].didLike \in BOOLEAN /\ cell[s][c].likes \in Counts
  <1> DEFINE M == [p : Posts \cup {NoPost}, likes : Counts, didLike : BOOLEAN, shown : BOOLEAN]
  <1>1. cell \in [Screens -> [Cells -> M]]
    BY DEF ScreensOK
  <1>2. PICK k : k = [cell[s][c] EXCEPT !.didLike = ~@]
    OBVIOUS
  <1>3. cell[s][c] \in M
    BY <1>1
  <1>4. k.likes = cell[s][c].likes /\ k.p = cell[s][c].p /\ k.didLike = ~cell[s][c].didLike
    BY <1>2, <1>3
  <1>5. cell' = [cell EXCEPT ![s][c] = k]
    BY <1>2 DEF TogglesHeart
  <1>6. cell[s][c].didLike \in BOOLEAN /\ cell[s][c].likes \in Counts
    BY <1>3
  <1> HIDE DEF M
  <1>7. cell'[s][c] = k /\ \A t \in Screens, b \in Cells : <<t, b>> # <<s, c>> => cell'[t][b] = cell[t][b]
    BY <1>1, <1>5
  <1> QED BY <1>4, <1>6, <1>7

\* The heart of a visible cell is tapped: the copy it captures is right.
LEMMA TapFree ==
    ASSUME LikesInv, NEW s \in Screens, NEW c \in Cells,
           Quiet(DeviceOf(s)), ExactAt(DeviceOf(s)), didTapLike(s, c)
    PROVE  ExactAt(DeviceOf(s))'
  <1>1. PICK d \in Devices : d = DeviceOf(s)
    BY ScreenFacts
  <1>2. PICK m : m = cell[s][c]
    OBVIOUS
  <1>3. PICK op : op = [s |-> s, c |-> c, p |-> m.p, likes |-> m.likes, like |-> ~m.didLike, n |-> ops + 1]
    OBVIOUS
  <1>4. PICK ws : ws = IF m.didLike THEN unlikePost(op) ELSE likePost(op)
    OBVIOUS
  <1>5. m.shown /\ TogglesHeart(s, c) /\ Issue(d, ws, <<>>) /\ posts' = posts
    BY <1>1, <1>2, <1>3, <1>4 DEF didTapLike, TogglesHeart
  <1>6. /\ \A t \in Screens, b \in Cells : <<t, b>> # <<s, c>> => cell'[t][b] = cell[t][b]
        /\ cell'[s][c].likes = m.likes /\ cell'[s][c].p = m.p /\ cell'[s][c].didLike = ~m.didLike
        /\ m.didLike \in BOOLEAN /\ m.likes \in Counts
    BY <1>2, <1>5, CellHeart DEF LikesInv
  <1>7. s \in ScreensOf(d)
    BY <1>1, ScreenFacts
  <1>8. /\ Free(d) /\ PostsFine(d)
        /\ queue[d] = <<>> /\ gets[d] = <<>> /\ mainq[d] = <<>>
        /\ \A t, p : ~Pending(d, t, p)
    BY <1>1, QuietFacts
  <1>9. m.p \in DOMAIN posts[s] /\ m.likes = Others(d, m.p) + Bit(m.didLike)
    <2>1. CellFine(d, s, c)
      BY <1>7, <1>8 DEF Free
    <2> QED BY <1>2, <1>5, <1>8, <2>1 DEF CellFine, CopyFine
  <1>10. m.p \in Posts
    BY <1>7, <1>9 DEF LikesInv, ScreensOK, ScreensOf
  <1>11. /\ op.s = s /\ op.c = c /\ op.p = m.p /\ op.likes = m.likes /\ op.like = ~m.didLike /\ op.like \in BOOLEAN
    BY <1>3, <1>6
  <1>12. op \in Taps(d)
    <2>1. m.likes \in Nat
      BY <1>6, CountType, OpsNat DEF Counts
    <2>2. ops + 1 \in Nat
      BY OpsNat
    <2> QED BY <1>3, <1>6, <1>7, <1>10, <2>1, <2>2 DEF Taps
  <1>13. ws = <<Count(op), First(op)>>
    <2>1. CASE m.didLike
      <3>1. op.likes > 0 /\ ~op.like
        <4>1. Others(d, m.p) \in Nat
          BY OthersNat
        <4>2. Bit(m.didLike) = 1
          BY <2>1 DEF Bit
        <4>3. m.likes > 0
          BY <1>9, <4>1, <4>2
        <4> QED BY <1>11, <2>1, <4>3
      <3> QED BY <1>4, <2>1, <3>1 DEF unlikePost, Count, First
    <2>2. CASE ~m.didLike
      BY <1>4, <1>6, <1>11, <2>2 DEF likePost, Count, First
    <2> QED BY <2>1, <2>2
  <1>14. docs' = docs /\ queue'[d] = <<Count(op), First(op)>> /\ gets'[d] = <<>> /\ mainq'[d] = <<>>
    <2>1. docs' = docs /\ mainq' = mainq /\ queue'[d] = queue[d] \o ws /\ gets'[d] = gets[d] \o <<>>
      BY <1>5 DEF Issue, LikesInv, QueuesOK
    <2> QED BY <1>8, <1>13, <2>1
  <1>15. NotesOnly
    BY <1>14 DEF NotesOnly
  <1>16. \A t, p : ~Pending(d, t, p)'
    <2>1. Range(gets'[d]) = {} /\ Range(mainq'[d]) = {}
      BY <1>14, RangeOfEmpty
    <2> QED BY <2>1 DEF Pending
  <1>17. \A t \in ScreensOf(d) : ScreenStays(d, t)
    <2>1. \A t \in ScreensOf(d) : DOMAIN posts[t] \subseteq Posts
      BY DEF LikesInv, ScreensOK, ScreensOf
    <2> QED BY <1>5, <1>8, <1>15, <1>16, <2>1, NotesKeep DEF ScreenStays
  <1>18. ScreensOf(d)' = ScreensOf(d) /\ ScreensOf(d) \subseteq Screens
    BY DEF ScreensOf
  <1>19. PostsFine(d)'
    BY <1>5, <1>8, <1>17, <1>18, ListStays DEF PostsFine
  <1>20. \A p \in Posts : Agreeing(d, p)' /\ Others(d, p)' = Others(d, p)
    BY <1>8, <1>15, NotesKeep DEF Free
  <1>21. TapFine(d, op)'
    <2>1. op.likes = Others(d, op.p)' + Bit(~op.like)
      BY <1>6, <1>9, <1>10, <1>11, <1>20 DEF Bit
    <2>2. Captured(op)'
      BY <1>5, <1>6, <1>9, <1>11 DEF Captured
    <2>3. ASSUME NEW t \in ScreensOf(d), NEW b \in Cells, <<t, b>> # <<op.s, op.c>> PROVE CellFine(d, t, b)'
      <3>1. cell'[t][b] = cell[t][b]
        BY <1>6, <1>11, <1>18, <2>3
      <3> QED BY <1>8, <1>17, <3>1, CellStays DEF Free
    <2> QED BY <1>14, <1>18, <1>20, <2>1, <2>2, <2>3 DEF TapFine
  <1>22. Counting(d, op)'
    BY <1>10, <1>11, <1>14, <1>20 DEF Counting
  <1>23. Tapping(d, op)'
    BY <1>21, <1>22 DEF Tapping
  <1>24. Taps(d)' = Taps(d)
    BY <1>18 DEF Taps
  <1>25. ExactAt(d)'
    BY <1>12, <1>19, <1>23, <1>24 DEF ExactAt
  <1> QED BY <1>1, <1>25

-----------------------------------------------------------------------------
LEMMA ExactInit == Init => ExactInv
  <1> SUFFICES ASSUME Init, NEW d \in Devices PROVE ExactAt(d)
    BY DEF ExactInv
  <1>1. PICK liked \in InitialLikes :
         docs = [x \in Documents |->
            CASE x[1] = "posts"      -> Cardinality({u \in Users : <<x[2], u>> \in liked})
              [] x[1] = "post-likes" -> IF <<x[2], x[3]>> \in liked THEN Marked ELSE NoDoc
              [] x[1] = "user-likes" -> IF <<x[3], x[2]>> \in liked THEN Marked ELSE NoDoc
              [] x[1] = "user-notifications" ->
                   IF <<x[4], x[3]>> \in liked /\ x[2] # x[3] /\ x[5] = 0 THEN Marked ELSE NoDoc]
    BY DEF Init
  <1>2. UidOf[d] \in Users
    BY LikesAssumption
  <1>3. \A p \in Posts : docs[PostDoc(p)] = Cardinality({u \in Users : <<p, u>> \in liked})
    <2> TAKE p \in Posts
    <2>1. PostDoc(p) \in Documents /\ PostDoc(p)[1] = "posts" /\ PostDoc(p)[2] = p
      BY <1>2, PathsApart DEF PostDoc
    <2> QED BY <1>1, <2>1
  <1>4. ASSUME NEW p \in Posts, NEW u \in Users
        PROVE  (Liked(p, u) <=> <<p, u>> \in liked) /\ (Listed(u, p) <=> <<p, u>> \in liked)
    <2>1. PostLike(p, u) \in Documents /\ PostLike(p, u)[1] = "post-likes" /\ PostLike(p, u)[2] = p /\ PostLike(p, u)[3] = u
      BY PathsApart DEF PostLike
    <2>2. UserLike(u, p) \in Documents /\ UserLike(u, p)[1] = "user-likes" /\ UserLike(u, p)[2] = u /\ UserLike(u, p)[3] = p
      BY PathsApart DEF UserLike
    <2>3. docs[PostLike(p, u)] = IF <<p, u>> \in liked THEN Marked ELSE NoDoc
      BY <1>1, <2>1
    <2>4. docs[UserLike(u, p)] = IF <<p, u>> \in liked THEN Marked ELSE NoDoc
      BY <1>1, <2>2
    <2> QED BY <2>3, <2>4, LikesAssumption DEF Liked, Listed
  <1>5. \A p \in Posts : Agreeing(d, p)
    <2> TAKE p \in Posts
    <2>1. {u \in Users : <<p, u>> \in liked} = {u \in Users : Liked(p, u)}
      BY <1>4
    <2>2. Counted(d, p, Liked(p, UidOf[d]))
      BY <1>3, <2>1, CountAll DEF Counted
    <2> QED BY <1>2, <1>4, <2>2 DEF Agreeing, Paired
  <1>6. /\ queue[d] = <<>> /\ mainq[d] = <<>>
        /\ posts = [s \in Screens |-> NoPosts] /\ cell = [s \in Screens |-> [c \in Cells |-> Blank]]
    BY DEF Init
  <1>7. \A s \in ScreensOf(d) : DOMAIN posts[s] = {} /\ \A c \in Cells : ~cell[s][c].shown
    BY <1>6, NoPostsType DEF ScreensOf, Blank
  <1>8. Range(queue[d]) = {} /\ Range(mainq[d]) = {}
    BY <1>6, RangeOfEmpty
  <1> QED BY <1>5, <1>7, <1>8 DEF ExactAt, PostsFine, Free, CellFine

LEMMA ExactNext ==
    ASSUME ~Failures, OneDevice, LikesInv, ExactInv, [Next]_vars
    PROVE  ExactInv'
  <1> SUFFICES ASSUME ~hasty', crashes' = 0, NEW d \in Devices PROVE ExactAt(d)'
    BY DEF ExactInv
  <1>1. ASSUME NEW s \in Screens, Touch(s) PROVE ExactAt(d)'
    <2>1. DeviceOf(s) = d
      BY ScreenFacts DEF OneDevice
    <2>2. ~hasty /\ Quiet(d)
      BY <1>1, <2>1 DEF Touch
    <2>3. crashes' = crashes
      BY <1>1 DEF Touch, handleRefresh, wantsToViewPost, didTapLike, cellForItemAt
    <2>4. ExactAt(d)
      BY <2>2, <2>3 DEF ExactInv
    <2>5. \/ handleRefresh(s) \/ wantsToViewPost(s)
          \/ \E c \in Cells : didTapLike(s, c) \/ \E p \in DOMAIN posts[s] : cellForItemAt(s, c, p)
      BY <1>1 DEF Touch
    <2> QED BY <2>1, <2>2, <2>4, <2>5, RefreshFree, WantsFree, TapFree, ScrollFree
  <1>2. ASSUME NEW e \in Devices, Deliver(e) \/ MainQueue(e) PROVE ExactAt(d)'
    <2>1. e = d
      BY DEF OneDevice
    <2>2. hasty' = hasty /\ crashes' = crashes
      <3>1. Deliver(e) => hasty' = hasty /\ crashes' = crashes
        BY DEF Deliver
      <3>2. MainQueue(e) => hasty' = hasty
        BY DEF MainQueue
      <3>3. /\ fetchedPosts(e) => crashes' = crashes
            /\ fetchedPost(e) => crashes' = crashes
            /\ checkedLike(e) => crashes' = crashes
        BY DEF fetchedPosts, fetchedPost, checkedLike
      <3>4. /\ firstMarkDone(e) => crashes' = crashes
            /\ secondMarkDone(e) => crashes' = crashes
            /\ foundNotifications(e) => crashes' = crashes
        BY DEF firstMarkDone, secondMarkDone, foundNotifications
      <3> QED BY <1>2, <3>1, <3>2, <3>3, <3>4 DEF MainQueue
    <2>3. ExactAt(d)
      BY <2>2 DEF ExactInv
    <2>4. CASE Free(d)
      BY <1>2, <2>1, <2>3, <2>4, FreeStep DEF ExactAt
    <2>5. ASSUME NEW op \in Taps(d), Tapping(d, op) PROVE ExactAt(d)'
      <3>1. PostsFine(d)' /\ (Free(d)' \/ Tapping(d, op)')
        BY <1>2, <2>1, <2>3, <2>5, TapStep DEF ExactAt
      <3>2. Taps(d)' = Taps(d)
        BY DEF Taps, ScreensOf
      <3> QED BY <3>1, <3>2 DEF ExactAt
    <2> QED BY <2>3, <2>4, <2>5 DEF ExactAt
  <1>3. ASSUME NEW e \in Devices, Crash(e) PROVE FALSE
    <2>1. crashes' = crashes + 1
      BY <1>3 DEF Crash
    <2> QED BY <2>1 DEF LikesInv
  <1>4. CASE UNCHANGED vars
    <2>1. /\ docs' = docs /\ queue' = queue /\ gets' = gets /\ mainq' = mainq
          /\ posts' = posts /\ cell' = cell /\ crashes' = crashes /\ hasty' = hasty
      BY <1>4 DEF vars
    <2>2. ExactAt(d)
      BY <2>1 DEF ExactInv
    <2>3. ExactAt(d)' <=> ExactAt(d)
      BY <2>1 DEF ExactAt, PostsFine, CopyFine, CellFine, Free, Pending, Agreeing, Counted, Paired, Others, Liked,
                  Listed, AnswerRight, Tapping, TapFine, Captured, Counting, Liking, Chaining, Listing, Ending, Taps,
                  ScreensOf
    <2> QED BY <2>2, <2>3
  <1> QED BY <1>1, <1>2, <1>3, <1>4 DEF Next

\* likePost and unlikePost keep the counter equal to the number of accounts in
\* post-likes, whatever the posts, the screens and the order of the answers, on
\* one device that is not killed, whose user lets every touch settle and to
\* which the server refuses nothing.
THEOREM CountersExact ==
    ASSUME ~Failures, OneDevice, Devices # {}
    PROVE  Spec => []LikesExact
  <1>1. Init => LikesInv /\ ExactInv
    BY InitOK, ExactInit
  <1>2. LikesInv /\ ExactInv /\ [Next]_vars => (LikesInv /\ ExactInv)'
    BY NextOK, ExactNext
  <1>3. LikesInv /\ ExactInv => LikesExact
    <2> SUFFICES ASSUME LikesInv, ExactInv, Quiescent, ~hasty, crashes = 0, NEW p \in Posts
                 PROVE  docs[PostDoc(p)] = Cardinality({u \in Users : Liked(p, u)})
      BY DEF LikesExact
    <2>1. PICK d \in Devices : TRUE
      OBVIOUS
    <2>2. Quiet(d) /\ ExactAt(d)
      BY DEF Quiescent, ExactInv
    <2>3. Agreeing(d, p)
      BY <2>2, QuietFacts DEF Free
    <2> QED BY <2>3, CountAll DEF Agreeing, Counted
  <1> QED BY <1>1, <1>2, <1>3, PTL DEF Spec

-----------------------------------------------------------------------------
(***************************************************************************)
(* Notifications at rest.  The taps of a device pass through four stages:  *)
(* the write of the first mark, its completion block, the write of the     *)
(* second mark, its completion block; none overtakes another.              *)
(***************************************************************************)
MarkDone(k, op) == [kind |-> k, op |-> op]
Has(q, k, op)   == \E x \in Range(q) : x.then = MarkDone(k, op)

\* The taps of T that are at the stage k in q stand in the order they were made.
Sorted(q, k, T) ==
    \A i, j \in DOMAIN q : \A a, b \in T :
        i < j /\ q[i].then = MarkDone(k, a) /\ q[j].then = MarkDone(k, b) => a.n < b.n

\* The oldest leaves.
LEMMA OldestLeaves ==
    ASSUME NEW S, NEW q \in Seq(S), q # <<>>, NEW k, NEW T
    PROVE  /\ \A op : Has(q, k, op) <=> Head(q).then = MarkDone(k, op) \/ Has(Tail(q), k, op)
           /\ Sorted(q, k, T) => /\ Sorted(Tail(q), k, T)
                                 /\ \A a, b \in T : Head(q).then = MarkDone(k, a) /\ Has(Tail(q), k, b) => a.n < b.n
  <1>1. Range(q) = {Head(q)} \cup Range(Tail(q))
    BY RangeOfTail
  <1>2. Len(q) \in Nat /\ Len(q) > 0 /\ DOMAIN q = 1..Len(q) /\ Head(q) = q[1]
    BY EmptySeq
  <1>3. /\ Tail(q) \in Seq(S) /\ Len(Tail(q)) = Len(q) - 1
        /\ \A i \in 1..Len(Tail(q)) : Tail(q)[i] = q[i + 1]
    BY HeadTailProperties
  <1>4. \A i \in DOMAIN Tail(q) : i \in Nat /\ i + 1 \in DOMAIN q /\ Tail(q)[i] = q[i + 1] /\ 1 < i + 1 /\ 1 \in DOMAIN q
    BY <1>2, <1>3
  <1>5. ASSUME Sorted(q, k, T) PROVE Sorted(Tail(q), k, T)
    <2>1. \A i, j \in DOMAIN Tail(q) : i < j => i + 1 < j + 1
      BY <1>4
    <2> QED BY <1>4, <1>5, <2>1 DEF Sorted
  <1>6. ASSUME Sorted(q, k, T), NEW a \in T, NEW b \in T, Head(q).then = MarkDone(k, a), Has(Tail(q), k, b)
        PROVE  a.n < b.n
    <2>1. PICK i \in DOMAIN Tail(q) : Tail(q)[i].then = MarkDone(k, b)
      BY <1>6 DEF Has, Range
    <2>2. q[i + 1].then = MarkDone(k, b) /\ q[1].then = MarkDone(k, a) /\ 1 < i + 1 /\ 1 \in DOMAIN q /\ i + 1 \in DOMAIN q
      BY <1>2, <1>4, <1>6, <2>1
    <2> QED BY <1>6, <2>2 DEF Sorted
  <1>7. \A op : Has(q, k, op) <=> Head(q).then = MarkDone(k, op) \/ Has(Tail(q), k, op)
    BY <1>1 DEF Has
  <1> QED BY <1>5, <1>6, <1>7

\* One joins behind them.
LEMMA YoungestJoins ==
    ASSUME NEW S, NEW q \in Seq(S), NEW x, NEW k, NEW T
    PROVE  /\ \A op : Has(Append(q, x), k, op) <=> Has(q, k, op) \/ x.then = MarkDone(k, op)
           /\ Sorted(q, k, T) /\ (\A a, b \in T : Has(q, k, a) /\ x.then = MarkDone(k, b) => a.n < b.n)
              => Sorted(Append(q, x), k, T)
  <1>1. PICK Q : Q = S \cup {x}
    OBVIOUS
  <1>2. q \in Seq(Q) /\ x \in Q
    BY <1>1
  <1>3. Range(Append(q, x)) = Range(q) \cup {x}
    BY <1>2, RangeOfAppend
  <1>4. PICK n \in Nat : n = Len(q) /\ DOMAIN q = 1..n
    BY <1>2
  <1>5. /\ DOMAIN Append(q, x) = 1..(n + 1)
        /\ \A i \in 1..n : Append(q, x)[i] = q[i] /\ i < n + 1
        /\ Append(q, x)[n + 1] = x
    BY <1>2, <1>4
  <1>6. ASSUME Sorted(q, k, T), \A a, b \in T : Has(q, k, a) /\ x.then = MarkDone(k, b) => a.n < b.n
        PROVE  Sorted(Append(q, x), k, T)
    <2>1. ASSUME NEW i \in DOMAIN Append(q, x), NEW j \in DOMAIN Append(q, x), NEW a \in T, NEW b \in T, i < j,
                 Append(q, x)[i].then = MarkDone(k, a), Append(q, x)[j].then = MarkDone(k, b)
          PROVE  a.n < b.n
      <3>1. i \in 1..n
        BY <1>5, <2>1
      <3>2. q[i].then = MarkDone(k, a) /\ i \in DOMAIN q
        BY <1>4, <1>5, <2>1, <3>1
      <3>3. CASE j \in 1..n
        <4>1. q[j].then = MarkDone(k, b) /\ j \in DOMAIN q
          BY <1>4, <1>5, <2>1, <3>3
        <4> QED BY <1>6, <2>1, <3>2, <4>1 DEF Sorted
      <3>4. CASE j = n + 1
        <4>1. x.then = MarkDone(k, b)
          BY <1>5, <2>1, <3>4
        <4>2. Has(q, k, a)
          BY <3>2 DEF Has, Range
        <4> QED BY <1>6, <4>1, <4>2
      <3> QED BY <1>5, <3>3, <3>4
    <2> QED BY <2>1 DEF Sorted
  <1>7. \A op : Has(Append(q, x), k, op) <=> Has(q, k, op) \/ x.then = MarkDone(k, op)
    BY <1>3 DEF Has
  <1> QED BY <1>6, <1>7

-----------------------------------------------------------------------------
(* What the writes q leave of the document x, which holds v before them,   *)
(* when none of them is an update.                                         *)
LastAt(q, v, x) ==
    LET W == {i \in DOMAIN q : x \in q[i].paths}
    IN  IF W = {} THEN v ELSE q[Max(W)].data

LEMMA MaxIs ==
    ASSUME NEW n \in Nat, NEW S \in SUBSET (1..n), NEW m \in S, \A i \in S : i <= m
    PROVE  Max(S) = m
  <1>1. Max(S) \in S /\ \A i \in S : i <= Max(S)
    BY LastIndex
  <1>2. m <= Max(S) /\ Max(S) <= m
    BY <1>1
  <1>3. PICK k : k = Max(S)
    OBVIOUS
  <1>4. k \in 1..n /\ m \in 1..n
    BY <1>1, <1>3
  <1>5. m <= k /\ k <= m
    BY <1>2, <1>3
  <1> QED BY <1>3, <1>4, <1>5

LEMMA LastJoins ==
    ASSUME NEW S, NEW q \in Seq(S), NEW w, NEW v, NEW x
    PROVE  LastAt(Append(q, w), v, x) = IF x \in w.paths THEN w.data ELSE LastAt(q, v, x)
  <1>1. PICK r : r = Append(q, w)
    OBVIOUS
  <1>2. PICK n \in Nat : n = Len(q) /\ DOMAIN q = 1..n
    OBVIOUS
  <1>3. /\ DOMAIN r = 1..(n + 1) /\ r[n + 1] = w
        /\ \A i \in 1..n : r[i] = q[i]
    BY <1>1, <1>2
  <1>4. PICK W : W = {i \in DOMAIN r : x \in r[i].paths}
    OBVIOUS
  <1>5. LastAt(r, v, x) = IF W = {} THEN v ELSE r[Max(W)].data
    BY <1>4 DEF LastAt
  <1>6. CASE x \in w.paths
    <2>1. n + 1 \in W /\ W \in SUBSET (1..(n + 1)) /\ \A i \in W : i <= n + 1
      BY <1>3, <1>4, <1>6
    <2>2. Max(W) = n + 1
      <3>1. n + 1 \in Nat
        OBVIOUS
      <3> QED BY <2>1, <3>1, MaxIs
    <2> QED BY <1>1, <1>3, <1>5, <1>6, <2>1, <2>2
  <1>7. CASE x \notin w.paths
    <2>1. W = {i \in DOMAIN q : x \in q[i].paths}
      BY <1>2, <1>3, <1>4, <1>7
    <2>2. W # {} => Max(W) \in 1..n
      <3>1. W \in SUBSET (1..n)
        BY <1>2, <2>1
      <3> QED BY <3>1, LastIndex
    <2>3. W # {} => r[Max(W)] = q[Max(W)]
      BY <1>3, <2>2
    <2>4. LastAt(q, v, x) = IF W = {} THEN v ELSE q[Max(W)].data
      BY <2>1 DEF LastAt
    <2> QED BY <1>1, <1>5, <1>7, <2>3, <2>4
  <1> QED BY <1>6, <1>7

LEMMA LastLeaves ==
    ASSUME NEW S, NEW q \in Seq(S), q # <<>>, NEW v, NEW x
    PROVE  LastAt(q, v, x) = LastAt(Tail(q), IF x \in Head(q).paths THEN Head(q).data ELSE v, x)
  <1>1. PICK n \in Nat : n + 1 = Len(q) /\ DOMAIN q = 1..(n + 1) /\ Head(q) = q[1]
    <2>1. Len(q) \in Nat /\ Len(q) > 0 /\ DOMAIN q = 1..Len(q) /\ Head(q) = q[1]
      BY EmptySeq
    <2>2. PICK N : N = Len(q)
      OBVIOUS
    <2>3. PICK k : k = N - 1
      OBVIOUS
    <2>4. N \in Nat /\ N > 0 /\ DOMAIN q = 1..N
      BY <2>1, <2>2
    <2>5. k \in Nat /\ k + 1 = N
      BY <2>3, <2>4
    <2>6. DOMAIN q = 1..(k + 1)
      BY <2>4, <2>5, Zenon
    <2> QED BY <2>1, <2>2, <2>5, <2>6, Zenon
  <1>2. PICK r : r = Tail(q)
    OBVIOUS
  <1>3. DOMAIN r = 1..n /\ \A i \in 1..n : r[i] = q[i + 1]
    <2>1. Tail(q) \in Seq(S) /\ Len(Tail(q)) = Len(q) - 1 /\ \A i \in 1..Len(Tail(q)) : Tail(q)[i] = q[i + 1]
      BY HeadTailProperties
    <2> QED BY <1>1, <1>2, <2>1
  <1>4. PICK W : W = {i \in DOMAIN q : x \in q[i].paths}
    OBVIOUS
  <1>5. PICK V : V = {i \in DOMAIN r : x \in r[i].paths}
    OBVIOUS
  <1>6. PICK u : u = IF x \in Head(q).paths THEN Head(q).data ELSE v
    OBVIOUS
  <1>7. /\ LastAt(q, v, x) = IF W = {} THEN v ELSE q[Max(W)].data
        /\ LastAt(r, u, x) = IF V = {} THEN u ELSE r[Max(V)].data
    BY <1>4, <1>5 DEF LastAt
  <1>8. V \in SUBSET (1..n) /\ W \in SUBSET (1..(n + 1))
    BY <1>1, <1>3, <1>4, <1>5
  <1>9. (\A i \in V : i + 1 \in W) /\ \A j \in W : j = 1 \/ (j - 1 \in V /\ j - 1 \in 1..n)
    BY <1>1, <1>3, <1>4, <1>5
  <1>10. CASE V # {}
    <2>1. PICK m \in V : m = Max(V) /\ \A i \in V : i <= m
      BY <1>8, <1>10, LastIndex
    <2>2. m \in 1..n /\ m + 1 \in W /\ \A j \in W : j <= m + 1
      <3>1. m \in 1..n
        BY <1>8
      <3>2. ASSUME NEW j \in W PROVE j <= m + 1
        <4>1. j \in 1..(n + 1)
          BY <1>8
        <4>2. CASE j = 1
          BY <3>1, <4>2
        <4>3. CASE j - 1 \in V
          <5>1. j - 1 <= m
            BY <2>1, <4>3
          <5> QED BY <3>1, <4>1, <5>1
        <4> QED BY <1>9, <4>2, <4>3
      <3> QED BY <1>9, <3>1, <3>2
    <2>3. Max(W) = m + 1
      <3>1. n + 1 \in Nat
        OBVIOUS
      <3> QED BY <1>8, <2>2, <3>1, MaxIs
    <2>4. q[Max(W)] = r[Max(V)]
      BY <1>3, <2>1, <2>2, <2>3
    <2> QED BY <1>2, <1>6, <1>7, <1>10, <2>2, <2>4
  <1>11. CASE V = {}
    <2>1. \A j \in W : j = 1
      BY <1>9, <1>11
    <2>2. CASE x \in Head(q).paths
      <3>1. 1 \in W
        BY <1>1, <1>4, <2>2
      <3>2. W = {1}
        BY <2>1, <3>1
      <3>3. Max(W) = 1
        <4>1. 1 \in Nat /\ {1} \in SUBSET (1..1)
          OBVIOUS
        <4> QED BY <3>2, <4>1, MaxIs
      <3> QED BY <1>1, <1>2, <1>6, <1>7, <1>11, <2>2, <3>1, <3>3
    <2>3. CASE x \notin Head(q).paths
      <3>1. W = {}
        BY <1>1, <1>4, <2>1, <2>3
      <3> QED BY <1>2, <1>6, <1>7, <1>11, <2>3, <3>1
    <2> QED BY <2>2, <2>3
  <1> QED BY <1>10, <1>11

-----------------------------------------------------------------------------
MarkKinds     == {"firstMarkDone", "secondMarkDone"}
NoMark(t, T)  == \A k \in MarkKinds, op \in T : t # MarkDone(k, op)

\* The taps of T are at the same stages in r as in q, and as well sorted.
Alike(q, r, T) ==
    \A k \in MarkKinds :
        /\ \A op \in T : Has(r, k, op) <=> Has(q, k, op)
        /\ Sorted(q, k, T) => Sorted(r, k, T)

LEMMA AlikeTail ==
    ASSUME NEW S, NEW q \in Seq(S), q # <<>>, NEW T, NoMark(Head(q).then, T)
    PROVE  Alike(q, Tail(q), T)
  <1> SUFFICES ASSUME NEW k \in MarkKinds
               PROVE  /\ \A op \in T : Has(Tail(q), k, op) <=> Has(q, k, op)
                      /\ Sorted(q, k, T) => Sorted(Tail(q), k, T)
    BY DEF Alike
  <1>1. /\ \A op : Has(q, k, op) <=> Head(q).then = MarkDone(k, op) \/ Has(Tail(q), k, op)
        /\ Sorted(q, k, T) => Sorted(Tail(q), k, T)
    BY OldestLeaves
  <1> QED BY <1>1 DEF NoMark

LEMMA AlikeAppend ==
    ASSUME NEW S, NEW q \in Seq(S), NEW x, NEW T, NoMark(x.then, T)
    PROVE  Alike(q, Append(q, x), T) /\ Alike(q, q \o <<x>>, T)
  <1>1. Append(q, x) = q \o <<x>>
    <2>1. PICK Q : Q = S \cup {x}
      OBVIOUS
    <2>2. q \in Seq(Q) /\ x \in Q
      BY <2>1
    <2> QED BY <2>2, AppendIsConcat
  <1>2. ASSUME NEW k \in MarkKinds
        PROVE  /\ \A op \in T : Has(Append(q, x), k, op) <=> Has(q, k, op)
               /\ Sorted(q, k, T) => Sorted(Append(q, x), k, T)
    <2>1. /\ \A op : Has(Append(q, x), k, op) <=> Has(q, k, op) \/ x.then = MarkDone(k, op)
          /\ Sorted(q, k, T) /\ (\A a, b \in T : Has(q, k, a) /\ x.then = MarkDone(k, b) => a.n < b.n)
             => Sorted(Append(q, x), k, T)
      BY YoungestJoins
    <2> QED BY <2>1 DEF NoMark
  <1>3. Alike(q, Append(q, x), T)
    BY <1>2 DEF Alike
  <1> QED BY <1>1, <1>3

\* One call of a forEach is gone.
LEMMA AlikeHead ==
    ASSUME NEW S, NEW q \in Seq(S), q # <<>>, NEW T, NEW t, t.then = Head(q).then
    PROVE  Alike(q, <<t>> \o Tail(q), T)
  <1>1. PICK r : r = <<t>> \o Tail(q)
    OBVIOUS
  <1>2. DOMAIN r = DOMAIN q /\ \A i \in DOMAIN q : r[i].then = q[i].then
    <2>1. PICK Q : Q = S \cup {t}
      OBVIOUS
    <2>2. PICK s : s = Tail(q)
      OBVIOUS
    <2>3. Len(q) \in Nat /\ Len(q) > 0 /\ DOMAIN q = 1..Len(q) /\ Head(q) = q[1]
      BY EmptySeq
    <2>4. s \in Seq(Q) /\ Len(s) = Len(q) - 1 /\ \A i \in 1..Len(s) : s[i] = q[i + 1]
      <3>1. Tail(q) \in Seq(S) /\ Len(Tail(q)) = Len(q) - 1 /\ \A i \in 1..Len(Tail(q)) : Tail(q)[i] = q[i + 1]
        BY HeadTailProperties
      <3> QED BY <2>1, <2>2, <3>1
    <2>5. <<t>> \in Seq(Q) /\ Len(<<t>>) = 1 /\ <<t>>[1] = t
      BY <2>1
    <2>6. /\ Len(r) = 1 + Len(s) /\ DOMAIN r = 1..(1 + Len(s))
          /\ \A i \in 1..(1 + Len(s)) : r[i] = IF i <= 1 THEN <<t>>[i] ELSE s[i - 1]
      BY <1>1, <2>2, <2>4, <2>5, ConcatProperties
    <2>7. DOMAIN r = DOMAIN q
      BY <2>3, <2>4, <2>6
    <2>8. ASSUME NEW i \in DOMAIN q PROVE r[i].then = q[i].then
      <3>1. CASE i = 1
        <4>1. r[i] = t
          BY <2>5, <2>6, <2>7, <3>1
        <4> QED BY <2>3, <3>1, <4>1
      <3>2. CASE i # 1
        <4>1. i \in 1..Len(q) /\ i - 1 \in 1..Len(s) /\ ~(i <= 1) /\ (i - 1) + 1 = i
          BY <2>3, <2>4, <3>2
        <4>2. r[i] = s[i - 1]
          BY <2>6, <2>7, <4>1
        <4>3. s[i - 1] = q[i]
          BY <2>4, <4>1
        <4> QED BY <4>2, <4>3
      <3> QED BY <3>1, <3>2
    <2> QED BY <2>7, <2>8
  <1>3. \A k, op : Has(r, k, op) <=> Has(q, k, op)
    BY <1>2 DEF Has, Range
  <1>4. \A k : Sorted(q, k, T) => Sorted(r, k, T)
    BY <1>2 DEF Sorted
  <1> QED BY <1>1, <1>3, <1>4 DEF Alike

-----------------------------------------------------------------------------
(* What a device sees of a mark or a notification is what the last of its  *)
(* queued writes leaves.                                                   *)
SeenAt(q, v, x) ==
    LET W    == {i \in DOMAIN q : x \in q[i].paths}
        S    == {i \in W : ~q[i].upd}
        base == IF S = {} THEN v ELSE q[Max(S)].data
    IN  IF W = {} \/ base = NoDoc THEN base ELSE q[Max(W)].data

LEMMA SeenLast ==
    ASSUME NEW q, NEW v, NEW x, \A w \in Range(q) : x \in w.paths => ~w.upd
    PROVE  SeenAt(q, v, x) = LastAt(q, v, x)
  <1>1. PICK W : W = {i \in DOMAIN q : x \in q[i].paths}
    OBVIOUS
  <1>2. {i \in W : ~q[i].upd} = W
    BY <1>1 DEF Range
  <1>3. SeenAt(q, v, x) = LET base == IF W = {} THEN v ELSE q[Max(W)].data
                          IN  IF W = {} \/ base = NoDoc THEN base ELSE q[Max(W)].data
    BY <1>1, <1>2 DEF SeenAt
  <1>4. LastAt(q, v, x) = IF W = {} THEN v ELSE q[Max(W)].data
    BY <1>1 DEF LastAt
  <1> QED BY <1>3, <1>4

LEMMA PlainWrites ==
    ASSUME NEW d \in Devices, NEW x \in Marks
    PROVE  /\ QueuesOK => \A w \in Range(queue[d]) : x \in w.paths => ~w.upd
           /\ QueuesOK' => \A w \in Range(queue'[d]) : x \in w.paths => ~w.upd
  <1>1. x \notin PostDocs
    BY DEF Marks
  <1>2. \A w \in WritesOf(d) : x \in w.paths => ~w.upd
    BY <1>1 DEF WritesOf
  <1>3. \A w \in WritesOf(d)' : x \in w.paths => ~w.upd
    <2>1. PostDocs' = PostDocs
      BY DEF PostDocs, PostDoc
    <2> QED BY <1>1, <2>1 DEF WritesOf
  <1> QED BY <1>2, <1>3, RangeOfSeq DEF QueuesOK

LEMMA ViewLast ==
    ASSUME NEW d \in Devices, NEW x \in Marks
    PROVE  /\ QueuesOK => View(d, x) = LastAt(queue[d], docs[x], x)
           /\ QueuesOK' => View(d, x)' = LastAt(queue'[d], docs'[x], x)
  <1>1. View(d, x) = SeenAt(queue[d], docs[x], x)
    BY DEF View, SeenAt
  <1>2. View(d, x)' = SeenAt(queue'[d], docs'[x], x)
    BY DEF View, SeenAt
  <1>3. QueuesOK => SeenAt(queue[d], docs[x], x) = LastAt(queue[d], docs[x], x)
    BY PlainWrites, SeenLast
  <1>4. QueuesOK' => SeenAt(queue'[d], docs'[x], x) = LastAt(queue'[d], docs'[x], x)
    BY PlainWrites, SeenLast
  <1> QED BY <1>1, <1>2, <1>3, <1>4

-----------------------------------------------------------------------------
(* What device d has in flight.                                            *)
FirstSent(d, op)  == Has(queue[d], "firstMarkDone", op)
FirstTold(d, op)  == Has(mainq[d], "firstMarkDone", op)
SecondSent(d, op) == Has(queue[d], "secondMarkDone", op)
SecondTold(d, op) == Has(mainq[d], "secondMarkDone", op)
InFlight(d, op)   == FirstSent(d, op) \/ FirstTold(d, op) \/ SecondSent(d, op) \/ SecondTold(d, op)

NotesOf(u)  == UNION {LikeNotifications(u, p) : p \in Posts}
OwnMarks(d) == {PostLike(p, UidOf[d]) : p \in Posts} \cup NotesOf(UidOf[d])
OwnPaths(d) == PostDocs \cup UserLikes \cup OwnMarks(d)

\* The account of d is going to like p; a tap that takes its like of p back is
\* in flight; the notification x is being looked for, or was found.
Wants(d, p)    == View(d, PostLike(p, UidOf[d])) # NoDoc
Unliking(d, p) == \E op \in Taps(d) : InFlight(d, op) /\ op.p = p /\ ~op.like
IsFind(c)      == c.then.kind = "foundNotifications"
Sought(d, x)   == \E r \in Range(gets[d]) : IsFind(r) /\ x \in r.paths
Found(d, x)    == \E b \in Range(mainq[d]) : IsFind(b) /\ x \in DOMAIN b.res /\ b.res[x] # NoDoc

\* A device writes and looks for notifications of its own account only, and a
\* write with a completion block is of one document.
OwnWrites(d) ==
    \A w \in Range(queue[d]) : w.paths \subseteq OwnPaths(d) /\ (w.then # NoThen => \E x : w.paths = {x})
OwnFinds(d) ==
    /\ \A r \in Range(gets[d]) : IsFind(r) => r.then.u = UidOf[d]
    /\ \A b \in Range(mainq[d]) : IsFind(b) => b.then.u = UidOf[d]

\* First come, first served, at each stage and from one stage to the next.
Queueing(d) ==
    \A k \in MarkKinds : Sorted(queue[d], k, Taps(d)) /\ Sorted(mainq[d], k, Taps(d))
NoOvertaking(d) ==
    \A a, b \in Taps(d) :
        /\ SecondTold(d, a) /\ (SecondSent(d, b) \/ FirstTold(d, b) \/ FirstSent(d, b)) => a.n < b.n
        /\ SecondSent(d, a) /\ (FirstTold(d, b) \/ FirstSent(d, b)) => a.n < b.n
        /\ FirstTold(d, a) /\ FirstSent(d, b) => a.n < b.n

\* The cell that a tap captured still shows the tapped post.
Kept(d) == \A op \in Taps(d) : InFlight(d, op) => cell[op.s][op.c].p = op.p

\* While the account is not going to like p, every tap that liked p is followed by
\* one that takes it back, and every notification is about to be deleted.
Cancelled(d, p) ==
    ~Wants(d, p) => \A a \in Taps(d) : InFlight(d, a) /\ a.p = p /\ a.like =>
        \E b \in Taps(d) : InFlight(d, b) /\ b.p = p /\ ~b.like /\ a.n < b.n
Explained(d, p) ==
    ~Wants(d, p) => \A x \in LikeNotifications(UidOf[d], p) :
        View(d, x) # NoDoc => Unliking(d, p) \/ Sought(d, x) \/ Found(d, x)

Accounted(d) ==
    /\ OwnWrites(d) /\ OwnFinds(d)
    /\ Queueing(d) /\ NoOvertaking(d) /\ Kept(d)
    /\ \A p \in Posts : Cancelled(d, p) /\ Explained(d, p)

\* The documents that say whom an account likes and who was told.
LEMMA OwnMarksType ==
    ASSUME NEW d \in Devices
    PROVE  /\ OwnMarks(d) \subseteq Marks
           /\ \A p \in Posts : PostLike(p, UidOf[d]) \in OwnMarks(d) /\ LikeNotifications(UidOf[d], p) \subseteq OwnMarks(d)
           /\ OwnMarks(d)' = OwnMarks(d) /\ OwnPaths(d)' = OwnPaths(d) /\ Taps(d)' = Taps(d)
           /\ \A p \in Posts : LikeNotifications(UidOf[d], p)' = LikeNotifications(UidOf[d], p)
  <1>1. UidOf[d] \in Users
    BY LikesAssumption
  <1>2. NotesOf(UidOf[d]) \subseteq Marks
    BY <1>1, MarkPaths DEF NotesOf
  <1>3. OwnMarks(d) \subseteq Marks
    BY <1>1, <1>2, MarkPaths DEF OwnMarks
  <1>4. \A p \in Posts : PostLike(p, UidOf[d]) \in OwnMarks(d) /\ LikeNotifications(UidOf[d], p) \subseteq OwnMarks(d)
    BY DEF OwnMarks, NotesOf
  <1>5. OwnMarks(d)' = OwnMarks(d)
    BY DEF OwnMarks, NotesOf, PostLike, LikeNotifications, LikeNotification
  <1>6. OwnPaths(d)' = OwnPaths(d)
    BY <1>5 DEF OwnPaths, PostDocs, PostDoc, UserLikes, UserLike
  <1>7. Taps(d)' = Taps(d)
    BY DEF Taps, ScreensOf
  <1>8. \A p \in Posts : LikeNotifications(UidOf[d], p)' = LikeNotifications(UidOf[d], p)
    BY DEF LikeNotifications, LikeNotification
  <1> QED BY <1>3, <1>4, <1>5, <1>6, <1>7, <1>8

\* A completion block of a mark belongs to a tap that was made on d.
LEMMA FlightTyped ==
    ASSUME LikesInv, NEW d \in Devices, NEW op \in Taps(d), InFlight(d, op)
    PROVE  op \in OpsOf(d) /\ op.n \in 1..ops
  <1>1. PICK k \in MarkKinds : Has(queue[d], k, op) \/ Has(mainq[d], k, op)
    BY DEF InFlight, FirstSent, FirstTold, SecondSent, SecondTold, MarkKinds
  <1>2. MarkDone(k, op) # NoThen
    BY BlockNotEmpty DEF MarkDone, FirstMarkDone, SecondMarkDone, MarkKinds
  <1>3. MarkDone(k, op).kind = k /\ MarkDone(k, op).op = op
    BY DEF MarkDone
  <1>4. CASE Has(queue[d], k, op)
    <2>1. PICK w \in WritesOf(d) : w.then = MarkDone(k, op)
      BY <1>4, RangeOfSeq DEF Has, LikesInv, QueuesOK
    <2>2. w.then \in MarkBlocks(d)
      BY <1>2, <2>1 DEF WritesOf
    <2> QED BY <1>3, <2>1, <2>2 DEF MarkBlocks, OpsOf
  <1>5. CASE Has(mainq[d], k, op)
    <2>1. PICK b \in BlocksOf(d) : b.then = MarkDone(k, op)
      BY <1>5, RangeOfSeq DEF Has, LikesInv, QueuesOK
    <2>2. b.then.kind \in {"firstMarkDone", "secondMarkDone"}
      BY <1>3, <2>1 DEF MarkKinds
    <2>3. b \notin ListAnswers(d) /\ b \notin DetailAnswers(d)
      BY <2>2 DEF ListAnswers, ListBlocks, DetailAnswers, DetailBlocks
    <2>4. b \notin CheckAnswers(d) /\ b \notin FindAnswers
      BY <2>2 DEF CheckAnswers, CheckBlocks, FindAnswers, FindBlocks
    <2>5. b \in MarkAnswers(d)
      BY <2>1, <2>3, <2>4 DEF BlocksOf
    <2> QED BY <1>3, <2>1, <2>5 DEF MarkAnswers, MarkBlocks, OpsOf
  <1> QED BY <1>1, <1>4, <1>5

\* A step after which the same taps are in flight, the account wants the same, and
\* whatever notification is still there is as much looked for as it was.
LEMMA Accounting ==
    ASSUME NEW d \in Devices, Accounted(d), OwnWrites(d)', OwnFinds(d)', Queueing(d)', NoOvertaking(d)',
           \A op \in Taps(d) : InFlight(d, op)' <=> InFlight(d, op),
           \A op \in Taps(d) : InFlight(d, op) => cell'[op.s][op.c].p = op.p,
           \A p \in Posts : Wants(d, p)' <=> Wants(d, p),
           \A p \in Posts : \A x \in LikeNotifications(UidOf[d], p) : View(d, x)' # NoDoc =>
              View(d, x) # NoDoc /\ (Sought(d, x) \/ Found(d, x) => Sought(d, x)' \/ Found(d, x)')
    PROVE  Accounted(d)'
  <1>1. Taps(d)' = Taps(d) /\ \A p \in Posts : LikeNotifications(UidOf[d], p)' = LikeNotifications(UidOf[d], p)
    BY OwnMarksType
  <1>2. Kept(d)'
    BY <1>1 DEF Kept
  <1>3. ASSUME NEW p \in Posts PROVE Cancelled(d, p)'
    <2>1. Cancelled(d, p)
      BY DEF Accounted
    <2> QED BY <1>1, <2>1 DEF Cancelled
  <1>4. ASSUME NEW p \in Posts PROVE Explained(d, p)'
    <2>1. Explained(d, p)
      BY DEF Accounted
    <2>2. Unliking(d, p)' <=> Unliking(d, p)
      BY <1>1 DEF Unliking
    <2> QED BY <1>1, <2>1, <2>2 DEF Explained
  <1> QED BY <1>2, <1>3, <1>4 DEF Accounted

\* The stages only depend on the completion blocks in the two queues.
LEMMA StagesSame ==
    ASSUME NEW d \in Devices, Queueing(d), NoOvertaking(d),
           Alike(queue[d], queue'[d], Taps(d)), Alike(mainq[d], mainq'[d], Taps(d))
    PROVE  /\ Queueing(d)' /\ NoOvertaking(d)'
           /\ \A op \in Taps(d) : InFlight(d, op)' <=> InFlight(d, op)
  <1>1. Taps(d)' = Taps(d)
    BY OwnMarksType
  <1>2. Queueing(d)'
    BY <1>1 DEF Queueing, Alike
  <1>3. \A op \in Taps(d) : /\ FirstSent(d, op)' <=> FirstSent(d, op)
                            /\ FirstTold(d, op)' <=> FirstTold(d, op)
                            /\ SecondSent(d, op)' <=> SecondSent(d, op)
                            /\ SecondTold(d, op)' <=> SecondTold(d, op)
    BY DEF Alike, MarkKinds, FirstSent, FirstTold, SecondSent, SecondTold
  <1>4. NoOvertaking(d)'
    BY <1>1, <1>3 DEF NoOvertaking
  <1> QED BY <1>2, <1>3, <1>4 DEF InFlight

LEMMA AlikeSelf == \A q, T : Alike(q, q, T)
  BY DEF Alike

\* While no app is killed, the cell that a tap in flight captured is not bound to
\* another post.
CapturedNotRebound ==
    crashes' = crashes => \A d \in Devices : \A op \in Taps(d) :
        InFlight(d, op) => cell'[op.s][op.c].p = cell[op.s][op.c].p

LEMMA KeptCells ==
    ASSUME NEW d \in Devices, Kept(d), CapturedNotRebound, crashes' = crashes
    PROVE  \A op \in Taps(d) : InFlight(d, op) => cell'[op.s][op.c].p = op.p
  BY DEF Kept, CapturedNotRebound

\* What an account wants is what its device sees.
LEMMA WantsSame ==
    ASSUME NEW d \in Devices, \A x \in OwnMarks(d) : View(d, x)' = View(d, x)
    PROVE  \A p \in Posts : Wants(d, p)' <=> Wants(d, p)
  <1> TAKE p \in Posts
  <1>1. PostLike(p, UidOf[d])' = PostLike(p, UidOf[d])
    BY DEF PostLike
  <1>2. PICK x \in OwnMarks(d) : x = PostLike(p, UidOf[d])
    BY OwnMarksType
  <1> QED BY <1>1, <1>2 DEF Wants

\* A step of another device, or one that only moves the screens.
LEMMA ElsewhereAccounted ==
    ASSUME LikesInv, LikesInv', NEW d \in Devices, Accounted(d), CapturedNotRebound, crashes' = crashes,
           queue'[d] = queue[d], gets'[d] = gets[d], mainq'[d] = mainq[d],
           \A x \in OwnMarks(d) : docs'[x] = docs[x]
    PROVE  Accounted(d)'
  <1>1. Alike(queue[d], queue'[d], Taps(d)) /\ Alike(mainq[d], mainq'[d], Taps(d))
    BY AlikeSelf
  <1>2. /\ Queueing(d)' /\ NoOvertaking(d)'
        /\ \A op \in Taps(d) : InFlight(d, op)' <=> InFlight(d, op)
    BY <1>1, StagesSame DEF Accounted
  <1>3. \A op \in Taps(d) : InFlight(d, op) => cell'[op.s][op.c].p = op.p
    BY KeptCells DEF Accounted
  <1>4. OwnWrites(d)' /\ OwnFinds(d)'
    BY OwnMarksType DEF Accounted, OwnWrites, OwnFinds, IsFind
  <1>5. \A x \in OwnMarks(d) : View(d, x)' = View(d, x)
    BY OwnMarksType, ViewLast DEF LikesInv
  <1>6. \A p \in Posts : Wants(d, p)' <=> Wants(d, p)
    BY <1>5, WantsSame
  <1>7. \A x : (Sought(d, x)' <=> Sought(d, x)) /\ (Found(d, x)' <=> Found(d, x))
    BY DEF Sought, Found, IsFind
  <1> QED BY <1>2, <1>3, <1>4, <1>5, <1>6, <1>7, OwnMarksType, Accounting

-----------------------------------------------------------------------------
(* A write is answered.                                                    *)

\* The device sees what it saw.
LEMMA ViewAnswered ==
    ASSUME LikesInv, LikesInv', NEW d \in Devices, queue[d] # <<>>, NEW path \in Head(queue[d]).paths,
           AnswerAt(d, Head(queue[d]), path), NEW x \in Marks
    PROVE  View(d, x)' = View(d, x)
  <1>1. PICK w : w = Head(queue[d])
    OBVIOUS
  <1>2. PICK t : t = Tail(queue[d])
    OBVIOUS
  <1>3. queue[d] \in Seq(WritesOf(d)) /\ w \in WritesOf(d) /\ t \in Seq(WritesOf(d))
    BY <1>1, <1>2, HeadTailSeq DEF LikesInv, QueuesOK
  <1>4. View(d, x) = LastAt(t, IF x \in w.paths THEN w.data ELSE docs[x], x)
    BY <1>1, <1>2, <1>3, ViewLast, LastLeaves DEF LikesInv
  <1>5. View(d, x)' = LastAt(queue'[d], docs'[x], x)
    BY ViewLast DEF LikesInv
  <1>6. /\ docs' = IF Accepts(w, path) THEN [docs EXCEPT ![path] = w.data] ELSE docs
        /\ queue'[d] = IF w.paths = {path} THEN t ELSE <<Trimmed(w, path)>> \o t
    BY <1>1, <1>2 DEF AnswerAt
  <1>7. docs'[x] = IF x = path THEN w.data ELSE docs[x]
    <2>1. x \in Documents /\ DOMAIN docs = Documents
      BY DEF Marks, LikesInv, ServerOK
    <2>2. x = path => Accepts(w, path)
      <3>1. x \in w.paths => ~w.upd
        BY <1>3 DEF WritesOf, Marks
      <3> QED BY <1>1, <3>1 DEF Accepts
    <2> QED BY <1>6, <2>1, <2>2
  <1>8. CASE w.paths = {path}
    BY <1>4, <1>5, <1>6, <1>7, <1>8
  <1>9. CASE w.paths # {path}
    <2>1. PICK u : u = Trimmed(w, path)
      OBVIOUS
    <2>2. u.paths = w.paths \ {path} /\ u.data = w.data
      <3>1. \E D : w \in [paths : SUBSET D, data : Counts \cup {Marked, NoDoc}, upd : BOOLEAN,
                          then : MarkBlocks(d) \cup {NoThen}]
        BY <1>3 DEF WritesOf
      <3> QED BY <2>1, <3>1 DEF Trimmed
    <2>3. PICK q : q = <<u>> \o t
      OBVIOUS
    <2>4. q \in Seq(WritesOf(d) \cup {u}) /\ q # <<>> /\ Head(q) = u /\ Tail(q) = t
      <3>1. PICK Q : Q = WritesOf(d) \cup {u}
        OBVIOUS
      <3>2. t \in Seq(Q) /\ u \in Q
        BY <1>3, <3>1
      <3> QED BY <2>3, <3>1, <3>2
    <2>5. LastAt(q, docs'[x], x) = LastAt(t, IF x \in u.paths THEN u.data ELSE docs'[x], x)
      BY <2>4, LastLeaves
    <2>6. (IF x \in u.paths THEN u.data ELSE docs'[x]) = IF x \in w.paths THEN w.data ELSE docs[x]
      BY <1>1, <1>7, <2>2
    <2> QED BY <1>4, <1>5, <1>6, <1>9, <2>1, <2>3, <2>5, <2>6
  <1> QED BY <1>8, <1>9

\* Completion blocks of different kinds or taps are different.
LEMMA MarksApart ==
    \A k, l, a, b : MarkDone(k, a) = MarkDone(l, b) <=> k = l /\ a = b
  <1> TAKE k, l, a, b
  <1>1. MarkDone(k, a).kind = k /\ MarkDone(k, a).op = a /\ MarkDone(l, b).kind = l /\ MarkDone(l, b).op = b
    BY DEF MarkDone
  <1> QED BY <1>1

\* The tap op leaves the stage k of q, where it is the oldest.
Leaves(q, r, k, op, T) ==
    /\ \A l \in MarkKinds : Sorted(q, l, T) => Sorted(r, l, T)
    /\ \A l \in MarkKinds, a \in T : Has(q, l, a) <=> (l = k /\ a = op) \/ Has(r, l, a)
    /\ Sorted(q, k, T) => \A b \in T : Has(r, k, b) => op.n < b.n

LEMMA HeadLeaves ==
    ASSUME NEW S, NEW q \in Seq(S), q # <<>>, NEW T, NEW k \in MarkKinds, NEW op \in T,
           Head(q).then = MarkDone(k, op)
    PROVE  Leaves(q, Tail(q), k, op, T)
  <1>1. ASSUME NEW l \in MarkKinds
        PROVE  /\ \A a : Has(q, l, a) <=> Head(q).then = MarkDone(l, a) \/ Has(Tail(q), l, a)
               /\ Sorted(q, l, T) => /\ Sorted(Tail(q), l, T)
                                     /\ \A a, b \in T : Head(q).then = MarkDone(l, a) /\ Has(Tail(q), l, b) => a.n < b.n
    BY OldestLeaves
  <1>2. \A l, a : Head(q).then = MarkDone(l, a) <=> l = k /\ a = op
    BY MarksApart
  <1>3. \A l \in MarkKinds : Sorted(q, l, T) => Sorted(Tail(q), l, T)
    BY <1>1
  <1>4. \A l \in MarkKinds, a \in T : Has(q, l, a) <=> (l = k /\ a = op) \/ Has(Tail(q), l, a)
    BY <1>1, <1>2
  <1>5. Sorted(q, k, T) => \A b \in T : Has(Tail(q), k, b) => op.n < b.n
    BY <1>1
  <1> QED BY <1>3, <1>4, <1>5 DEF Leaves

\* It joins the stage k of q, as the youngest.
Joins(q, r, k, op, T) ==
    /\ \A l \in MarkKinds, a \in T : Has(r, l, a) <=> (l = k /\ a = op) \/ Has(q, l, a)
    /\ (\A a \in T : Has(q, k, a) => a.n < op.n) => \A l \in MarkKinds : Sorted(q, l, T) => Sorted(r, l, T)

LEMMA TailJoins ==
    ASSUME NEW S, NEW q \in Seq(S), NEW x, NEW T, NEW k \in MarkKinds, NEW op \in T, x.then = MarkDone(k, op)
    PROVE  Joins(q, Append(q, x), k, op, T) /\ Joins(q, q \o <<x>>, k, op, T)
  <1>1. Append(q, x) = q \o <<x>>
    <2>1. PICK Q : Q = S \cup {x}
      OBVIOUS
    <2>2. q \in Seq(Q) /\ x \in Q
      BY <2>1
    <2> QED BY <2>2, AppendIsConcat
  <1>2. ASSUME NEW l \in MarkKinds
        PROVE  /\ \A a : Has(Append(q, x), l, a) <=> Has(q, l, a) \/ x.then = MarkDone(l, a)
               /\ Sorted(q, l, T) /\ (\A a, b \in T : Has(q, l, a) /\ x.then = MarkDone(l, b) => a.n < b.n)
                  => Sorted(Append(q, x), l, T)
    BY YoungestJoins
  <1>3. \A l, a : x.then = MarkDone(l, a) <=> l = k /\ a = op
    BY MarksApart
  <1>4. \A l \in MarkKinds, a \in T : Has(Append(q, x), l, a) <=> (l = k /\ a = op) \/ Has(q, l, a)
    BY <1>2, <1>3
  <1>5. ASSUME \A a \in T : Has(q, k, a) => a.n < op.n, NEW l \in MarkKinds, Sorted(q, l, T)
        PROVE  Sorted(Append(q, x), l, T)
    <2>1. \A a, b \in T : Has(q, l, a) /\ x.then = MarkDone(l, b) => a.n < b.n
      BY <1>3, <1>5
    <2> QED BY <1>2, <1>5, <2>1
  <1>6. Joins(q, Append(q, x), k, op, T)
    BY <1>4, <1>5 DEF Joins
  <1> QED BY <1>1, <1>6

\* The write of a mark is answered: the tap goes on to the next stage.
LEMMA StageAnswered ==
    ASSUME NEW d \in Devices, Queueing(d), NoOvertaking(d), NEW k \in MarkKinds, NEW op \in Taps(d),
           Leaves(queue[d], queue'[d], k, op, Taps(d)), Joins(mainq[d], mainq'[d], k, op, Taps(d))
    PROVE  /\ Queueing(d)' /\ NoOvertaking(d)'
           /\ \A a \in Taps(d) : InFlight(d, a)' <=> InFlight(d, a)
  <1>1. Taps(d)' = Taps(d)
    BY OwnMarksType
  <1>2. PICK T : T = Taps(d)
    OBVIOUS
  <1>3. \A l \in MarkKinds, a \in T : /\ Has(queue[d], l, a) <=> (l = k /\ a = op) \/ Has(queue'[d], l, a)
                                      /\ Has(mainq'[d], l, a) <=> (l = k /\ a = op) \/ Has(mainq[d], l, a)
    BY <1>2 DEF Leaves, Joins
  <1>4. Has(queue[d], k, op)
    BY <1>2, <1>3
  <1>5. \A a \in T : Has(mainq[d], k, a) => a.n < op.n
    BY <1>2, <1>4 DEF NoOvertaking, FirstSent, FirstTold, SecondSent, SecondTold, MarkKinds
  <1>6. Queueing(d)'
    BY <1>1, <1>2, <1>5 DEF Queueing, Leaves, Joins
  <1>7. \A b \in T : Has(queue'[d], k, b) => op.n < b.n
    BY <1>2 DEF Queueing, Leaves
  <1>8. /\ \A a \in T : FirstSent(d, a) <=> (k = "firstMarkDone" /\ a = op) \/ FirstSent(d, a)'
        /\ \A a \in T : SecondSent(d, a) <=> (k = "secondMarkDone" /\ a = op) \/ SecondSent(d, a)'
        /\ \A a \in T : FirstTold(d, a)' <=> (k = "firstMarkDone" /\ a = op) \/ FirstTold(d, a)
        /\ \A a \in T : SecondTold(d, a)' <=> (k = "secondMarkDone" /\ a = op) \/ SecondTold(d, a)
    BY <1>3 DEF MarkKinds, FirstSent, FirstTold, SecondSent, SecondTold
  <1>9. CASE k = "firstMarkDone"
    <2>1. \A b \in T : FirstSent(d, b)' => op.n < b.n
      BY <1>7, <1>9 DEF FirstSent
    <2>2. NoOvertaking(d)'
      BY <1>1, <1>2, <1>8, <1>9, <2>1 DEF NoOvertaking
    <2> QED BY <1>2, <1>6, <1>8, <2>2 DEF InFlight
  <1>10. CASE k = "secondMarkDone"
    <2>1. \A b \in T : SecondSent(d, b)' => op.n < b.n
      BY <1>7, <1>10 DEF SecondSent
    <2>2. NoOvertaking(d)'
      BY <1>1, <1>2, <1>8, <1>10, <2>1 DEF NoOvertaking
    <2> QED BY <1>2, <1>6, <1>8, <2>2 DEF InFlight
  <1> QED BY <1>9, <1>10 DEF MarkKinds

\* A write with a completion block belongs to a tap.
LEMMA WriteThen ==
    ASSUME LikesInv, NEW d \in Devices, NEW w \in WritesOf(d), w.then # NoThen
    PROVE  \E k \in MarkKinds, op \in Taps(d) : w.then = MarkDone(k, op)
  <1>1. w.then \in MarkBlocks(d)
    BY DEF WritesOf
  <1>2. PICK k \in MarkKinds, op \in OpsOf(d) : w.then = [kind |-> k, op |-> op]
    BY <1>1 DEF MarkBlocks, MarkKinds
  <1>3. op \in Taps(d)
    BY <1>2, OpsNat DEF OpsOf, Taps
  <1> QED BY <1>2, <1>3 DEF MarkDone

LEMMA NoThenNoMark ==
    ASSUME NEW d \in Devices
    PROVE  NoMark(NoThen, Taps(d))
  BY BlockNotEmpty DEF NoMark, MarkDone, MarkKinds, FirstMarkDone, SecondMarkDone

LEMMA AnswerStages ==
    ASSUME LikesInv, NEW d \in Devices, OwnWrites(d), Queueing(d), NoOvertaking(d),
           queue[d] # <<>>, NEW path \in Head(queue[d]).paths, AnswerAt(d, Head(queue[d]), path)
    PROVE  /\ Queueing(d)' /\ NoOvertaking(d)'
           /\ \A op \in Taps(d) : InFlight(d, op)' <=> InFlight(d, op)
  <1>1. PICK w : w = Head(queue[d])
    OBVIOUS
  <1>2. PICK q : q = queue[d]
    OBVIOUS
  <1>3. PICK T : T = Taps(d)
    OBVIOUS
  <1>4. /\ q \in Seq(WritesOf(d)) /\ q # <<>> /\ w = Head(q) /\ w \in WritesOf(d) /\ w \in Range(q)
        /\ mainq[d] \in Seq(BlocksOf(d))
    BY <1>1, <1>2, HeadTailSeq, RangeOfTail DEF LikesInv, QueuesOK
  <1>5. /\ queue'[d] = IF w.paths = {path} THEN Tail(q) ELSE <<Trimmed(w, path)>> \o Tail(q)
        /\ mainq'[d] = IF w.then = NoThen THEN mainq[d]
                       ELSE Append(mainq[d], [then |-> w.then, res |-> Accepts(w, path)])
    BY <1>1, <1>2 DEF AnswerAt
  <1>6. CASE w.then = NoThen
    <2>1. NoMark(Head(q).then, T)
      BY <1>3, <1>4, <1>6, NoThenNoMark
    <2>2. Alike(q, Tail(q), T)
      BY <1>4, <2>1, AlikeTail
    <2>3. Alike(q, <<Trimmed(w, path)>> \o Tail(q), T)
      <3>1. \E D : w \in [paths : SUBSET D, data : Counts \cup {Marked, NoDoc}, upd : BOOLEAN,
                          then : MarkBlocks(d) \cup {NoThen}]
        BY <1>4 DEF WritesOf
      <3>2. Trimmed(w, path).then = w.then
        BY <3>1 DEF Trimmed
      <3> QED BY <1>4, <3>2, AlikeHead
    <2>4. Alike(queue[d], queue'[d], Taps(d)) /\ Alike(mainq[d], mainq'[d], Taps(d))
      BY <1>2, <1>3, <1>5, <1>6, <2>2, <2>3, AlikeSelf
    <2> QED BY <2>4, StagesSame
  <1>7. CASE w.then # NoThen
    <2>1. PICK k \in MarkKinds, op \in Taps(d) : w.then = MarkDone(k, op)
      BY <1>4, <1>7, WriteThen
    <2>2. w.paths = {path}
      BY <1>1, <1>2, <1>4, <1>7 DEF OwnWrites
    <2>3. Leaves(queue[d], queue'[d], k, op, Taps(d))
      <3>1. Leaves(q, Tail(q), k, op, T)
        BY <1>3, <1>4, <2>1, HeadLeaves
      <3> QED BY <1>2, <1>3, <1>5, <2>2, <3>1
    <2>4. Joins(mainq[d], mainq'[d], k, op, Taps(d))
      <3>1. PICK b : b = [then |-> w.then, res |-> Accepts(w, path)]
        OBVIOUS
      <3>2. b.then = MarkDone(k, op)
        BY <2>1, <3>1
      <3>3. Joins(mainq[d], Append(mainq[d], b), k, op, Taps(d))
        BY <1>4, <2>1, <3>2, TailJoins
      <3> QED BY <1>5, <1>7, <3>1, <3>3
    <2> QED BY <2>1, <2>3, <2>4, StageAnswered
  <1> QED BY <1>6, <1>7

LEMMA AnswerAccounted ==
    ASSUME LikesInv, LikesInv', NEW d \in Devices, Accounted(d), CapturedNotRebound, crashes' = crashes,
           Answer(d, TRUE)
    PROVE  Accounted(d)'
  <1>1. PICK w : w = Head(queue[d])
    OBVIOUS
  <1>2. PICK path \in w.paths : AnswerAt(d, w, path)
    BY <1>1, AnswerHead DEF LikesInv
  <1>3. queue[d] \in Seq(WritesOf(d)) /\ queue[d] # <<>> /\ w \in WritesOf(d) /\ Tail(queue[d]) \in Seq(WritesOf(d))
    BY <1>1, HeadTailSeq DEF LikesInv, QueuesOK, Answer
  <1>4. Range(queue[d]) = {w} \cup Range(Tail(queue[d]))
    BY <1>1, <1>3, RangeOfTail
  <1>5. /\ Queueing(d)' /\ NoOvertaking(d)'
        /\ \A op \in Taps(d) : InFlight(d, op)' <=> InFlight(d, op)
    BY <1>1, <1>2, <1>3, AnswerStages DEF Accounted
  <1>6. \A op \in Taps(d) : InFlight(d, op) => cell'[op.s][op.c].p = op.p
    BY KeptCells DEF Accounted
  <1>7. \A x \in OwnMarks(d) : View(d, x)' = View(d, x)
    BY <1>1, <1>2, <1>3, OwnMarksType, ViewAnswered
  <1>8. OwnWrites(d)'
    <2>1. PICK t : t = Trimmed(w, path)
      OBVIOUS
    <2>2. t.paths \subseteq w.paths /\ t.then = w.then
      <3>1. \E D : w \in [paths : SUBSET D, data : Counts \cup {Marked, NoDoc}, upd : BOOLEAN,
                          then : MarkBlocks(d) \cup {NoThen}]
        BY <1>3 DEF WritesOf
      <3> QED BY <2>1, <3>1 DEF Trimmed
    <2>3. w.paths # {path} => w.then = NoThen
      BY <1>2, <1>4 DEF Accounted, OwnWrites
    <2>4. queue'[d] = Tail(queue[d]) \/ (w.paths # {path} /\ queue'[d] = <<t>> \o Tail(queue[d]))
      BY <1>1, <1>2, <2>1 DEF AnswerAt
    <2>5. Range(<<t>> \o Tail(queue[d])) = {t} \cup Range(Tail(queue[d]))
      <3>1. PICK S : S = WritesOf(d) \cup {t}
        OBVIOUS
      <3>2. PICK a : a = <<t>>
        OBVIOUS
      <3>3. PICK q : q = Tail(queue[d])
        OBVIOUS
      <3>4. a \in Seq(S) /\ q \in Seq(S)
        BY <1>3, <3>1, <3>2, <3>3
      <3>5. Range(a \o q) = Range(a) \cup Range(q)
        BY <3>4, RangeOfConcat
      <3> QED BY <3>2, <3>3, <3>5, RangeOfOne
    <2>6. \A v \in Range(queue'[d]) : v \in Range(queue[d]) \/ (v.paths \subseteq w.paths /\ v.then = NoThen)
      BY <1>4, <2>2, <2>3, <2>4, <2>5
    <2>7. w \in Range(queue[d]) /\ OwnWrites(d)
      BY <1>4 DEF Accounted
    <2> QED BY <2>6, <2>7, OwnMarksType DEF OwnWrites
  <1>9. gets' = gets /\ Range(mainq[d]) \subseteq Range(mainq'[d]) /\ \A b \in Range(mainq'[d]) : b \in Range(mainq[d]) \/ ~IsFind(b)
    <2>1. CASE w.then = NoThen
      BY <1>1, <1>2, <2>1 DEF AnswerAt
    <2>2. CASE w.then # NoThen
      <3>1. PICK b : b = [then |-> w.then, res |-> Accepts(w, path)]
        OBVIOUS
      <3>2. mainq'[d] = Append(mainq[d], b) /\ gets' = gets
        BY <1>2, <2>2, <3>1 DEF AnswerAt
      <3>3. PICK S : S = BlocksOf(d) \cup {b}
        OBVIOUS
      <3>4. mainq[d] \in Seq(S) /\ b \in S
        BY <3>3 DEF LikesInv, QueuesOK
      <3>5. Range(mainq'[d]) = Range(mainq[d]) \cup {b}
        BY <3>2, <3>4, RangeOfAppend
      <3>6. ~IsFind(b)
        <4>1. PICK k \in MarkKinds, op \in Taps(d) : w.then = MarkDone(k, op)
          BY <1>3, <2>2, WriteThen
        <4>2. b.then.kind = k
          BY <3>1, <4>1 DEF MarkDone
        <4> QED BY <4>2 DEF IsFind, MarkKinds
      <3> QED BY <3>2, <3>5, <3>6
    <2> QED BY <2>1, <2>2
  <1>10. OwnFinds(d)'
    BY <1>9 DEF Accounted, OwnFinds, IsFind
  <1>11. \A x : Sought(d, x) \/ Found(d, x) => Sought(d, x)' \/ Found(d, x)'
    BY <1>9 DEF Sought, Found, IsFind
  <1> QED BY <1>5, <1>6, <1>7, <1>8, <1>10, <1>11, WantsSame, OwnMarksType, Accounting

-----------------------------------------------------------------------------
(* A read is answered, or issued.                                          *)
LEMMA RestThens ==
    ASSUME QueuesOK, NEW d \in Devices, NEW i \in DOMAIN gets[d],
           NEW ps \in Part(gets[d][i]), gets' = Rest(d, i, ps)
    PROVE  \A r \in Range(gets'[d]) : \E s \in Range(gets[d]) : s.then = r.then
  <1>1. gets[d] \in Seq(ReadsOf(d)) /\ DOMAIN gets = Devices /\ gets[d][i] \in ReadsOf(d)
    BY DEF QueuesOK
  <1>2. CASE ps = gets[d][i].paths
    <2>1. gets'[d] = RemoveAt(gets[d], i)
      BY <1>1, <1>2 DEF Rest
    <2>2. Range(gets[d]) = {gets[d][i]} \cup Range(gets'[d])
      BY <1>1, <2>1, RangeOfRemoveAt
    <2> QED BY <2>2
  <1>3. CASE ps # gets[d][i].paths
    <2>1. PICK t : t = [gets[d][i] EXCEPT !.paths = @ \ ps]
      OBVIOUS
    <2>2. t.then = gets[d][i].then
      <3>1. gets[d][i] \in [paths : SUBSET (PostDocs \cup UserLikes \cup Marks), each : BOOLEAN,
                            then : ListBlocks(d) \cup DetailBlocks(d) \cup CheckBlocks(d) \cup FindBlocks]
        BY <1>1 DEF ReadsOf
      <3> QED BY <2>1, <3>1
    <2>3. gets' = [gets EXCEPT ![d][i] = t]
      BY <1>3, <2>1 DEF Rest
    <2>4. gets'[d] = [gets[d] EXCEPT ![i] = t]
      BY <1>1, <2>3
    <2>5. DOMAIN gets'[d] = DOMAIN gets[d] /\ gets'[d][i] = t /\ \A j \in DOMAIN gets[d] : j # i => gets'[d][j] = gets[d][j]
      BY <2>4
    <2>6. Range(gets'[d]) = {gets'[d][j] : j \in DOMAIN gets[d]} /\ Range(gets[d]) = {gets[d][j] : j \in DOMAIN gets[d]}
      BY <2>5 DEF Range
    <2> QED BY <2>2, <2>5, <2>6
  <1> QED BY <1>2, <1>3

LEMMA ResolveAccounted ==
    ASSUME LikesInv, LikesInv', NEW d \in Devices, Accounted(d), CapturedNotRebound, crashes' = crashes,
           NEW i \in DOMAIN gets[d], Resolve(d, i)
    PROVE  Accounted(d)'
  <1>1. PICK ps \in Part(gets[d][i]) :
           /\ mainq' = [mainq EXCEPT ![d] = Append(@,
                [then |-> gets[d][i].then, res |-> [path \in ps |-> View(d, path)]])]
           /\ gets' = Rest(d, i, ps)
    BY DEF Resolve
  <1>2. docs' = docs /\ queue' = queue
    BY DEF Resolve
  <1>3. PICK b : b = [then |-> gets[d][i].then, res |-> [path \in ps |-> View(d, path)]]
    OBVIOUS
  <1>4. mainq'[d] = Append(mainq[d], b) /\ mainq[d] \in Seq(BlocksOf(d))
    BY <1>1, <1>3 DEF LikesInv, QueuesOK
  <1>5. Range(mainq'[d]) = Range(mainq[d]) \cup {b}
    <2>1. PICK S : S = BlocksOf(d) \cup {b}
      OBVIOUS
    <2>2. mainq[d] \in Seq(S) /\ b \in S
      BY <1>4, <2>1
    <2> QED BY <1>4, <2>2, RangeOfAppend
  <1>6. NoMark(b.then, Taps(d))
    <2>1. gets[d][i] \in ReadsOf(d)
      BY DEF LikesInv, QueuesOK
    <2>2. b.then.kind \notin MarkKinds
      BY <1>3, <2>1 DEF ReadsOf, ListBlocks, DetailBlocks, CheckBlocks, FindBlocks, MarkKinds
    <2>3. \A k, op : MarkDone(k, op).kind = k
      BY DEF MarkDone
    <2> QED BY <2>2, <2>3 DEF NoMark
  <1>7. Alike(queue[d], queue'[d], Taps(d)) /\ Alike(mainq[d], mainq'[d], Taps(d))
    BY <1>2, <1>4, <1>6, AlikeSelf, AlikeAppend
  <1>8. /\ Queueing(d)' /\ NoOvertaking(d)'
        /\ \A op \in Taps(d) : InFlight(d, op)' <=> InFlight(d, op)
    BY <1>7, StagesSame DEF Accounted
  <1>9. \A op \in Taps(d) : InFlight(d, op) => cell'[op.s][op.c].p = op.p
    BY KeptCells DEF Accounted
  <1>10. \A x \in OwnMarks(d) : View(d, x)' = View(d, x)
    BY <1>2 DEF View
  <1>11. OwnWrites(d)'
    BY <1>2, OwnMarksType DEF Accounted, OwnWrites
  <1>12. gets[d][i] \in Range(gets[d])
    BY DEF Range
  <1>13. OwnFinds(d)'
    <2>1. \A r \in Range(gets'[d]) : \E s \in Range(gets[d]) : s.then = r.then
      BY <1>1, RestThens DEF LikesInv
    <2>2. b.then = gets[d][i].then
      BY <1>3
    <2> QED BY <1>5, <1>12, <2>1, <2>2 DEF Accounted, OwnFinds, IsFind
  <1>14. ASSUME NEW x, View(d, x) # NoDoc, Sought(d, x) \/ Found(d, x)
         PROVE  Sought(d, x)' \/ Found(d, x)'
    <2>1. CASE Found(d, x)
      BY <1>5, <2>1 DEF Found, IsFind
    <2>2. CASE Sought(d, x)
      <3>1. PICK r \in Range(gets[d]) : IsFind(r) /\ x \in r.paths
        BY <2>2 DEF Sought
      <3>2. PICK then : then = r.then
        OBVIOUS
      <3>3. \/ \E s \in Range(gets'[d]) : s.then = then /\ x \in s.paths
            \/ gets[d][i].then = then /\ x \in ps
        <4>1. \A t, path : (\E s \in Range(gets[d]) : s.then = t /\ path \in s.paths)
                 <=> \/ \E s \in Range(gets'[d]) : s.then = t /\ path \in s.paths
                     \/ gets[d][i].then = t /\ path \in ps
          <5>1. QueuesOK /\ gets' = Rest(d, i, ps)
            BY <1>1 DEF LikesInv
          <5> QED BY <5>1, RestAt
        <4>2. \E s \in Range(gets[d]) : s.then = then /\ x \in s.paths
          BY <3>1, <3>2
        <4> QED BY <4>1, <4>2
      <3>4. CASE \E s \in Range(gets'[d]) : s.then = then /\ x \in s.paths
        BY <3>1, <3>2, <3>4 DEF Sought, IsFind
      <3>5. CASE gets[d][i].then = then /\ x \in ps
        <4>1. IsFind(b) /\ x \in DOMAIN b.res /\ b.res[x] # NoDoc
          BY <1>3, <1>14, <3>1, <3>2, <3>5 DEF IsFind
        <4> QED BY <1>5, <4>1 DEF Found, IsFind
      <3> QED BY <3>3, <3>4, <3>5
    <2> QED BY <1>14, <2>1, <2>2
  <1> QED BY <1>8, <1>9, <1>10, <1>11, <1>13, <1>14, WantsSame, OwnMarksType, Accounting

\* Reads other than finds are issued, by a touch or by a block that is neither of
\* a mark nor of a find.
LEMMA ReadsAccounted ==
    ASSUME LikesInv, LikesInv', NEW d \in Devices, Accounted(d), CapturedNotRebound, crashes' = crashes,
           docs' = docs, queue'[d] = queue[d],
           NEW R, NEW rs \in Seq(R), gets'[d] = gets[d] \o rs, \A r \in Range(rs) : ~IsFind(r),
           \/ mainq'[d] = mainq[d]
           \/ mainq[d] # <<>> /\ mainq'[d] = Tail(mainq[d]) /\ ~IsFind(Head(mainq[d])) /\ ~IsMark(Head(mainq[d]))
    PROVE  Accounted(d)'
  <1>1. mainq[d] \in Seq(BlocksOf(d)) /\ gets[d] \in Seq(ReadsOf(d))
    BY DEF LikesInv, QueuesOK
  <1>2. Range(gets'[d]) = Range(gets[d]) \cup Range(rs)
    <2>1. PICK S : S = ReadsOf(d) \cup R
      OBVIOUS
    <2>2. PICK g : g = gets[d]
      OBVIOUS
    <2>3. g \in Seq(S) /\ rs \in Seq(S)
      BY <1>1, <2>1, <2>2
    <2>4. Range(g \o rs) = Range(g) \cup Range(rs)
      BY <2>3, RangeOfConcat
    <2> QED BY <2>2, <2>4
  <1>3. /\ Alike(mainq[d], mainq'[d], Taps(d))
        /\ \A b \in Range(mainq'[d]) : b \in Range(mainq[d])
        /\ \A b \in Range(mainq[d]) : b \in Range(mainq'[d]) \/ ~IsFind(b)
    <2>1. CASE mainq'[d] = mainq[d]
      BY <2>1, AlikeSelf
    <2>2. CASE mainq[d] # <<>> /\ mainq'[d] = Tail(mainq[d]) /\ ~IsFind(Head(mainq[d])) /\ ~IsMark(Head(mainq[d]))
      <3>1. NoMark(Head(mainq[d]).then, Taps(d))
        <4>1. \A k, op : MarkDone(k, op).kind = k
          BY DEF MarkDone
        <4> QED BY <2>2, <4>1 DEF NoMark, IsMark, MarkKinds
      <3>2. Alike(mainq[d], Tail(mainq[d]), Taps(d))
        BY <1>1, <2>2, <3>1, AlikeTail
      <3>3. Range(mainq[d]) = {Head(mainq[d])} \cup Range(Tail(mainq[d]))
        BY <1>1, <2>2, RangeOfTail
      <3> QED BY <2>2, <3>2, <3>3
    <2> QED BY <2>1, <2>2
  <1>4. /\ Queueing(d)' /\ NoOvertaking(d)'
        /\ \A op \in Taps(d) : InFlight(d, op)' <=> InFlight(d, op)
    BY <1>3, AlikeSelf, StagesSame DEF Accounted
  <1>5. \A op \in Taps(d) : InFlight(d, op) => cell'[op.s][op.c].p = op.p
    BY KeptCells DEF Accounted
  <1>6. \A x \in OwnMarks(d) : View(d, x)' = View(d, x)
    BY DEF View
  <1>7. OwnWrites(d)'
    BY OwnMarksType DEF Accounted, OwnWrites
  <1>8. OwnFinds(d)'
    BY <1>2, <1>3 DEF Accounted, OwnFinds, IsFind
  <1>9. \A x : Sought(d, x) \/ Found(d, x) => Sought(d, x)' \/ Found(d, x)'
    BY <1>2, <1>3 DEF Sought, Found, IsFind
  <1> QED BY <1>4, <1>5, <1>6, <1>7, <1>8, <1>9, WantsSame, OwnMarksType, Accounting

-----------------------------------------------------------------------------
(* The completion blocks of the marks.                                     *)
LEMMA LastConcat ==
    ASSUME NEW S, NEW q \in Seq(S), NEW w, NEW v, NEW x
    PROVE  LastAt(q \o <<w>>, v, x) = IF x \in w.paths THEN w.data ELSE LastAt(q, v, x)
  <1>1. PICK Q : Q = S \cup {w}
    OBVIOUS
  <1>2. q \in Seq(Q) /\ w \in Q
    BY <1>1
  <1>3. Append(q, w) = q \o <<w>>
    BY <1>2, AppendIsConcat
  <1>4. LastAt(Append(q, w), v, x) = IF x \in w.paths THEN w.data ELSE LastAt(q, v, x)
    BY LastJoins
  <1> QED BY <1>3, <1>4

\* The tap of the block at the head of the main queue.
LEMMA HeadTap ==
    ASSUME LikesInv, NEW d \in Devices, NEW k \in MarkKinds, Due(d, k)
    PROVE  /\ Block(d).op \in Taps(d) /\ Block(d) = MarkDone(k, Block(d).op)
           /\ mainq[d] # <<>> /\ mainq[d] \in Seq(BlocksOf(d))
           /\ InFlight(d, Block(d).op)
  <1>1. PICK h : h = Head(mainq[d])
    OBVIOUS
  <1>2. mainq[d] # <<>> /\ h.then.kind = k /\ Block(d) = h.then /\ mainq[d] \in Seq(BlocksOf(d))
    BY <1>1 DEF Due, Block, LikesInv, QueuesOK
  <1>3. Block(d).op \in OpsOf(d)
    BY DueBlock DEF MarkKinds
  <1>4. Block(d).op \in Taps(d)
    BY <1>3, OpsNat DEF OpsOf, Taps
  <1>5. h \in BlocksOf(d) /\ h \in Range(mainq[d])
    BY <1>1, <1>2, RangeOfTail
  <1>6. h \in MarkAnswers(d)
    <2>1. h \notin ListAnswers(d) /\ h \notin DetailAnswers(d)
      BY <1>2 DEF ListAnswers, ListBlocks, DetailAnswers, DetailBlocks, MarkKinds
    <2>2. h \notin CheckAnswers(d) /\ h \notin FindAnswers
      BY <1>2 DEF CheckAnswers, CheckBlocks, FindAnswers, FindBlocks, MarkKinds
    <2> QED BY <1>5, <2>1, <2>2 DEF BlocksOf
  <1>7. h.then = [kind |-> k, op |-> h.then.op]
    <2>1. h.then \in [kind : {"firstMarkDone", "secondMarkDone"}, op : OpsOf(d)]
      BY <1>6 DEF MarkAnswers, MarkBlocks
    <2> QED BY <1>2, <2>1
  <1>8. Has(mainq[d], k, Block(d).op)
    BY <1>2, <1>5, <1>7 DEF Has, MarkDone
  <1>9. InFlight(d, Block(d).op)
    BY <1>8 DEF InFlight, FirstTold, SecondTold, MarkKinds
  <1> QED BY <1>2, <1>4, <1>7, <1>9 DEF MarkDone

\* The second mark of op is written: it has its stage behind all older ones.
LEMMA StageChained ==
    ASSUME NEW d \in Devices, Queueing(d), NoOvertaking(d), NEW op \in Taps(d),
           Leaves(mainq[d], mainq'[d], "firstMarkDone", op, Taps(d)),
           Joins(queue[d], queue'[d], "secondMarkDone", op, Taps(d))
    PROVE  /\ Queueing(d)' /\ NoOvertaking(d)'
           /\ \A a \in Taps(d) : InFlight(d, a)' <=> InFlight(d, a)
  <1>1. Taps(d)' = Taps(d)
    BY OwnMarksType
  <1>2. PICK T : T = Taps(d)
    OBVIOUS
  <1>3. /\ \A a \in T : FirstTold(d, a) <=> a = op \/ FirstTold(d, a)'
        /\ \A a \in T : SecondTold(d, a) <=> SecondTold(d, a)'
        /\ \A a \in T : SecondSent(d, a)' <=> a = op \/ SecondSent(d, a)
        /\ \A a \in T : FirstSent(d, a)' <=> FirstSent(d, a)
    BY <1>2 DEF Leaves, Joins, MarkKinds, FirstSent, FirstTold, SecondSent, SecondTold
  <1>4. \A a \in T : SecondSent(d, a) => a.n < op.n
    BY <1>2, <1>3 DEF NoOvertaking
  <1>5. \A b \in T : FirstTold(d, b)' => op.n < b.n
    BY <1>2 DEF Queueing, Leaves, MarkKinds, FirstTold
  <1>6. Queueing(d)'
    <2>1. \A a \in T : Has(queue[d], "secondMarkDone", a) => a.n < op.n
      BY <1>4 DEF SecondSent
    <2> QED BY <1>1, <1>2, <2>1 DEF Queueing, Leaves, Joins
  <1>7. NoOvertaking(d)'
    BY <1>1, <1>2, <1>3, <1>4, <1>5 DEF NoOvertaking
  <1> QED BY <1>2, <1>3, <1>6, <1>7 DEF InFlight

\* The oldest tap of all is over.
LEMMA StageEnded ==
    ASSUME NEW d \in Devices, Queueing(d), NoOvertaking(d), NEW op \in Taps(d),
           Leaves(mainq[d], mainq'[d], "secondMarkDone", op, Taps(d)),
           Alike(queue[d], queue'[d], Taps(d))
    PROVE  /\ Queueing(d)' /\ NoOvertaking(d)'
           /\ \A a \in Taps(d) : InFlight(d, a)' => InFlight(d, a) /\ op.n < a.n
           /\ \A a \in Taps(d) : InFlight(d, a) => a = op \/ InFlight(d, a)'
  <1>1. Taps(d)' = Taps(d)
    BY OwnMarksType
  <1>2. PICK T : T = Taps(d)
    OBVIOUS
  <1>3. /\ \A a \in T : FirstTold(d, a) <=> FirstTold(d, a)'
        /\ \A a \in T : SecondTold(d, a) <=> a = op \/ SecondTold(d, a)'
        /\ \A a \in T : SecondSent(d, a)' <=> SecondSent(d, a)
        /\ \A a \in T : FirstSent(d, a)' <=> FirstSent(d, a)
    BY <1>2 DEF Leaves, Alike, MarkKinds, FirstSent, FirstTold, SecondSent, SecondTold
  <1>4. \A b \in T : SecondTold(d, b)' => op.n < b.n
    BY <1>2 DEF Queueing, Leaves, MarkKinds, SecondTold
  <1>5. SecondTold(d, op)
    BY <1>2, <1>3
  <1>6. \A b \in T : SecondSent(d, b) \/ FirstTold(d, b) \/ FirstSent(d, b) => op.n < b.n
    BY <1>2, <1>5 DEF NoOvertaking
  <1>7. Queueing(d)'
    BY <1>1, <1>2 DEF Queueing, Leaves, Alike
  <1>8. NoOvertaking(d)'
    BY <1>1, <1>2, <1>3 DEF NoOvertaking
  <1> QED BY <1>2, <1>3, <1>4, <1>6, <1>7, <1>8 DEF InFlight

\* A tap joins the queue behind all others.
LEMMA StageTapped ==
    ASSUME NEW d \in Devices, Queueing(d), NoOvertaking(d), NEW op \in Taps(d),
           \A a \in Taps(d) : InFlight(d, a) => a.n < op.n,
           Joins(queue[d], queue'[d], "firstMarkDone", op, Taps(d)), mainq'[d] = mainq[d]
    PROVE  /\ Queueing(d)' /\ NoOvertaking(d)'
           /\ \A a \in Taps(d) : InFlight(d, a)' <=> a = op \/ InFlight(d, a)
  <1>1. Taps(d)' = Taps(d)
    BY OwnMarksType
  <1>2. PICK T : T = Taps(d)
    OBVIOUS
  <1>3. /\ \A a \in T : FirstTold(d, a) <=> FirstTold(d, a)'
        /\ \A a \in T : SecondTold(d, a) <=> SecondTold(d, a)'
        /\ \A a \in T : SecondSent(d, a)' <=> SecondSent(d, a)
        /\ \A a \in T : FirstSent(d, a)' <=> a = op \/ FirstSent(d, a)
    BY <1>2 DEF Joins, MarkKinds, FirstSent, FirstTold, SecondSent, SecondTold
  <1>4. \A a \in T : FirstSent(d, a) \/ FirstTold(d, a) \/ SecondSent(d, a) \/ SecondTold(d, a) => a.n < op.n
    BY <1>2 DEF InFlight
  <1>5. Queueing(d)'
    BY <1>1, <1>2, <1>4 DEF Queueing, Joins, FirstSent
  <1>6. NoOvertaking(d)'
    BY <1>1, <1>2, <1>3, <1>4 DEF NoOvertaking
  <1> QED BY <1>2, <1>3, <1>5, <1>6 DEF InFlight

LEMMA FirstAccounted ==
    ASSUME LikesInv, LikesInv', NEW d \in Devices, Accounted(d), CapturedNotRebound, crashes' = crashes,
           firstMarkDone(d)
    PROVE  Accounted(d)'
  <1>1. PICK op : op = Block(d).op
    OBVIOUS
  <1>2. Due(d, "firstMarkDone") /\ Take(d, secondMark(op), <<>>)
    BY <1>1 DEF firstMarkDone
  <1>3. PICK w : w = Second(op)
    OBVIOUS
  <1>4. Take(d, <<w>>, <<>>)
    BY <1>2, <1>3 DEF secondMark, Second
  <1>5. /\ op \in Taps(d) /\ Block(d) = MarkDone("firstMarkDone", op)
        /\ mainq[d] # <<>> /\ mainq[d] \in Seq(BlocksOf(d))
    BY <1>1, <1>2, HeadTap DEF MarkKinds
  <1>6. /\ docs' = docs /\ queue'[d] = queue[d] \o <<w>> /\ gets'[d] = gets[d] \o <<>>
        /\ mainq'[d] = Tail(mainq[d])
    BY <1>4, TakeAt DEF LikesInv
  <1>7. gets'[d] = gets[d] /\ queue[d] \in Seq(WritesOf(d))
    BY <1>6 DEF LikesInv, QueuesOK
  <1>8. w.then = MarkDone("secondMarkDone", op) /\ w.paths = {UserLike(UidOf[d], op.p)} /\ op.p \in Posts /\ UidOf[d] \in Users
    BY <1>3, <1>5, TapWrites DEF MarkDone, SecondMarkDone
  <1>9. /\ Queueing(d)' /\ NoOvertaking(d)'
        /\ \A a \in Taps(d) : InFlight(d, a)' <=> InFlight(d, a)
    <2>1. Leaves(mainq[d], mainq'[d], "firstMarkDone", op, Taps(d))
      <3>1. Head(mainq[d]).then = MarkDone("firstMarkDone", op)
        BY <1>5 DEF Block
      <3>2. "firstMarkDone" \in MarkKinds
        BY DEF MarkKinds
      <3> QED BY <1>5, <1>6, <3>1, <3>2, HeadLeaves
    <2>2. Joins(queue[d], queue'[d], "secondMarkDone", op, Taps(d))
      <3>1. "secondMarkDone" \in MarkKinds
        BY DEF MarkKinds
      <3> QED BY <1>5, <1>6, <1>7, <1>8, <3>1, TailJoins
    <2> QED BY <1>5, <2>1, <2>2, StageChained DEF Accounted
  <1>10. \A a \in Taps(d) : InFlight(d, a) => cell'[a.s][a.c].p = a.p
    BY KeptCells DEF Accounted
  <1>11. \A x \in OwnMarks(d) : View(d, x)' = View(d, x)
    <2> TAKE x \in OwnMarks(d)
    <2>1. x \in Marks
      BY OwnMarksType
    <2>2. x \notin w.paths
      <3>1. UserLike(UidOf[d], op.p) \notin OwnMarks(d)
        BY <1>8 DEF UserLike, OwnMarks, PostLike, NotesOf, LikeNotifications, LikeNotification
      <3> QED BY <1>8, <3>1
    <2>3. View(d, x)' = LastAt(queue'[d], docs'[x], x) /\ View(d, x) = LastAt(queue[d], docs[x], x)
      BY <2>1, ViewLast DEF LikesInv
    <2> QED BY <1>6, <1>7, <2>2, <2>3, LastConcat
  <1>12. OwnWrites(d)'
    <2>1. Range(queue'[d]) = Range(queue[d]) \cup {w}
      <3>1. PICK S : S = WritesOf(d) \cup {w}
        OBVIOUS
      <3>2. PICK q : q = queue[d]
        OBVIOUS
      <3>3. PICK r : r = <<w>>
        OBVIOUS
      <3>4. q \in Seq(S) /\ r \in Seq(S)
        BY <1>7, <3>1, <3>2, <3>3
      <3>5. Range(q \o r) = Range(q) \cup Range(r)
        BY <3>4, RangeOfConcat
      <3> QED BY <1>6, <3>2, <3>3, <3>5, RangeOfOne
    <2>2. w.paths \subseteq OwnPaths(d) /\ \E x : w.paths = {x}
      BY <1>8, MarkPaths DEF OwnPaths
    <2> QED BY <2>1, <2>2, OwnMarksType DEF Accounted, OwnWrites
  <1>13. Range(mainq[d]) = {Head(mainq[d])} \cup Range(mainq'[d]) /\ ~IsFind(Head(mainq[d]))
    <2>1. Head(mainq[d]).then.kind = "firstMarkDone"
      BY <1>2 DEF Due
    <2> QED BY <1>5, <1>6, <2>1, RangeOfTail DEF IsFind
  <1>14. OwnFinds(d)'
    BY <1>7, <1>13 DEF Accounted, OwnFinds, IsFind
  <1>15. \A x : Sought(d, x) \/ Found(d, x) => Sought(d, x)' \/ Found(d, x)'
    BY <1>7, <1>13 DEF Sought, Found, IsFind
  <1> QED BY <1>9, <1>10, <1>11, <1>12, <1>14, <1>15, WantsSame, OwnMarksType, Accounting

\* The oldest tap ends, whatever it issues.
LEMMA SecondEnds ==
    ASSUME LikesInv, NEW d \in Devices, Accounted(d), CapturedNotRebound, crashes' = crashes,
           Due(d, "secondMarkDone"), NEW op, op = Block(d).op, NEW ws, NEW rs, Take(d, ws, rs),
           Alike(queue[d], queue'[d], Taps(d))
    PROVE  /\ op \in Taps(d) /\ cell[op.s][op.c].p = op.p
           /\ Queueing(d)' /\ NoOvertaking(d)' /\ Kept(d)'
           /\ \A a \in Taps(d) : InFlight(d, a)' => InFlight(d, a) /\ op.n < a.n
           /\ \A a \in Taps(d) : InFlight(d, a) => a = op \/ InFlight(d, a)'
           /\ \A b \in Range(mainq[d]) : IsFind(b) => b \in Range(mainq'[d])
           /\ \A b \in Range(mainq'[d]) : b \in Range(mainq[d])
  <1>1. /\ op \in Taps(d) /\ Block(d) = MarkDone("secondMarkDone", op)
        /\ mainq[d] # <<>> /\ mainq[d] \in Seq(BlocksOf(d)) /\ InFlight(d, op)
    BY HeadTap DEF MarkKinds
  <1>2. mainq'[d] = Tail(mainq[d])
    BY TakeAt DEF LikesInv
  <1>3. Leaves(mainq[d], mainq'[d], "secondMarkDone", op, Taps(d))
    <2>1. Head(mainq[d]).then = MarkDone("secondMarkDone", op)
      BY <1>1 DEF Block
    <2>2. "secondMarkDone" \in MarkKinds
      BY DEF MarkKinds
    <2> QED BY <1>1, <1>2, <2>1, <2>2, HeadLeaves
  <1>4. /\ Queueing(d)' /\ NoOvertaking(d)'
        /\ \A a \in Taps(d) : InFlight(d, a)' => InFlight(d, a) /\ op.n < a.n
        /\ \A a \in Taps(d) : InFlight(d, a) => a = op \/ InFlight(d, a)'
    BY <1>1, <1>3, StageEnded DEF Accounted
  <1>5. Kept(d)'
    BY <1>4, KeptCells, OwnMarksType DEF Accounted, Kept
  <1>6. /\ \A b \in Range(mainq[d]) : IsFind(b) => b \in Range(mainq'[d])
        /\ \A b \in Range(mainq'[d]) : b \in Range(mainq[d])
    <2>1. Head(mainq[d]).then.kind = "secondMarkDone"
      BY DEF Due
    <2>2. Range(mainq[d]) = {Head(mainq[d])} \cup Range(Tail(mainq[d]))
      BY <1>1, RangeOfTail
    <2> QED BY <1>2, <2>1, <2>2 DEF IsFind
  <1>7. cell[op.s][op.c].p = op.p
    BY <1>1 DEF Accounted, Kept
  <1> QED BY <1>1, <1>4, <1>5, <1>6, <1>7

LEMMA RangeGrows ==
    ASSUME NEW S, NEW q \in Seq(S), NEW w
    PROVE  Range(q \o <<w>>) = Range(q) \cup {w}
  <1>1. PICK Q : Q = S \cup {w}
    OBVIOUS
  <1>2. PICK r : r = <<w>>
    OBVIOUS
  <1>3. q \in Seq(Q) /\ r \in Seq(Q)
    BY <1>1, <1>2
  <1>4. Range(q \o r) = Range(q) \cup Range(r)
    BY <1>3, RangeOfConcat
  <1> QED BY <1>2, <1>4, RangeOfOne

\* The notification of a tap.
LEMMA TapNote ==
    ASSUME LikesInv, NEW d \in Devices, NEW op \in Taps(d), InFlight(d, op),
           NEW x, x = LikeNotification(UidAt(op.s), op.p, op.n)
    PROVE  /\ op.p \in Posts /\ x \in LikeNotifications(UidOf[d], op.p) /\ x \in OwnMarks(d)
           /\ \A p \in Posts : x # PostLike(p, UidOf[d])
           /\ \A p \in Posts : x \in LikeNotifications(UidOf[d], p) => p = op.p
  <1>1. op.p \in Posts /\ UidAt(op.s) = UidOf[d] /\ UidOf[d] \in Users
    BY TapWrites
  <1>2. op.n \in 0..MaxOps
    <2>1. op.n \in 1..ops
      BY FlightTyped
    <2>2. ops \in 0..MaxOps
      BY DEF LikesInv
    <2> QED BY <2>1, <2>2, LikesAssumption
  <1>3. x \in LikeNotifications(UidOf[d], op.p)
    BY <1>1, <1>2 DEF LikeNotifications
  <1>4. x[1] = "user-notifications" /\ x[4] = op.p
    BY DEF LikeNotification
  <1>5. \A p \in Posts : x # PostLike(p, UidOf[d])
    BY <1>4 DEF PostLike
  <1>6. \A p \in Posts : \A y \in LikeNotifications(UidOf[d], p) : y[4] = p
    BY DEF LikeNotifications, LikeNotification
  <1> QED BY <1>1, <1>3, <1>4, <1>5, <1>6, OwnMarksType

\* An account that is told of likes it wants, or whose own unlike is still to come.
LEMMA SecondLiked ==
    ASSUME LikesInv, LikesInv', NEW d \in Devices, Accounted(d), CapturedNotRebound, crashes' = crashes,
           secondMarkDone(d), Block(d).op.like
    PROVE  Accounted(d)'
  <1>1. PICK op : op = Block(d).op
    OBVIOUS
  <1>2. PICK ws : ws = uploadNotification(op)
    OBVIOUS
  <1>3. Due(d, "secondMarkDone") /\ Take(d, ws, <<>>) /\ op.like
    BY <1>1, <1>2 DEF secondMarkDone
  <1>4. op \in Taps(d) /\ InFlight(d, op)
    BY <1>1, <1>3, HeadTap DEF MarkKinds
  <1>5. PICK x : x = LikeNotification(UidAt(op.s), op.p, op.n)
    OBVIOUS
  <1>6. /\ op.p \in Posts /\ x \in LikeNotifications(UidOf[d], op.p) /\ x \in OwnMarks(d)
        /\ \A p \in Posts : x # PostLike(p, UidOf[d])
        /\ \A p \in Posts : x \in LikeNotifications(UidOf[d], p) => p = op.p
    BY <1>4, <1>5, TapNote
  <1>7. PICK w : w = setData(x, Marked, NoThen)
    OBVIOUS
  <1>8. w.paths = {x} /\ w.then = NoThen
    BY <1>7 DEF setData, Write
  <1>9. ws = <<>> \/ ws = <<w>>
    BY <1>2, <1>5, <1>7 DEF uploadNotification
  <1>10. /\ docs' = docs /\ queue'[d] = queue[d] \o ws /\ gets'[d] = gets[d] \o <<>>
         /\ queue[d] \in Seq(WritesOf(d)) /\ gets[d] \in Seq(ReadsOf(d))
    BY <1>3, TakeAt DEF LikesInv, QueuesOK
  <1>11. gets'[d] = gets[d] /\ (queue'[d] = queue[d] \/ queue'[d] = queue[d] \o <<w>>)
    <2>1. gets'[d] = gets[d]
      BY <1>10
    <2>2. ws = <<>> => queue'[d] = queue[d]
      BY <1>10
    <2>3. ws = <<w>> => queue'[d] = queue[d] \o <<w>>
      BY <1>10
    <2> QED BY <1>9, <2>1, <2>2, <2>3
  <1>12. Alike(queue[d], queue'[d], Taps(d))
    <2>1. NoMark(w.then, Taps(d))
      BY <1>8, NoThenNoMark
    <2>2. Alike(queue[d], queue[d] \o <<w>>, Taps(d))
      BY <1>10, <2>1, AlikeAppend
    <2> QED BY <1>11, <2>2, AlikeSelf
  <1>13. /\ Queueing(d)' /\ NoOvertaking(d)' /\ Kept(d)'
         /\ \A a \in Taps(d) : InFlight(d, a)' => InFlight(d, a) /\ op.n < a.n
         /\ \A a \in Taps(d) : InFlight(d, a) => a = op \/ InFlight(d, a)'
         /\ \A b \in Range(mainq[d]) : IsFind(b) => b \in Range(mainq'[d])
         /\ \A b \in Range(mainq'[d]) : b \in Range(mainq[d])
    BY <1>1, <1>3, <1>12, SecondEnds
  <1>14. \A y \in OwnMarks(d) : y # x => View(d, y)' = View(d, y)
    <2> TAKE y \in OwnMarks(d)
    <2> HAVE y # x
    <2>1. View(d, y)' = LastAt(queue'[d], docs[y], y) /\ View(d, y) = LastAt(queue[d], docs[y], y)
      BY <1>10, OwnMarksType, ViewLast DEF LikesInv
    <2>2. LastAt(queue[d] \o <<w>>, docs[y], y) = LastAt(queue[d], docs[y], y)
      BY <1>8, <1>10, LastConcat
    <2> QED BY <1>11, <2>1, <2>2
  <1>15. \A p \in Posts : Wants(d, p)' <=> Wants(d, p)
    <2> TAKE p \in Posts
    <2>1. PICK y \in OwnMarks(d) : y = PostLike(p, UidOf[d])
      BY OwnMarksType
    <2>2. View(d, y)' = View(d, y)
      BY <1>6, <1>14, <2>1
    <2> QED BY <2>1, <2>2 DEF Wants, PostLike
  <1>16. OwnWrites(d)'
    <2>1. Range(queue'[d]) \subseteq Range(queue[d]) \cup {w}
      BY <1>10, <1>11, RangeGrows
    <2>2. w.paths \subseteq OwnPaths(d)
      BY <1>6, <1>8 DEF OwnPaths
    <2> QED BY <1>8, <2>1, <2>2, OwnMarksType DEF Accounted, OwnWrites
  <1>17. OwnFinds(d)'
    BY <1>11, <1>13 DEF Accounted, OwnFinds, IsFind
  <1>18. \A y : Sought(d, y) \/ Found(d, y) => Sought(d, y)' \/ Found(d, y)'
    BY <1>11, <1>13 DEF Sought, Found, IsFind
  <1>19. \A p \in Posts : Unliking(d, p) => Unliking(d, p)'
    BY <1>3, <1>13, OwnMarksType DEF Unliking
  <1>20. ASSUME NEW p \in Posts PROVE Cancelled(d, p)'
    <2>1. Cancelled(d, p)
      BY DEF Accounted
    <2> QED BY <1>3, <1>13, <1>15, <2>1, OwnMarksType DEF Cancelled
  <1>21. ASSUME NEW p \in Posts PROVE Explained(d, p)'
    <2>1. Explained(d, p) /\ Cancelled(d, p)
      BY DEF Accounted
    <2>2. ASSUME NEW y \in LikeNotifications(UidOf[d], p), ~Wants(d, p), View(d, y)' # NoDoc
          PROVE  Unliking(d, p)' \/ Sought(d, y)' \/ Found(d, y)'
      <3>1. CASE y = x
        <4>1. p = op.p
          BY <1>6, <3>1
        <4>2. Unliking(d, p)
          BY <1>3, <1>4, <2>1, <2>2, <4>1 DEF Cancelled, Unliking
        <4> QED BY <1>19, <4>2
      <3>2. CASE y # x
        <4>1. View(d, y)' = View(d, y)
          BY <1>14, <3>2, OwnMarksType
        <4>2. Unliking(d, p) \/ Sought(d, y) \/ Found(d, y)
          BY <2>1, <2>2, <4>1 DEF Explained
        <4> QED BY <1>18, <1>19, <4>2
      <3> QED BY <3>1, <3>2
    <2> QED BY <1>15, <2>2, OwnMarksType DEF Explained
  <1> QED BY <1>13, <1>16, <1>17, <1>20, <1>21 DEF Accounted

\* An unlike is over: the notifications of the post are looked for.
LEMMA SecondUnliked ==
    ASSUME LikesInv, LikesInv', NEW d \in Devices, Accounted(d), CapturedNotRebound, crashes' = crashes,
           secondMarkDone(d), ~Block(d).op.like
    PROVE  Accounted(d)'
  <1>1. PICK op : op = Block(d).op
    OBVIOUS
  <1>2. PICK p0 : p0 = cell[op.s][op.c].p
    OBVIOUS
  <1>3. Due(d, "secondMarkDone") /\ Take(d, <<>>, deleteNotification(OwnerOf[op.p], UidAt(op.s), p0)) /\ ~op.like
    BY <1>1, <1>2 DEF secondMarkDone
  <1>4. op \in Taps(d) /\ InFlight(d, op)
    BY <1>1, <1>3, HeadTap DEF MarkKinds
  <1>5. PICK rs : rs = deleteNotification(OwnerOf[op.p], UidAt(op.s), p0)
    OBVIOUS
  <1>6. /\ docs' = docs /\ queue'[d] = queue[d] \o <<>> /\ gets'[d] = gets[d] \o rs
        /\ queue[d] \in Seq(WritesOf(d)) /\ gets[d] \in Seq(ReadsOf(d))
    BY <1>3, <1>5, TakeAt DEF LikesInv, QueuesOK
  <1>7. queue'[d] = queue[d]
    BY <1>6
  <1>8. Alike(queue[d], queue'[d], Taps(d))
    BY <1>7, AlikeSelf
  <1>9. /\ cell[op.s][op.c].p = op.p
        /\ Queueing(d)' /\ NoOvertaking(d)' /\ Kept(d)'
        /\ \A a \in Taps(d) : InFlight(d, a)' => InFlight(d, a) /\ op.n < a.n
        /\ \A a \in Taps(d) : InFlight(d, a) => a = op \/ InFlight(d, a)'
        /\ \A b \in Range(mainq[d]) : IsFind(b) => b \in Range(mainq'[d])
        /\ \A b \in Range(mainq'[d]) : b \in Range(mainq[d])
    <2>1. PICK ws : ws = <<>>
      OBVIOUS
    <2>2. Due(d, "secondMarkDone") /\ Take(d, ws, rs)
      BY <1>3, <1>5, <2>1
    <2> QED BY <1>1, <1>8, <2>2, SecondEnds
  <1>10. UidAt(op.s) = UidOf[d] /\ p0 = op.p /\ op.p \in Posts
    BY <1>2, <1>4, <1>9, TapWrites
  <1>11. PICK r : r = getDocuments(LikeNotifications(UidOf[d], op.p), FoundNotifications(UidOf[d], op.p))
    OBVIOUS
  <1>12. rs = <<r>>
    BY <1>5, <1>10, <1>11 DEF deleteNotification
  <1>13. IsFind(r) /\ r.paths = LikeNotifications(UidOf[d], op.p) /\ r.then.u = UidOf[d]
    BY <1>11 DEF getDocuments, Read, FoundNotifications, IsFind
  <1>14. Range(gets'[d]) = Range(gets[d]) \cup {r}
    BY <1>6, <1>12, RangeGrows
  <1>15. \A x : View(d, x)' = View(d, x)
    BY <1>6, <1>7 DEF View
  <1>16. \A p \in Posts : Wants(d, p)' <=> Wants(d, p)
    BY <1>15, WantsSame
  <1>17. OwnWrites(d)'
    BY <1>7, OwnMarksType DEF Accounted, OwnWrites
  <1>18. OwnFinds(d)'
    BY <1>9, <1>13, <1>14 DEF Accounted, OwnFinds, IsFind
  <1>19. \A y : Sought(d, y) \/ Found(d, y) => Sought(d, y)' \/ Found(d, y)'
    BY <1>9, <1>14 DEF Sought, Found, IsFind
  <1>20. \A y \in LikeNotifications(UidOf[d], op.p) : Sought(d, y)'
    BY <1>13, <1>14 DEF Sought, IsFind
  <1>21. ASSUME NEW p \in Posts PROVE Cancelled(d, p)'
    <2>1. Cancelled(d, p)
      BY DEF Accounted
    <2>2. ASSUME NEW a \in Taps(d), InFlight(d, a)', a.p = p, a.like, ~Wants(d, p)
          PROVE  \E b \in Taps(d) : InFlight(d, b)' /\ b.p = p /\ ~b.like /\ a.n < b.n
      <3>1. InFlight(d, a) /\ op.n < a.n
        BY <1>9, <2>2
      <3>2. PICK b \in Taps(d) : InFlight(d, b) /\ b.p = p /\ ~b.like /\ a.n < b.n
        BY <2>1, <2>2, <3>1 DEF Cancelled
      <3>3. b # op
        <4>1. a.n \in Nat /\ op.n \in Nat
          BY <1>4 DEF Taps
        <4> QED BY <3>1, <3>2, <4>1
      <3> QED BY <1>9, <3>2, <3>3
    <2> QED BY <1>16, <2>2, OwnMarksType DEF Cancelled
  <1>22. ASSUME NEW p \in Posts PROVE Explained(d, p)'
    <2>1. Explained(d, p)
      BY DEF Accounted
    <2>2. ASSUME NEW y \in LikeNotifications(UidOf[d], p), ~Wants(d, p), View(d, y)' # NoDoc
          PROVE  Unliking(d, p)' \/ Sought(d, y)' \/ Found(d, y)'
      <3>1. Unliking(d, p) \/ Sought(d, y) \/ Found(d, y)
        BY <1>15, <2>1, <2>2 DEF Explained
      <3>2. CASE Unliking(d, p)
        <4>1. PICK b \in Taps(d) : InFlight(d, b) /\ b.p = p /\ ~b.like
          BY <3>2 DEF Unliking
        <4>2. CASE b = op
          BY <1>20, <4>1, <4>2
        <4>3. CASE b # op
          BY <1>9, <4>1, <4>3, OwnMarksType DEF Unliking
        <4> QED BY <4>2, <4>3
      <3> QED BY <1>19, <3>1, <3>2
    <2> QED BY <1>16, <2>2, OwnMarksType DEF Explained
  <1> QED BY <1>9, <1>17, <1>18, <1>21, <1>22 DEF Accounted

\* The notifications that were found are deleted.
LEMMA FoundAccounted ==
    ASSUME LikesInv, LikesInv', NEW d \in Devices, Accounted(d), CapturedNotRebound, crashes' = crashes,
           foundNotifications(d)
    PROVE  Accounted(d)'
  <1>1. PICK found : found = {x \in DOMAIN Result(d) : Result(d)[x] # NoDoc}
    OBVIOUS
  <1>2. PICK ws : ws = IF found = {} THEN <<>> ELSE <<deleteAll(found, NoThen)>>
    OBVIOUS
  <1>3. Due(d, "foundNotifications") /\ Take(d, ws, <<>>)
    BY <1>1, <1>2 DEF foundNotifications
  <1>4. PICK h : h = Head(mainq[d])
    OBVIOUS
  <1>5. h \in FindAnswers /\ mainq[d] # <<>> /\ IsFind(h) /\ mainq[d] \in Seq(BlocksOf(d))
    <2>1. Head(mainq[d]) \in FindAnswers /\ mainq[d] # <<>> /\ Head(mainq[d]).then.kind = "foundNotifications"
      BY <1>3, DueBlock DEF Due
    <2> QED BY <1>4, <2>1 DEF LikesInv, QueuesOK, IsFind
  <1>6. /\ docs' = docs /\ queue'[d] = queue[d] \o ws /\ gets'[d] = gets[d] \o <<>> /\ mainq'[d] = Tail(mainq[d])
        /\ queue[d] \in Seq(WritesOf(d)) /\ gets[d] \in Seq(ReadsOf(d))
    BY <1>3, TakeAt DEF LikesInv, QueuesOK
  <1>7. Range(mainq[d]) = {h} \cup Range(mainq'[d])
    BY <1>4, <1>5, <1>6, RangeOfTail
  <1>8. gets'[d] = gets[d]
    BY <1>6
  <1>9. found \subseteq NotesOf(UidOf[d])
    <2>1. /\ h.then.p \in Posts /\ DOMAIN h.res \in {{}, LikeNotifications(h.then.u, h.then.p)}
      BY <1>5 DEF FindAnswers, FindBlocks
    <2>2. h.then.u = UidOf[d]
      BY <1>5, <1>7 DEF Accounted, OwnFinds
    <2>3. DOMAIN h.res \subseteq NotesOf(UidOf[d])
      BY <2>1, <2>2 DEF NotesOf
    <2> QED BY <1>1, <1>4, <2>3 DEF Result
  <1>10. PICK w : w = deleteAll(found, NoThen)
    OBVIOUS
  <1>11. w.paths = found /\ w.then = NoThen /\ w.data = NoDoc
    BY <1>10 DEF deleteAll, Write
  <1>12. (found = {} /\ queue'[d] = queue[d]) \/ (found # {} /\ queue'[d] = queue[d] \o <<w>>)
    <2>1. CASE found = {}
      <3>1. ws = <<>>
        BY <1>2, <2>1
      <3> QED BY <1>6, <2>1, <3>1
    <2>2. CASE found # {}
      <3>1. ws = <<w>>
        BY <1>2, <1>10, <2>2
      <3> QED BY <1>6, <2>2, <3>1
    <2> QED BY <2>1, <2>2
  <1>13. Alike(queue[d], queue'[d], Taps(d))
    <2>1. NoMark(w.then, Taps(d))
      BY <1>11, NoThenNoMark
    <2>2. Alike(queue[d], queue[d] \o <<w>>, Taps(d))
      BY <1>6, <2>1, AlikeAppend
    <2> QED BY <1>12, <2>2, AlikeSelf
  <1>14. Alike(mainq[d], mainq'[d], Taps(d))
    <2>1. NoMark(h.then, Taps(d))
      <3>1. h.then.kind \notin MarkKinds
        BY <1>5 DEF IsFind, MarkKinds
      <3>2. \A k, op : MarkDone(k, op).kind = k
        BY DEF MarkDone
      <3> QED BY <3>1, <3>2 DEF NoMark
    <2> QED BY <1>4, <1>5, <1>6, <2>1, AlikeTail
  <1>15. /\ Queueing(d)' /\ NoOvertaking(d)'
         /\ \A op \in Taps(d) : InFlight(d, op)' <=> InFlight(d, op)
    BY <1>13, <1>14, StagesSame DEF Accounted
  <1>16. \A op \in Taps(d) : InFlight(d, op) => cell'[op.s][op.c].p = op.p
    BY KeptCells DEF Accounted
  <1>17. \A y \in OwnMarks(d) : View(d, y)' = IF y \in found THEN NoDoc ELSE View(d, y)
    <2> TAKE y \in OwnMarks(d)
    <2>1. View(d, y)' = LastAt(queue'[d], docs[y], y) /\ View(d, y) = LastAt(queue[d], docs[y], y)
      BY <1>6, OwnMarksType, ViewLast DEF LikesInv
    <2>2. LastAt(queue[d] \o <<w>>, docs[y], y) = IF y \in found THEN NoDoc ELSE LastAt(queue[d], docs[y], y)
      BY <1>6, <1>11, LastConcat
    <2> QED BY <1>12, <2>1, <2>2
  <1>18. \A p \in Posts : Wants(d, p)' <=> Wants(d, p)
    <2> TAKE p \in Posts
    <2>1. PICK y \in OwnMarks(d) : y = PostLike(p, UidOf[d])
      BY OwnMarksType
    <2>2. y \notin found
      <3>1. \A x \in NotesOf(UidOf[d]) : x[1] = "user-notifications"
        BY DEF NotesOf, LikeNotifications, LikeNotification
      <3> QED BY <1>9, <2>1, <3>1 DEF PostLike
    <2>3. View(d, y)' = View(d, y)
      BY <1>17, <2>2
    <2> QED BY <2>1, <2>3 DEF Wants, PostLike
  <1>19. OwnWrites(d)'
    <2>1. Range(queue'[d]) \subseteq Range(queue[d]) \cup {w}
      BY <1>6, <1>12, RangeGrows
    <2>2. w.paths \subseteq OwnPaths(d)
      BY <1>9, <1>11 DEF OwnPaths, OwnMarks
    <2> QED BY <1>11, <2>1, <2>2, OwnMarksType DEF Accounted, OwnWrites
  <1>20. OwnFinds(d)'
    BY <1>7, <1>8 DEF Accounted, OwnFinds, IsFind
  <1>21. ASSUME NEW y \in OwnMarks(d), View(d, y)' # NoDoc
         PROVE  View(d, y) # NoDoc /\ (Sought(d, y) \/ Found(d, y) => Sought(d, y)' \/ Found(d, y)')
    <2>1. y \notin found /\ View(d, y)' = View(d, y)
      BY <1>17, <1>21
    <2>2. ASSUME NEW b \in Range(mainq[d]), y \in DOMAIN b.res, b.res[y] # NoDoc
          PROVE  b \in Range(mainq'[d])
      <3>1. b # h
        BY <1>1, <1>4, <2>1, <2>2 DEF Result
      <3> QED BY <1>7, <3>1
    <2> QED BY <1>8, <1>21, <2>1, <2>2 DEF Sought, Found, IsFind
  <1> QED BY <1>15, <1>16, <1>18, <1>19, <1>20, <1>21, OwnMarksType, Accounting

-----------------------------------------------------------------------------
(* Touches.                                                                *)
LEMMA ConcatPair ==
    ASSUME NEW S, NEW q \in Seq(S), NEW a, NEW b
    PROVE  q \o <<a, b>> = (q \o <<a>>) \o <<b>>
  <1>1. PICK Q : Q = S \cup {a, b}
    OBVIOUS
  <1>2. PICK r, t : r = <<a>> /\ t = <<b>>
    OBVIOUS
  <1>3. q \in Seq(Q) /\ r \in Seq(Q) /\ t \in Seq(Q)
    BY <1>1, <1>2
  <1>4. (q \o r) \o t = q \o (r \o t)
    BY <1>3, ConcatAssociative
  <1>5. <<a>> \o <<b>> = <<a, b>>
    <2>1. Append(<<a>>, b) = <<a, b>>
      <3>1. PICK x : x = <<a, b>>
        OBVIOUS
      <3>2. PICK y : y = Append(r, b)
        OBVIOUS
      <3>3. x \in Seq(Q) /\ Len(x) = 2 /\ x[1] = a /\ x[2] = b
        BY <1>1, <3>1
      <3>4. Len(r) = 1 /\ r[1] = a
        BY <1>2
      <3>5. y \in Seq(Q) /\ Len(y) = 2 /\ y[1] = a /\ y[2] = b
        <4>1. r \in Seq(Q) /\ b \in Q /\ DOMAIN r = 1..1
          BY <1>1, <1>3, <3>4
        <4>2. y \in Seq(Q) /\ Len(y) = Len(r) + 1 /\ y[Len(r) + 1] = b
          BY <3>2, <4>1
        <4>3. \A i \in 1..Len(r) : y[i] = r[i]
          BY <3>2, <4>1
        <4> QED BY <3>4, <4>2, <4>3
      <3>6. \A i \in 1..Len(x) : x[i] = y[i]
        BY <3>3, <3>5
      <3>7. x = y
        BY <3>3, <3>5, <3>6
      <3> QED BY <1>2, <3>1, <3>2, <3>7
    <2>2. Append(r, b) = r \o <<b>>
      BY <1>1, <1>3, AppendIsConcat
    <2> QED BY <1>2, <2>1, <2>2
  <1> QED BY <1>2, <1>4, <1>5

\* What a tap on the heart captures and issues.
LEMMA TapIssues ==
    ASSUME LikesInv, NEW s \in Screens, NEW c \in Cells, NEW d \in Devices, d = DeviceOf(s), didTapLike(s, c)
    PROVE  \E op \in Taps(d) :
             /\ op.n = ops + 1 /\ op.p \in Posts /\ op.like \in BOOLEAN /\ cell'[op.s][op.c].p = op.p
             /\ docs' = docs /\ gets'[d] = gets[d] /\ mainq'[d] = mainq[d]
             /\ \/ queue'[d] = queue[d]
                \/ queue'[d] = (queue[d] \o <<Count(op)>>) \o <<First(op)>>
  <1>1. PICK m : m = cell[s][c]
    OBVIOUS
  <1>2. PICK op : op = [s |-> s, c |-> c, p |-> m.p, likes |-> m.likes, like |-> ~m.didLike, n |-> ops + 1]
    OBVIOUS
  <1>3. PICK ws : ws = IF m.didLike THEN unlikePost(op) ELSE likePost(op)
    OBVIOUS
  <1>4. m.shown /\ TogglesHeart(s, c) /\ Issue(d, ws, <<>>)
    BY <1>1, <1>2, <1>3 DEF didTapLike, TogglesHeart
  <1>5. cell'[s][c].p = m.p /\ m.didLike \in BOOLEAN /\ m.likes \in Counts
    BY <1>1, <1>4, CellHeart DEF LikesInv
  <1>6. s \in ScreensOf(d)
    BY ScreenFacts
  <1>7. m.p \in Posts
    BY <1>1, <1>4 DEF LikesInv, ScreensOK
  <1>8. /\ op.s = s /\ op.c = c /\ op.p = m.p /\ op.likes = m.likes /\ op.like = ~m.didLike /\ op.like \in BOOLEAN
        /\ op.n = ops + 1
    BY <1>2, <1>5
  <1>9. op \in Taps(d)
    <2>1. m.likes \in Nat
      BY <1>5, CountType, OpsNat DEF Counts
    <2>2. ops + 1 \in Nat
      BY OpsNat
    <2> QED BY <1>2, <1>5, <1>6, <1>7, <2>1, <2>2 DEF Taps
  <1>10. ws = <<>> \/ ws = <<Count(op), First(op)>>
    BY <1>3, <1>5, <1>8 DEF likePost, unlikePost, Count, First
  <1>11. docs' = docs /\ mainq' = mainq /\ queue'[d] = queue[d] \o ws /\ gets'[d] = gets[d] \o <<>>
    BY <1>4 DEF Issue, LikesInv, QueuesOK
  <1>12. queue[d] \in Seq(WritesOf(d)) /\ gets[d] \in Seq(ReadsOf(d))
    BY DEF LikesInv, QueuesOK
  <1>13. gets'[d] = gets[d]
    BY <1>11, <1>12
  <1>14. queue'[d] = queue[d] \/ queue'[d] = (queue[d] \o <<Count(op)>>) \o <<First(op)>>
    <2>1. CASE ws = <<>>
      BY <1>11, <1>12, <2>1
    <2>2. CASE ws = <<Count(op), First(op)>>
      <3>1. PICK a, b : a = Count(op) /\ b = First(op)
        OBVIOUS
      <3>2. queue[d] \o <<a, b>> = (queue[d] \o <<a>>) \o <<b>>
        BY <1>12, ConcatPair
      <3> QED BY <1>11, <2>2, <3>1, <3>2
    <2> QED BY <1>10, <2>1, <2>2
  <1> QED BY <1>5, <1>7, <1>8, <1>9, <1>11, <1>13, <1>14

\* The writes of a tap: the device sees its mark at once, and the tap is the youngest.
LEMMA TapQueue ==
    ASSUME LikesInv, NEW d \in Devices, Accounted(d), NEW op \in Taps(d), op.n = ops + 1,
           docs' = docs, mainq'[d] = mainq[d], LikesInv',
           queue'[d] = (queue[d] \o <<Count(op)>>) \o <<First(op)>>
    PROVE  /\ Queueing(d)' /\ NoOvertaking(d)' /\ OwnWrites(d)'
           /\ \A a \in Taps(d) : InFlight(d, a) => a.n < op.n
           /\ \A a \in Taps(d) : InFlight(d, a)' <=> a = op \/ InFlight(d, a)
           /\ \A y \in OwnMarks(d) : y # PostLike(op.p, UidOf[d]) => View(d, y)' = View(d, y)
           /\ View(d, PostLike(op.p, UidOf[d]))' # NoDoc <=> op.like
  <1>1. PICK a, b : a = Count(op) /\ b = First(op)
    OBVIOUS
  <1>2. PICK x : x = PostLike(op.p, UidOf[d])
    OBVIOUS
  <1>3. /\ a.paths = {PostDoc(op.p)} /\ a.then = NoThen /\ op.p \in Posts
        /\ b.paths = {x} /\ b.then = MarkDone("firstMarkDone", op) /\ (b.data # NoDoc <=> op.like)
    BY <1>1, <1>2, TapWrites DEF MarkDone, FirstMarkDone
  <1>4. PICK q : q = queue[d] \o <<a>>
    OBVIOUS
  <1>5. queue[d] \in Seq(WritesOf(d)) /\ queue'[d] = q \o <<b>>
    BY <1>1, <1>4 DEF LikesInv, QueuesOK
  <1>6. PICK Q : Q = WritesOf(d) \cup {a}
    OBVIOUS
  <1>7. q \in Seq(Q)
    <2>1. PICK r : r = queue[d]
      OBVIOUS
    <2>2. r \in Seq(Q) /\ a \in Q
      BY <1>5, <1>6, <2>1
    <2> QED BY <1>4, <2>1, <2>2
  <1>8. \A e \in Taps(d) : InFlight(d, e) => e.n < op.n
    <2> TAKE e \in Taps(d)
    <2> HAVE InFlight(d, e)
    <2>1. e.n \in 1..ops /\ ops \in Nat
      BY FlightTyped, OpsNat
    <2> QED BY <2>1
  <1>9. Joins(queue[d], queue'[d], "firstMarkDone", op, Taps(d))
    <2>1. NoMark(a.then, Taps(d))
      BY <1>3, NoThenNoMark
    <2>2. Alike(queue[d], q, Taps(d))
      BY <1>4, <1>5, <2>1, AlikeAppend
    <2>3. "firstMarkDone" \in MarkKinds
      BY DEF MarkKinds
    <2>4. Joins(q, queue'[d], "firstMarkDone", op, Taps(d))
      BY <1>3, <1>5, <1>7, <2>3, TailJoins
    <2> QED BY <2>2, <2>3, <2>4 DEF Joins, Alike
  <1>10. /\ Queueing(d)' /\ NoOvertaking(d)'
         /\ \A e \in Taps(d) : InFlight(d, e)' <=> e = op \/ InFlight(d, e)
    BY <1>8, <1>9, StageTapped DEF Accounted
  <1>11. Range(queue'[d]) = Range(queue[d]) \cup {a, b}
    <2>1. Range(queue'[d]) = Range(q) \cup {b}
      BY <1>5, <1>7, RangeGrows
    <2>2. Range(q) = Range(queue[d]) \cup {a}
      BY <1>4, <1>5, RangeGrows
    <2> QED BY <2>1, <2>2
  <1>12. OwnWrites(d)'
    <2>1. a.paths \subseteq OwnPaths(d) /\ b.paths \subseteq OwnPaths(d)
      BY <1>2, <1>3, MarkPaths, OwnMarksType DEF OwnPaths
    <2> QED BY <1>3, <1>11, <2>1, OwnMarksType DEF Accounted, OwnWrites
  <1>13. \A y \in OwnMarks(d) : View(d, y)' = IF y = x THEN b.data ELSE View(d, y)
    <2> TAKE y \in OwnMarks(d)
    <2>1. View(d, y)' = LastAt(q \o <<b>>, docs[y], y) /\ View(d, y) = LastAt(queue[d], docs[y], y)
      BY <1>5, OwnMarksType, ViewLast DEF LikesInv
    <2>2. y \notin a.paths
      BY <1>3, MarkPaths, OwnMarksType DEF Marks
    <2>3. LastAt(q, docs[y], y) = LastAt(queue[d], docs[y], y)
      BY <1>4, <1>5, <2>2, LastConcat
    <2>4. LastAt(q \o <<b>>, docs[y], y) = IF y \in b.paths THEN b.data ELSE LastAt(q, docs[y], y)
      BY <1>7, LastConcat
    <2> QED BY <1>3, <2>1, <2>3, <2>4
  <1>14. x \in OwnMarks(d) /\ PostLike(op.p, UidOf[d])' = x
    BY <1>2, <1>3, OwnMarksType DEF PostLike
  <1>15. View(d, PostLike(op.p, UidOf[d]))' # NoDoc <=> op.like
    BY <1>3, <1>13, <1>14
  <1> QED BY <1>2, <1>8, <1>10, <1>12, <1>13, <1>15

LEMMA TapAccounted ==
    ASSUME LikesInv, LikesInv', NEW d \in Devices, Accounted(d), CapturedNotRebound, crashes' = crashes,
           NEW s \in Screens, NEW c \in Cells, d = DeviceOf(s), didTapLike(s, c)
    PROVE  Accounted(d)'
  <1>1. PICK op \in Taps(d) :
             /\ op.n = ops + 1 /\ op.p \in Posts /\ op.like \in BOOLEAN /\ cell'[op.s][op.c].p = op.p
             /\ docs' = docs /\ gets'[d] = gets[d] /\ mainq'[d] = mainq[d]
             /\ \/ queue'[d] = queue[d]
                \/ queue'[d] = (queue[d] \o <<Count(op)>>) \o <<First(op)>>
    BY TapIssues
  <1>2. CASE queue'[d] = queue[d]
    BY <1>1, <1>2, ElsewhereAccounted
  <1>3. CASE queue'[d] = (queue[d] \o <<Count(op)>>) \o <<First(op)>>
    <2>1. /\ Queueing(d)' /\ NoOvertaking(d)' /\ OwnWrites(d)'
          /\ \A a \in Taps(d) : InFlight(d, a) => a.n < op.n
          /\ \A a \in Taps(d) : InFlight(d, a)' <=> a = op \/ InFlight(d, a)
          /\ \A y \in OwnMarks(d) : y # PostLike(op.p, UidOf[d]) => View(d, y)' = View(d, y)
          /\ View(d, PostLike(op.p, UidOf[d]))' # NoDoc <=> op.like
      BY <1>1, <1>3, TapQueue
    <2>2. Kept(d)'
      <3>1. \A a \in Taps(d) : InFlight(d, a) => cell'[a.s][a.c].p = a.p
        BY KeptCells DEF Accounted
      <3> QED BY <1>1, <2>1, <3>1, OwnMarksType DEF Kept
    <2>3. OwnFinds(d)'
      BY <1>1 DEF Accounted, OwnFinds, IsFind
    <2>4. \A y : (Sought(d, y)' <=> Sought(d, y)) /\ (Found(d, y)' <=> Found(d, y))
      BY <1>1 DEF Sought, Found, IsFind
    <2>5. Wants(d, op.p)' <=> op.like
      BY <2>1 DEF Wants
    <2>6. ASSUME NEW p \in Posts, p # op.p
          PROVE  /\ Wants(d, p)' <=> Wants(d, p)
                 /\ \A y \in LikeNotifications(UidOf[d], p) : View(d, y)' = View(d, y)
      <3>1. \A y \in LikeNotifications(UidOf[d], p) : y[1] = "user-notifications"
        BY DEF LikeNotifications, LikeNotification
      <3>2. PostLike(op.p, UidOf[d])[1] = "post-likes" /\ PostLike(p, UidOf[d]) # PostLike(op.p, UidOf[d])
        BY <2>6 DEF PostLike
      <3>3. PICK y \in OwnMarks(d) : y = PostLike(p, UidOf[d]) /\ PostLike(p, UidOf[d])' = y
        BY OwnMarksType DEF PostLike
      <3>4. View(d, y)' = View(d, y)
        BY <2>1, <3>2, <3>3
      <3> QED BY <2>1, <3>1, <3>2, <3>3, <3>4, OwnMarksType DEF Wants
    <2>7. ASSUME NEW p \in Posts PROVE Cancelled(d, p)'
      <3>1. CASE p = op.p
        BY <1>1, <2>1, <2>5, <3>1, OwnMarksType DEF Cancelled
      <3>2. CASE p # op.p
        <4>1. Cancelled(d, p)
          BY DEF Accounted
        <4> QED BY <2>1, <2>6, <3>2, <4>1, OwnMarksType DEF Cancelled
      <3> QED BY <3>1, <3>2
    <2>8. ASSUME NEW p \in Posts PROVE Explained(d, p)'
      <3>1. CASE p = op.p
        <4>1. ~op.like => Unliking(d, p)'
          BY <1>1, <2>1, <3>1, OwnMarksType DEF Unliking
        <4> QED BY <2>5, <3>1, <4>1, OwnMarksType DEF Explained
      <3>2. CASE p # op.p
        <4>1. Explained(d, p)
          BY DEF Accounted
        <4>2. Unliking(d, p) => Unliking(d, p)'
          BY <2>1, OwnMarksType DEF Unliking
        <4> QED BY <2>4, <2>6, <3>2, <4>1, <4>2, OwnMarksType DEF Explained
      <3> QED BY <3>1, <3>2
    <2> QED BY <2>1, <2>2, <2>3, <2>7, <2>8 DEF Accounted
  <1> QED BY <1>1, <1>2, <1>3

\* At most one read is issued, which is not a find.
LEMMA OneReadAccounted ==
    ASSUME LikesInv, LikesInv', NEW d \in Devices, Accounted(d), CapturedNotRebound, crashes' = crashes,
           NEW r, ~IsFind(r), NEW rs, rs = <<>> \/ rs = <<r>>,
           \/ Issue(d, <<>>, rs)
           \/ Take(d, <<>>, rs) /\ mainq[d] # <<>> /\ ~IsFind(Head(mainq[d])) /\ ~IsMark(Head(mainq[d]))
    PROVE  Accounted(d)'
  <1>1. rs \in Seq({r}) /\ \A x \in Range(rs) : ~IsFind(x)
    <2>1. CASE rs = <<>>
      BY <2>1, RangeOfEmpty
    <2>2. CASE rs = <<r>>
      BY <2>2, RangeOfOne
    <2> QED BY <2>1, <2>2
  <1>2. queue[d] \in Seq(WritesOf(d)) /\ DOMAIN queue = Devices /\ DOMAIN gets = Devices
    BY DEF LikesInv, QueuesOK
  <1>3. CASE Issue(d, <<>>, rs)
    <2>1. docs' = docs /\ mainq' = mainq /\ queue'[d] = queue[d] \o <<>> /\ gets'[d] = gets[d] \o rs
      BY <1>2, <1>3 DEF Issue
    <2>2. queue'[d] = queue[d]
      BY <1>2, <2>1
    <2> QED BY <1>1, <2>1, <2>2, ReadsAccounted
  <1>4. CASE Take(d, <<>>, rs) /\ mainq[d] # <<>> /\ ~IsFind(Head(mainq[d])) /\ ~IsMark(Head(mainq[d]))
    <2>1. docs' = docs /\ queue'[d] = queue[d] \o <<>> /\ gets'[d] = gets[d] \o rs /\ mainq'[d] = Tail(mainq[d])
      BY <1>4, TakeAt DEF LikesInv
    <2>2. queue'[d] = queue[d]
      BY <1>2, <2>1
    <2> QED BY <1>1, <1>4, <2>1, <2>2, ReadsAccounted
  <1> QED BY <1>3, <1>4

\* The likes are checked by reads of their own.
LEMMA ChecksOnce ==
    ASSUME NEW s, NEW X
    PROVE  \E r : ~IsFind(r) /\ (checkIfUserLikedPosts(s, X) = <<>> \/ checkIfUserLikedPosts(s, X) = <<r>>)
  <1>1. PICK ps : ps = {UserLike(UidAt(s), p) : p \in X}
    OBVIOUS
  <1>2. PICK r : r = Read(ps, TRUE, CheckedLike(s))
    BY DEF Read
  <1>3. ~IsFind(r)
    BY <1>2 DEF Read, CheckedLike, IsFind
  <1>4. checkIfUserLikedPosts(s, X) = IF ps = {} THEN <<>> ELSE <<r>>
    BY <1>1, <1>2 DEF checkIfUserLikedPosts, getEach
  <1> QED BY <1>3, <1>4

LEMMA LoadAccounted ==
    ASSUME LikesInv, LikesInv', NEW d \in Devices, Accounted(d), CapturedNotRebound, crashes' = crashes,
           fetchedPosts(d) \/ fetchedPost(d) \/ checkedLike(d)
    PROVE  Accounted(d)'
  <1>1. mainq[d] # <<>> /\ Head(mainq[d]).then.kind \in {"fetchedPosts", "fetchedPost", "checkedLike"}
    BY MainDue DEF Due
  <1>2. ~IsFind(Head(mainq[d])) /\ ~IsMark(Head(mainq[d]))
    BY <1>1 DEF IsFind, IsMark
  <1>3. PICK s : s = Block(d).s
    OBVIOUS
  <1>4. \/ Take(d, <<>>, <<>>)
        \/ \E X : Take(d, <<>>, checkIfUserLikedPosts(s, X))
    <2>1. CASE fetchedPosts(d)
      <3>1. PICK X : X = {p \in Posts : Result(d)[PostDoc(p)] # NoDoc}
        OBVIOUS
      <3>2. Take(d, <<>>, checkIfUserLikedPosts(s, X))
        BY <1>3, <2>1, <3>1 DEF fetchedPosts
      <3> QED BY <3>2
    <2>2. CASE fetchedPost(d)
      <3>1. PICK X : X = {s[2]}
        OBVIOUS
      <3>2. Take(d, <<>>, <<>>) \/ Take(d, <<>>, checkIfUserLikedPosts(s, X))
        BY <1>3, <2>2, <3>1 DEF fetchedPost
      <3> QED BY <3>2
    <2>3. CASE checkedLike(d)
      BY <2>3 DEF checkedLike
    <2> QED BY <2>1, <2>2, <2>3
  <1>5. CASE Take(d, <<>>, <<>>)
    <2>1. \E r : ~IsFind(r)
      <3>1. checkIfUserLikedPosts(s, {}) = checkIfUserLikedPosts(s, {})
        OBVIOUS
      <3> QED BY ChecksOnce
    <2> QED BY <1>1, <1>2, <1>5, <2>1, OneReadAccounted
  <1>6. ASSUME NEW X, Take(d, <<>>, checkIfUserLikedPosts(s, X)) PROVE Accounted(d)'
    <2>1. PICK r : ~IsFind(r) /\ (checkIfUserLikedPosts(s, X) = <<>> \/ checkIfUserLikedPosts(s, X) = <<r>>)
      BY ChecksOnce
    <2>2. PICK rs : rs = checkIfUserLikedPosts(s, X)
      OBVIOUS
    <2> QED BY <1>1, <1>2, <1>6, <2>1, <2>2, OneReadAccounted
  <1> QED BY <1>4, <1>5, <1>6

LEMMA TouchAccounted ==
    ASSUME LikesInv, LikesInv', NEW d \in Devices, Accounted(d), CapturedNotRebound,
           NEW s \in Screens, d = DeviceOf(s), Touch(s)
    PROVE  Accounted(d)'
  <1>1. crashes' = crashes
    BY DEF Touch, handleRefresh, wantsToViewPost, didTapLike, cellForItemAt
  <1>2. CASE handleRefresh(s)
    <2>1. PICK r : r = fetchPosts(s)
      OBVIOUS
    <2>2. ~IsFind(r)
      BY <2>1 DEF fetchPosts, getDocuments, Read, FetchedPosts, IsFind
    <2>3. Issue(d, <<>>, <<r>>)
      BY <1>2, <2>1 DEF handleRefresh
    <2> QED BY <1>1, <2>2, <2>3, OneReadAccounted
  <1>3. CASE wantsToViewPost(s)
    <2>1. PICK r : r = getDocument(PostDoc(s[2]), FetchedPost(s))
      OBVIOUS
    <2>2. ~IsFind(r)
      BY <2>1 DEF getDocument, Read, FetchedPost, IsFind
    <2>3. Issue(d, <<>>, <<r>>)
      BY <1>3, <2>1 DEF wantsToViewPost
    <2> QED BY <1>1, <2>2, <2>3, OneReadAccounted
  <1>4. ASSUME NEW c \in Cells, didTapLike(s, c) PROVE Accounted(d)'
    BY <1>1, <1>4, TapAccounted
  <1>5. ASSUME NEW c \in Cells, NEW p, cellForItemAt(s, c, p) PROVE Accounted(d)'
    <2>1. docs' = docs /\ queue' = queue /\ gets' = gets /\ mainq' = mainq
      BY <1>5 DEF cellForItemAt
    <2> QED BY <1>1, <2>1, ElsewhereAccounted
  <1> QED BY <1>2, <1>3, <1>4, <1>5 DEF Touch

LEMMA MainAccounted ==
    ASSUME LikesInv, LikesInv', NEW d \in Devices, Accounted(d), CapturedNotRebound, crashes' = crashes,
           MainQueue(d)
    PROVE  Accounted(d)'
  <1>1. secondMarkDone(d) => Accounted(d)'
    BY SecondLiked, SecondUnliked
  <1> QED BY <1>1, LoadAccounted, FirstAccounted, FoundAccounted DEF MainQueue

LEMMA DeliverAccounted ==
    ASSUME ~Failures, LikesInv, LikesInv', NEW d \in Devices, Accounted(d), CapturedNotRebound, crashes' = crashes,
           Deliver(d)
    PROVE  Accounted(d)'
  <1>1. Answer(d, TRUE) \/ \E i \in DOMAIN gets[d] : Resolve(d, i)
    BY DEF Deliver, Network, Serve, Fail, Refuse, Lose, Commit
  <1> QED BY <1>1, AnswerAccounted, ResolveAccounted

-----------------------------------------------------------------------------
(* What the other devices do.                                              *)
StepOf(e) == Deliver(e) \/ MainQueue(e) \/ \E s \in Screens : DeviceOf(s) = e /\ Touch(s)

\* What says whom the account u likes and whom u notified.
MarksOf(u) == {PostLike(p, u) : p \in Posts} \cup NotesOf(u)

\* The server changes by an answer to a write of e, or not at all.
Written(e) ==
    queue[e] # <<>> /\ \E path \in Head(queue[e]).paths : \E v : docs' = [docs EXCEPT ![path] = v]

QueuesFrame(e) ==
    \A d \in Devices \ {e} : queue'[d] = queue[d] /\ gets'[d] = gets[d] /\ mainq'[d] = mainq[d]

LEMMA BlockFrame ==
    ASSUME LikesInv, NEW e \in Devices, MainQueue(e)
    PROVE  docs' = docs /\ QueuesFrame(e)
  <1>1. \E ws, rs : Take(e, ws, rs)
    <2>1. fetchedPosts(e) => \E ws, rs : Take(e, ws, rs)
      BY DEF fetchedPosts
    <2>2. fetchedPost(e) => \E ws, rs : Take(e, ws, rs)
      BY DEF fetchedPost
    <2>3. checkedLike(e) => \E ws, rs : Take(e, ws, rs)
      BY DEF checkedLike
    <2>4. firstMarkDone(e) => \E ws, rs : Take(e, ws, rs)
      BY DEF firstMarkDone
    <2>5. secondMarkDone(e) => \E ws, rs : Take(e, ws, rs)
      BY DEF secondMarkDone
    <2>6. foundNotifications(e) => \E ws, rs : Take(e, ws, rs)
      BY DEF foundNotifications
    <2> QED BY <2>1, <2>2, <2>3, <2>4, <2>5, <2>6 DEF MainQueue
  <1>2. PICK ws, rs : Take(e, ws, rs)
    BY <1>1
  <1> QED BY <1>2 DEF Take, QueuesFrame, LikesInv, QueuesOK

LEMMA TouchFrame ==
    ASSUME LikesInv, NEW s \in Screens, NEW e \in Devices, DeviceOf(s) = e, Touch(s)
    PROVE  docs' = docs /\ QueuesFrame(e)
  <1>1. \/ \E ws, rs : Issue(e, ws, rs)
        \/ docs' = docs /\ queue' = queue /\ gets' = gets /\ mainq' = mainq
    <2>1. handleRefresh(s) => \E ws, rs : Issue(e, ws, rs)
      BY DEF handleRefresh
    <2>2. wantsToViewPost(s) => \E ws, rs : Issue(e, ws, rs)
      BY DEF wantsToViewPost
    <2>3. \A c : didTapLike(s, c) => \E ws, rs : Issue(e, ws, rs)
      BY DEF didTapLike
    <2>4. \A c, p : cellForItemAt(s, c, p) => docs' = docs /\ queue' = queue /\ gets' = gets /\ mainq' = mainq
      BY DEF cellForItemAt
    <2> QED BY <2>1, <2>2, <2>3, <2>4 DEF Touch
  <1>2. CASE docs' = docs /\ queue' = queue /\ gets' = gets /\ mainq' = mainq
    BY <1>2 DEF QueuesFrame
  <1>3. ASSUME NEW ws, NEW rs, Issue(e, ws, rs) PROVE docs' = docs /\ QueuesFrame(e)
    BY <1>3 DEF Issue, QueuesFrame, LikesInv, QueuesOK
  <1> QED BY <1>1, <1>2, <1>3

LEMMA DeliverFrame ==
    ASSUME ~Failures, LikesInv, NEW e \in Devices, Deliver(e)
    PROVE  (docs' = docs \/ Written(e)) /\ QueuesFrame(e)
  <1>1. Answer(e, TRUE) \/ \E i \in DOMAIN gets[e] : Resolve(e, i)
    BY DEF Deliver, Network, Serve, Fail, Refuse, Lose, Commit
  <1>2. DOMAIN queue = Devices /\ DOMAIN gets = Devices /\ DOMAIN mainq = Devices
    BY DEF LikesInv, QueuesOK
  <1>3. CASE Answer(e, TRUE)
    <2>1. PICK w : w = Head(queue[e])
      OBVIOUS
    <2>2. PICK path \in w.paths :
           /\ docs' = IF TRUE /\ Accepts(w, path) THEN [docs EXCEPT ![path] = w.data] ELSE docs
           /\ queue' = [queue EXCEPT ![e] =
                 IF w.paths = {path} THEN Tail(@)
                 ELSE <<[w EXCEPT !.paths = @ \ {path}]>> \o Tail(@)]
           /\ mainq' = IF w.then = NoThen THEN mainq
                        ELSE [mainq EXCEPT ![e] = Append(@, [then |-> w.then, res |-> TRUE /\ Accepts(w, path)])]
      BY <1>3, <2>1 DEF Answer
    <2>3. queue[e] # <<>> /\ gets' = gets
      BY <1>3 DEF Answer
    <2>4. \E x : queue' = [queue EXCEPT ![e] = x]
      BY <2>2
    <2>5. mainq' = mainq \/ \E x : mainq' = [mainq EXCEPT ![e] = x]
      BY <2>2
    <2>6. docs' = docs \/ Written(e)
      BY <2>1, <2>2, <2>3 DEF Written
    <2>7. QueuesFrame(e)
      BY <1>2, <2>3, <2>4, <2>5 DEF QueuesFrame
    <2> QED BY <2>6, <2>7
  <1>4. ASSUME NEW i \in DOMAIN gets[e], Resolve(e, i) PROVE docs' = docs /\ QueuesFrame(e)
    <2>1. docs' = docs /\ queue' = queue
      BY <1>4 DEF Resolve
    <2>2. \E x : mainq' = [mainq EXCEPT ![e] = x]
      BY <1>4 DEF Resolve
    <2>3. \E ps : gets' = Rest(e, i, ps)
      BY <1>4 DEF Resolve
    <2>4. \A d \in Devices \ {e} : gets'[d] = gets[d]
      BY <1>2, <2>3 DEF Rest
    <2> QED BY <1>2, <2>1, <2>2, <2>4 DEF QueuesFrame
  <1> QED BY <1>1, <1>3, <1>4

LEMMA StepFrame ==
    ASSUME ~Failures, LikesInv, NEW e \in Devices, StepOf(e)
    PROVE  (docs' = docs \/ Written(e)) /\ QueuesFrame(e)
  BY BlockFrame, TouchFrame, DeliverFrame DEF StepOf

\* A device leaves the marks and the notifications of other accounts alone.
LEMMA OthersMarks ==
    ASSUME ~Failures, LikesInv, NEW e \in Devices, OwnWrites(e), StepOf(e), NEW u \in Users, u # UidOf[e]
    PROVE  \A x \in MarksOf(u) : docs'[x] = docs[x]
  <1>1. UidOf[e] \in Users
    BY LikesAssumption
  <1>2. ASSUME NEW x \in MarksOf(u) PROVE x \notin OwnPaths(e)
    <2>1. /\ \A v \in Users : \A y \in NotesOf(v) : y[1] = "user-notifications" /\ y[3] = v
          /\ \A v \in Users, p \in Posts : PostLike(p, v)[1] = "post-likes" /\ PostLike(p, v)[3] = v
      BY DEF NotesOf, LikeNotifications, LikeNotification, PostLike
    <2>2. /\ \A y \in PostDocs : y[1] = "posts"
          /\ \A y \in UserLikes : y[1] = "user-likes"
      BY DEF PostDocs, PostDoc, UserLikes, UserLike
    <2>3. x[1] \in {"user-notifications", "post-likes"} /\ x[3] = u
      BY <2>1 DEF MarksOf
    <2>4. x \notin OwnMarks(e)
      BY <1>1, <2>1, <2>3 DEF OwnMarks
    <2> QED BY <2>2, <2>3, <2>4 DEF OwnPaths
  <1>3. docs' = docs \/ Written(e)
    BY StepFrame
  <1>4. CASE Written(e)
    <2>1. PICK path \in Head(queue[e]).paths : \E v : docs' = [docs EXCEPT ![path] = v]
      BY <1>4 DEF Written
    <2>2. PICK v : docs' = [docs EXCEPT ![path] = v]
      BY <2>1
    <2>3. path \in OwnPaths(e)
      <3>1. Head(queue[e]) \in Range(queue[e])
        <4>1. queue[e] \in Seq(WritesOf(e)) /\ queue[e] # <<>>
          BY <1>4 DEF Written, LikesInv, QueuesOK
        <4> QED BY <4>1, RangeOfTail
      <3> QED BY <2>1, <3>1 DEF OwnWrites
    <2>4. MarksOf(u) \subseteq DOMAIN docs
      <3>1. NotesOf(u) \subseteq Marks
        BY MarkPaths DEF NotesOf
      <3> QED BY <3>1, MarkPaths DEF MarksOf, Marks, LikesInv, ServerOK
    <2> QED BY <1>2, <2>2, <2>3, <2>4
  <1> QED BY <1>3, <1>4

-----------------------------------------------------------------------------
\* The accounts that are signed in nowhere.
Absent ==
    \A p \in Posts, u \in Users \ {UidOf[d] : d \in Devices} :
        \A x \in LikeNotifications(u, p) : docs[x] # NoDoc => Liked(p, u)

PhantomInv == crashes = 0 => (\A d \in Devices : Accounted(d)) /\ Absent

OneAccountEach == \A d, e \in Devices : UidOf[d] = UidOf[e] => d = e

LEMMA EmptyView ==
    ASSUME NEW d, queue[d] = <<>>, NEW x
    PROVE  View(d, x) = docs[x]
  <1>1. {i \in DOMAIN queue[d] : x \in queue[d][i].paths} = {}
    OBVIOUS
  <1> QED BY <1>1 DEF View

LEMMA PhantomInit == Init => PhantomInv
  <1> SUFFICES ASSUME Init PROVE (\A d \in Devices : Accounted(d)) /\ Absent
    BY DEF PhantomInv
  <1>1. PICK liked \in InitialLikes :
         docs = [x \in Documents |->
            CASE x[1] = "posts"      -> Cardinality({u \in Users : <<x[2], u>> \in liked})
              [] x[1] = "post-likes" -> IF <<x[2], x[3]>> \in liked THEN Marked ELSE NoDoc
              [] x[1] = "user-likes" -> IF <<x[3], x[2]>> \in liked THEN Marked ELSE NoDoc
              [] x[1] = "user-notifications" ->
                   IF <<x[4], x[3]>> \in liked /\ x[2] # x[3] /\ x[5] = 0 THEN Marked ELSE NoDoc]
    BY DEF Init
  <1>2. ASSUME NEW p \in Posts, NEW u \in Users, NEW x \in LikeNotifications(u, p), docs[x] # NoDoc
        PROVE  Liked(p, u)
    <2>1. x \in Documents /\ x[1] = "user-notifications" /\ x[3] = u /\ x[4] = p
      <3>1. x \in Marks
        BY MarkPaths
      <3> QED BY <3>1 DEF Marks, LikeNotifications, LikeNotification
    <2>2. docs[x] = IF <<x[4], x[3]>> \in liked /\ x[2] # x[3] /\ x[5] = 0 THEN Marked ELSE NoDoc
      BY <1>1, <2>1
    <2>3. <<p, u>> \in liked
      BY <1>2, <2>1, <2>2
    <2>4. PostLike(p, u) \in Documents /\ PostLike(p, u)[1] = "post-likes" /\ PostLike(p, u)[2] = p /\ PostLike(p, u)[3] = u
      BY PathsApart DEF PostLike
    <2>5. docs[PostLike(p, u)] = IF <<p, u>> \in liked THEN Marked ELSE NoDoc
      BY <1>1, <2>4
    <2> QED BY <2>3, <2>5, LikesAssumption DEF Liked
  <1>3. ASSUME NEW d \in Devices PROVE Accounted(d)
    <2>1. queue[d] = <<>> /\ mainq[d] = <<>> /\ gets[d] = <<fetchPosts(<<d, Home>>)>> /\ UidOf[d] \in Users
      BY LikesAssumption DEF Init
    <2>2. Range(queue[d]) = {} /\ Range(mainq[d]) = {} /\ \A r \in Range(gets[d]) : ~IsFind(r)
      <3>1. PICK r : r = fetchPosts(<<d, Home>>)
        OBVIOUS
      <3>2. ~IsFind(r)
        BY <3>1 DEF fetchPosts, getDocuments, Read, FetchedPosts, IsFind
      <3> QED BY <2>1, <3>1, <3>2, RangeOfEmpty, RangeOfOne
    <2>3. \A op : ~FirstSent(d, op) /\ ~FirstTold(d, op) /\ ~SecondSent(d, op) /\ ~SecondTold(d, op)
      BY <2>2 DEF FirstSent, FirstTold, SecondSent, SecondTold, Has
    <2>4. OwnWrites(d) /\ OwnFinds(d) /\ NoOvertaking(d) /\ Kept(d) /\ \A p : Cancelled(d, p)
      BY <2>2, <2>3 DEF OwnWrites, OwnFinds, NoOvertaking, Kept, Cancelled, InFlight
    <2>5. Queueing(d)
      BY <2>1 DEF Queueing, Sorted
    <2>6. \A p \in Posts : Explained(d, p)
      <3>1. \A x : View(d, x) = docs[x]
        BY <2>1, EmptyView
      <3> QED BY <1>2, <2>1, <3>1 DEF Explained, Wants, Liked
    <2> QED BY <2>4, <2>5, <2>6 DEF Accounted
  <1> QED BY <1>2, <1>3 DEF Absent

LEMMA PhantomStep ==
    ASSUME ~Failures, OneAccountEach, LikesInv, LikesInv', CapturedNotRebound, crashes' = crashes,
           \A d \in Devices : Accounted(d), Absent, NEW e \in Devices, StepOf(e)
    PROVE  (\A d \in Devices : Accounted(d)') /\ Absent'
  <1>1. ASSUME NEW u \in Users, u # UidOf[e] PROVE \A x \in MarksOf(u) : docs'[x] = docs[x]
    BY <1>1, OthersMarks DEF Accounted
  <1>2. QueuesFrame(e)
    BY StepFrame
  <1>3. ASSUME NEW d \in Devices PROVE Accounted(d)'
    <2>1. CASE d = e
      <3>1. Accounted(d)
        OBVIOUS
      <3> QED BY <2>1, <3>1, TouchAccounted, MainAccounted, DeliverAccounted DEF StepOf
    <2>2. CASE d # e
      <3>1. UidOf[d] # UidOf[e] /\ UidOf[d] \in Users
        BY <2>2, LikesAssumption DEF OneAccountEach
      <3>2. \A x \in OwnMarks(d) : docs'[x] = docs[x]
        BY <1>1, <3>1 DEF OwnMarks, MarksOf
      <3> QED BY <1>2, <2>2, <3>2, ElsewhereAccounted DEF QueuesFrame
    <2> QED BY <2>1, <2>2
  <1>4. Absent'
    <2> SUFFICES ASSUME NEW p \in Posts, NEW u \in Users \ {UidOf[d] : d \in Devices},
                        NEW x \in LikeNotifications(u, p), docs'[x] # NoDoc
                 PROVE  docs'[PostLike(p, u)] # NoDoc
      BY DEF Absent, Liked, LikeNotifications, LikeNotification, PostLike
    <2>1. x \in MarksOf(u) /\ PostLike(p, u) \in MarksOf(u)
      BY DEF MarksOf, NotesOf
    <2>2. docs'[x] = docs[x] /\ docs'[PostLike(p, u)] = docs[PostLike(p, u)]
      BY <1>1, <2>1
    <2> QED BY <2>2 DEF Absent, Liked
  <1> QED BY <1>3, <1>4

LEMMA PhantomNext ==
    ASSUME ~Failures, OneAccountEach, LikesInv, LikesInv', PhantomInv, [Next]_vars, [CapturedNotRebound]_vars
    PROVE  PhantomInv'
  <1> SUFFICES ASSUME crashes' = 0 PROVE (\A d \in Devices : Accounted(d)') /\ Absent'
    BY DEF PhantomInv
  <1>1. CASE UNCHANGED vars
    <2>1. /\ docs' = docs /\ queue' = queue /\ gets' = gets /\ mainq' = mainq
          /\ cell' = cell /\ crashes' = crashes
      BY <1>1 DEF vars
    <2>2. CapturedNotRebound
      BY <2>1 DEF CapturedNotRebound
    <2>3. (\A d \in Devices : Accounted(d)) /\ Absent
      BY <2>1 DEF PhantomInv
    <2>4. \A d \in Devices : Accounted(d)'
      BY <2>1, <2>2, <2>3, ElsewhereAccounted
    <2>5. Absent'
      BY <2>1, <2>3 DEF Absent, Liked
    <2> QED BY <2>4, <2>5
  <1>2. ASSUME NEW e \in Devices, StepOf(e), ~(UNCHANGED vars) PROVE (\A d \in Devices : Accounted(d)') /\ Absent'
    <2>1. crashes' = crashes
      <3>1. Deliver(e) => crashes' = crashes
        BY DEF Deliver
      <3>2. \A s : Touch(s) => crashes' = crashes
        BY DEF Touch, handleRefresh, wantsToViewPost, didTapLike, cellForItemAt
      <3>3. /\ fetchedPosts(e) => crashes' = crashes
            /\ fetchedPost(e) => crashes' = crashes
            /\ checkedLike(e) => crashes' = crashes
        BY DEF fetchedPosts, fetchedPost, checkedLike
      <3>4. /\ firstMarkDone(e) => crashes' = crashes
            /\ secondMarkDone(e) => crashes' = crashes
            /\ foundNotifications(e) => crashes' = crashes
        BY DEF firstMarkDone, secondMarkDone, foundNotifications
      <3> QED BY <1>2, <3>1, <3>2, <3>3, <3>4 DEF StepOf, MainQueue
    <2>2. (\A d \in Devices : Accounted(d)) /\ Absent
      BY <2>1 DEF PhantomInv
    <2>3. CapturedNotRebound
      BY <1>2
    <2> QED BY <1>2, <2>1, <2>2, <2>3, PhantomStep
  <1>3. ASSUME NEW e \in Devices, Crash(e) PROVE FALSE
    <2>1. crashes' = crashes + 1
      BY <1>3 DEF Crash
    <2> QED BY <2>1 DEF LikesInv
  <1>4. Next => UNCHANGED vars \/ \E e \in Devices : StepOf(e) \/ Crash(e)
    <2>1. \A s \in Screens : Touch(s) => DeviceOf(s) \in Devices /\ StepOf(DeviceOf(s))
      BY ScreenFacts DEF StepOf
    <2> QED BY <2>1 DEF Next, StepOf
  <1> QED BY <1>1, <1>2, <1>3, <1>4

\* Once nothing is in flight, the owner of a post is told of existing likes only:
\* what uploadNotification wrote, deleteNotification found, whatever the order of
\* the answers, the taps that overlap and the other devices.  No cell is bound to
\* another post while a tap that captured it is in flight, the server refuses
\* nothing, and an account is signed in on one device.
THEOREM NoPhantoms ==
    ASSUME ~Failures, OneAccountEach
    PROVE  Spec /\ [][CapturedNotRebound]_vars => []NoPhantomNotification
  <1>1. Init => LikesInv /\ PhantomInv
    BY InitOK, PhantomInit
  <1>2. LikesInv /\ PhantomInv /\ [Next]_vars /\ [CapturedNotRebound]_vars => (LikesInv /\ PhantomInv)'
    BY NextOK, PhantomNext
  <1>3. LikesInv /\ PhantomInv => NoPhantomNotification
    <2> SUFFICES ASSUME LikesInv, PhantomInv, Quiescent, crashes = 0, NEW p \in Posts, NEW u \in Users,
                        NEW x \in LikeNotifications(u, p), docs[x] # NoDoc
                 PROVE  Liked(p, u)
      BY DEF NoPhantomNotification
    <2>1. CASE u \notin {UidOf[d] : d \in Devices}
      BY <2>1 DEF PhantomInv, Absent
    <2>2. ASSUME NEW d \in Devices, u = UidOf[d] PROVE Liked(p, u)
      <3>1. queue[d] = <<>> /\ gets[d] = <<>> /\ mainq[d] = <<>> /\ Explained(d, p)
        BY DEF Quiescent, Quiet, PhantomInv, Accounted
      <3>2. Range(queue[d]) = {} /\ Range(gets[d]) = {} /\ Range(mainq[d]) = {}
        BY <3>1, RangeOfEmpty
      <3>3. ~Unliking(d, p) /\ ~Sought(d, x) /\ ~Found(d, x)
        BY <3>2 DEF Unliking, Sought, Found, InFlight, FirstSent, FirstTold, SecondSent, SecondTold, Has
      <3>4. \A y : View(d, y) = docs[y]
        BY <3>1, EmptyView
      <3>5. Wants(d, p)
        BY <2>2, <3>1, <3>3, <3>4 DEF Explained
      <3> QED BY <2>2, <3>4, <3>5 DEF Wants, Liked
    <2> QED BY <2>1, <2>2
  <1> QED BY <1>1, <1>2, <1>3, PTL DEF Spec
=============================================================================
