------------------------- MODULE WritePipelineProofs -------------------------
(***************************************************************************)
(* Proofs about WritePipeline, for every set of accounts, every limit of   *)
(* the pipeline, every set of refused writes and every bound: the three    *)
(* invariants of the run write_pipeline, and that the steps of the SDK are *)
(* steps of WriteQueue.                                                    *)
(*                                                                         *)
(* The functions of RemoteStore and Stream are proved first, each from one *)
(* well-formed RemoteStore to the next; then the actions; then the         *)
(* theorems.                                                               *)
(***************************************************************************)
EXTENDS WritePipeline, TLAPS, SequenceTheorems, FiniteSetTheorems, WellFoundedInduction

-----------------------------------------------------------------------------
(* The inductive invariant.                                                *)
States  == {"Initial", "Starting", "Open", "Healthy", "Backoff", "Error"}
Timers  == {"idle", "backoff", "health"}
Batches == [id : Nat, w : Nat]

Calls == [buffer : Seq(Nat), active : BOOLEAN, finished : BOOLEAN,
          wire : Seq(Nat), resp : Seq(Nat),
          status : {"none", "running", "unavailable", "aborted", "denied"}]

Remotes == [network : BOOLEAN, pipeline : Seq(Batches), state : States,
            handshake : BOOLEAN, timers : SUBSET Timers, closeCount : Nat,
            creds : SUBSET Nat, call : Calls]

\* s is the beginning of t.
Begins(s, t) == Len(s) <= Len(t) /\ \A i \in 1..Len(s) : s[i] = t[i]

\* May writes be sent on the call?
Sending(r) == IsOpen(r) /\ r.handshake

\* What the call of r was asked and has not answered, oldest first.
Asked(r) == IF r.handshake THEN Ops(r.pipeline) ELSE <<Handshake>>

\* The responses are in the order of the requests; a call that was denied was
\* denied the request after them, and it was one the server refuses.
CallOK(r) ==
    /\ Begins(r.call.resp, Asked(r))
    /\ r.call.status = "running" => r.call.resp \o r.call.wire \o r.call.buffer = Asked(r)
    /\ r.call.status = "denied" =>
         IF r.handshake
         THEN /\ Len(r.call.resp) < Len(r.pipeline)
              /\ r.pipeline[Len(r.call.resp) + 1].w \in Bad
         ELSE r.call.resp = <<>>

\* The write stream.  It is only started with the network on, and with a write
\* to send; credentials asked for before a close are never taken for the
\* ones of the stream being started.
StreamOK(r) ==
    /\ r \in Remotes
    /\ IsStarted(r) => r.network
    /\ "backoff" \in r.timers <=> r.state = "Backoff"
    /\ r.creds \subseteq 0..r.closeCount
    /\ r.closeCount \in r.creds => r.state = "Starting"
    /\ IsOpen(r) => r.call.status # "none" /\ CallOK(r)
    /\ ~IsOpen(r) => r.call = NoCall
    /\ IsStarted(r) /\ ~Sending(r) => r.pipeline # <<>>
    /\ "idle" \in r.timers => r.pipeline = <<>> /\ Sending(r)

\* The pipeline is the beginning of the queue q, as long as it may be.
Filled(r, q) ==
    /\ Begins(r.pipeline, q)
    /\ Len(r.pipeline) = IF r.network THEN Min({kMaxPendingWrites, Len(q)}) ELSE 0

RemoteOK(r, q) == StreamOK(r) /\ Filled(r, q) /\ (r.handshake => IsOpen(r))

\* A queue on disk: batch ids and writes grow along it.
QueueOK(q) ==
    /\ q \in Seq(Batches)
    /\ \A i \in DOMAIN q : 0 < q[i].id /\ 0 < q[i].w
    /\ \A i, j \in DOMAIN q : i < j => q[i].id < q[j].id /\ q[i].w < q[j].w

\* No two accounts share a batch id or a write, and the next ones are new.
QueuesOK(queues, id, w) ==
    /\ queues \in [Users -> Seq(Batches)] /\ id \in Nat \ {0} /\ w \in Nat
    /\ \A u \in Users :
         /\ QueueOK(queues[u])
         /\ \A i \in DOMAIN queues[u] : queues[u][i].id < id /\ queues[u][i].w <= w
         /\ \A v \in Users \ {u} : \A i \in DOMAIN queues[u], j \in DOMAIN queues[v] :
               queues[u][i].id # queues[v][j].id /\ queues[u][i].w # queues[v][j].w

DiskOK ==
    /\ QueuesOK(mq, nextId, issued)
    /\ callbacks \in [Users -> SUBSET Nat]
    /\ \A u \in Users : callbacks[u] \subseteq Ids(mq[u])

\* The responses are about writes the server applied.
Known(resp, applied) ==
    \A i \in 1..Len(resp) : resp[i] = Handshake \/ resp[i] \in ToSet(applied)

\* A write with a completion block has not been answered; an unread response
\* is about a write the server applied.
AnswersOK ==
    /\ log \in Seq(Nat) /\ told \in Seq([w : Nat, ok : BOOLEAN])
    /\ \A j \in DOMAIN told : told[j].w <= issued
    /\ \A u \in Users : \A i \in DOMAIN mq[u] : mq[u][i].id \in callbacks[u] =>
          \A j \in DOMAIN told : told[j].w # mq[u][i].w
    /\ Known(remote.call.resp, log)

\* A call of waitForPendingWrites waits for a batch of the queue, and of the
\* writes in the queue for those up to that batch.
WaitersOK ==
    \A x \in waiters :
        /\ x.pending \subseteq 1..issued
        /\ \E i \in DOMAIN mq[user] :
              /\ mq[user][i].id = x.id
              /\ \A j \in DOMAIN mq[user] : mq[user][j].w \in x.pending <=> j <= i

WritesInv ==
    /\ user \in Users
    /\ DiskOK
    /\ AnswersOK
    /\ WaitersOK
    /\ RemoteOK(remote, mq[user])

-----------------------------------------------------------------------------
(* Facts about numbers and sequences.                                      *)
LEMMA MinPair ==
    ASSUME NEW a \in Int, NEW b \in Int
    PROVE  Min({a, b}) = IF a <= b THEN a ELSE b
  BY DEF Min

LEMMA HeadThenTail ==
    ASSUME NEW G, NEW s \in Seq(G), s # <<>>
    PROVE  <<Head(s)>> \o Tail(s) = s
  <1>1. /\ Head(s) \in G /\ Tail(s) \in Seq(G) /\ Len(Tail(s)) = Len(s) - 1
        /\ \A i \in 1..Len(Tail(s)) : Tail(s)[i] = s[i + 1]
    BY HeadTailProperties
  <1>2. <<Head(s)>> \in Seq(G) /\ Len(<<Head(s)>>) = 1 /\ <<Head(s)>>[1] = s[1]
    BY <1>1
  <1> DEFINE t == <<Head(s)>> \o Tail(s)
  <1>3. /\ t \in Seq(G) /\ Len(t) = Len(s)
        /\ \A i \in 1..Len(s) : t[i] = IF i <= 1 THEN <<Head(s)>>[i] ELSE Tail(s)[i - 1]
    BY <1>1, <1>2, ConcatProperties
  <1>4. \A i \in 1..Len(s) : t[i] = s[i]
    BY <1>1, <1>2, <1>3
  <1> QED BY <1>3, <1>4, SeqEqual

LEMMA NatConcatAssoc == \A s, t, v \in Seq(Nat) : (s \o t) \o v = s \o (t \o v)
  <1> TAKE s, t, v \in Seq(Nat)
  <1> DEFINE st == s \o t
             tv == t \o v
             a == st \o v
             b == s \o tv
  <1>1. st \in Seq(Nat) /\ tv \in Seq(Nat)
    BY ConcatProperties
  <1>2. /\ Len(st) = Len(s) + Len(t)
        /\ \A i \in 1..(Len(s) + Len(t)) : st[i] = IF i <= Len(s) THEN s[i] ELSE t[i - Len(s)]
    BY ConcatProperties
  <1>3. /\ Len(tv) = Len(t) + Len(v)
        /\ \A i \in 1..(Len(t) + Len(v)) : tv[i] = IF i <= Len(t) THEN t[i] ELSE v[i - Len(t)]
    BY ConcatProperties
  <1> HIDE DEF st, tv
  <1>4. /\ a \in Seq(Nat) /\ Len(a) = Len(st) + Len(v)
        /\ \A i \in 1..(Len(st) + Len(v)) : a[i] = IF i <= Len(st) THEN st[i] ELSE v[i - Len(st)]
    BY <1>1, ConcatProperties
  <1>5. /\ b \in Seq(Nat) /\ Len(b) = Len(s) + Len(tv)
        /\ \A i \in 1..(Len(s) + Len(tv)) : b[i] = IF i <= Len(s) THEN s[i] ELSE tv[i - Len(s)]
    BY <1>1, ConcatProperties
  <1> HIDE DEF a, b
  <1> DEFINE k == Len(s)
             m == Len(t)
             n == Len(v)
  <1>6. k \in Nat /\ m \in Nat /\ n \in Nat
    OBVIOUS
  <1>7. Len(a) = k + m + n /\ Len(b) = k + m + n
    BY <1>2, <1>3, <1>4, <1>5, <1>6
  <1>8. ASSUME NEW i \in 1..(k + m + n)
        PROVE  a[i] = b[i]
    <2>1. CASE i <= k
      <3>1. i \in 1..(Len(st) + n) /\ i <= Len(st) /\ i \in 1..(k + m) /\ i \in 1..(k + Len(tv))
        BY <1>2, <1>3, <1>6, <2>1
      <3>2. a[i] = st[i]
        BY <1>4, <3>1
      <3>3. st[i] = s[i]
        BY <1>2, <2>1, <3>1
      <3>4. b[i] = s[i]
        BY <1>5, <2>1, <3>1
      <3> QED BY <3>2, <3>3, <3>4
    <2>2. CASE k < i /\ i <= k + m
      <3>1. /\ i \in 1..(Len(st) + n) /\ i <= Len(st) /\ i \in 1..(k + m) /\ ~(i <= k)
            /\ i \in 1..(k + Len(tv)) /\ i - k \in 1..(m + n) /\ i - k <= m
        BY <1>2, <1>3, <1>6, <2>2
      <3>2. a[i] = st[i]
        BY <1>4, <3>1
      <3>3. st[i] = t[i - k]
        BY <1>2, <3>1
      <3>4. b[i] = tv[i - k]
        BY <1>5, <3>1
      <3>5. tv[i - k] = t[i - k]
        BY <1>3, <3>1
      <3> QED BY <3>2, <3>3, <3>4, <3>5
    <2>3. CASE k + m < i
      <3>1. /\ i \in 1..(Len(st) + n) /\ ~(i <= Len(st)) /\ ~(i <= k)
            /\ i \in 1..(k + Len(tv)) /\ i - k \in 1..(m + n) /\ ~(i - k <= m)
            /\ (i - k) - m = i - Len(st)
        BY <1>2, <1>3, <1>6, <2>3
      <3>2. a[i] = v[i - Len(st)]
        BY <1>4, <3>1
      <3>3. b[i] = tv[i - k]
        BY <1>5, <3>1
      <3>4. tv[i - k] = v[(i - k) - m]
        BY <1>3, <3>1
      <3> QED BY <3>1, <3>2, <3>3, <3>4
    <2> QED BY <1>6, <2>1, <2>2, <2>3
  <1>9. a = b
    BY <1>4, <1>5, <1>7, <1>8, SeqEqual
  <1> QED BY <1>9 DEF a, b, st, tv

LEMMA SubSeqFacts ==
    ASSUME NEW G, NEW s \in Seq(G), NEW k \in 0..Len(s), NEW m \in k..Len(s)
    PROVE  /\ SubSeq(s, k + 1, m) \in Seq(G)
           /\ Len(SubSeq(s, k + 1, m)) = m - k
           /\ \A i \in 1..(m - k) : SubSeq(s, k + 1, m)[i] = s[k + i]
  <1>1. k \in Nat /\ m \in Nat /\ Len(s) \in Nat /\ k <= m /\ m <= Len(s)
    OBVIOUS
  <1>2. SubSeq(s, k + 1, m) = [i \in 1..(m - k) |-> s[i + k]]
    BY <1>1
  <1>3. \A i \in 1..(m - k) : s[i + k] \in G
    BY <1>1
  <1>4. m - k \in Nat
    BY <1>1
  <1>5. [i \in 1..(m - k) |-> s[i + k]] \in Seq(G)
    BY <1>3, <1>4, IsASeq
  <1> QED BY <1>1, <1>2, <1>4, <1>5

\* Taking the first request of t, between s and v.
LEMMA FirstRequest ==
    ASSUME NEW s \in Seq(Nat), NEW t \in Seq(Nat), NEW v \in Seq(Nat), t # <<>>
    PROVE  LET a == s \o t \o v
           IN /\ a \in Seq(Nat) /\ Len(s) < Len(a) /\ a[Len(s) + 1] = Head(t)
              /\ Append(s, Head(t)) \o Tail(t) \o v = a
              /\ \A i \in 1..Len(s) : a[i] = s[i]
  <1> DEFINE a == s \o t \o v
             st == s \o t
  <1>1. /\ Len(s) \in Nat /\ Len(v) \in Nat /\ Len(t) \in Nat \ {0} /\ Head(t) = t[1]
        /\ Head(t) \in Nat /\ Tail(t) \in Seq(Nat)
    OBVIOUS
  <1>2. /\ st \in Seq(Nat) /\ Len(st) = Len(s) + Len(t)
        /\ \A i \in 1..(Len(s) + Len(t)) : st[i] = IF i <= Len(s) THEN s[i] ELSE t[i - Len(s)]
    BY ConcatProperties
  <1>3. a = st \o v
    OBVIOUS
  <1> HIDE DEF st, a
  <1>4. st \in Seq(Nat)
    BY <1>2
  <1>5. /\ a \in Seq(Nat) /\ Len(a) = Len(st) + Len(v)
        /\ \A i \in 1..(Len(st) + Len(v)) : a[i] = IF i <= Len(st) THEN st[i] ELSE v[i - Len(st)]
    BY <1>3, <1>4, ConcatProperties
  <1>6. Len(s) < Len(a)
    BY <1>1, <1>2, <1>5
  <1>7. a[Len(s) + 1] = Head(t)
    <2>1. /\ Len(s) + 1 \in 1..(Len(st) + Len(v)) /\ Len(s) + 1 <= Len(st)
          /\ Len(s) + 1 \in 1..(Len(s) + Len(t)) /\ ~(Len(s) + 1 <= Len(s))
          /\ (Len(s) + 1) - Len(s) = 1
      BY <1>1, <1>2
    <2>2. a[Len(s) + 1] = st[Len(s) + 1]
      BY <1>5, <2>1
    <2>3. st[Len(s) + 1] = t[(Len(s) + 1) - Len(s)]
      BY <1>2, <2>1
    <2> QED BY <1>1, <2>1, <2>2, <2>3
  <1>8. \A i \in 1..Len(s) : a[i] = s[i]
    <2> TAKE i \in 1..Len(s)
    <2> DEFINE k == Len(s)
               m == Len(t)
               n == Len(v)
    <2>a. k \in Nat /\ m \in Nat /\ n \in Nat /\ i \in 1..k /\ Len(st) = k + m
      BY <1>1, <1>2
    <2> HIDE DEF k, m, n
    <2>b. i \in 1..((k + m) + n) /\ i <= k + m /\ i \in 1..(k + m) /\ i <= k
      BY <2>a
    <2>1. i \in 1..(Len(st) + Len(v)) /\ i <= Len(st) /\ i \in 1..(Len(s) + Len(t)) /\ i <= Len(s)
      BY <2>a, <2>b DEF k, m, n
    <2>2. a[i] = st[i]
      BY <1>5, <2>1
    <2> QED BY <1>2, <2>1, <2>2
  <1>9. Append(s, Head(t)) \o Tail(t) \o v = a
    <2> DEFINE h == <<Head(t)>>
               l == Tail(t)
    <2>1. Append(s, Head(t)) = s \o h
      BY <1>1, AppendIsConcat
    <2>2. h \in Seq(Nat) /\ l \in Seq(Nat) /\ h \o l = t
      BY <1>1, HeadThenTail
    <2> HIDE DEF h, l
    <2>3. (s \o h) \o l = s \o (h \o l)
      BY <2>2, NatConcatAssoc, ZenonT(40)
    <2> QED BY <1>3, <2>1, <2>2, <2>3, Zenon DEF l, st
  <1> QED BY <1>5, <1>6, <1>7, <1>8, <1>9 DEF a

LEMMA TailConcat ==
    ASSUME NEW s \in Seq(Nat), NEW t \in Seq(Nat), s # <<>>
    PROVE  Tail(s \o t) = Tail(s) \o t
  <1> DEFINE a == s \o t
             l == Tail(s)
  <1>1. /\ a \in Seq(Nat) /\ Len(a) = Len(s) + Len(t)
        /\ \A i \in 1..(Len(s) + Len(t)) : a[i] = IF i <= Len(s) THEN s[i] ELSE t[i - Len(s)]
    BY ConcatProperties
  <1>2. /\ l \in Seq(Nat) /\ Len(l) = Len(s) - 1
        /\ \A i \in 1..(Len(s) - 1) : l[i] = s[i + 1]
    OBVIOUS
  <1>3. Len(s) \in Nat \ {0} /\ Len(t) \in Nat
    OBVIOUS
  <1> HIDE DEF a, l
  <1>4. l \in Seq(Nat) /\ t \in Seq(Nat)
    BY <1>2
  <1>5. /\ l \o t \in Seq(Nat) /\ Len(l \o t) = Len(l) + Len(t)
        /\ \A i \in 1..(Len(l) + Len(t)) : (l \o t)[i] = IF i <= Len(l) THEN l[i] ELSE t[i - Len(l)]
    BY <1>4, ConcatProperties
  <1>6. a # <<>>
    BY <1>1, <1>3
  <1>7. /\ Tail(a) \in Seq(Nat) /\ Len(Tail(a)) = Len(a) - 1
        /\ \A i \in 1..(Len(a) - 1) : Tail(a)[i] = a[i + 1]
    BY <1>1, <1>6
  <1>8. Len(Tail(a)) = Len(l \o t) /\ Len(l \o t) = Len(s) + Len(t) - 1
    BY <1>1, <1>2, <1>3, <1>5, <1>7
  <1>9. ASSUME NEW i \in 1..(Len(s) + Len(t) - 1)
        PROVE  Tail(a)[i] = (l \o t)[i]
    <2>1. /\ i + 1 \in 1..(Len(s) + Len(t)) /\ i \in 1..(Len(l) + Len(t)) /\ i \in 1..(Len(a) - 1)
          /\ i + 1 <= Len(s) <=> i <= Len(l)
          /\ (i + 1) - Len(s) = i - Len(l)
      BY <1>1, <1>2, <1>3
    <2>2. Tail(a)[i] = a[i + 1]
      BY <1>7, <2>1
    <2>3. CASE i <= Len(l)
      <3>1. i \in 1..(Len(s) - 1)
        BY <1>2, <1>3, <2>3
      <3> QED BY <1>1, <1>2, <1>5, <2>1, <2>2, <2>3, <3>1
    <2>4. CASE ~(i <= Len(l))
      BY <1>1, <1>5, <2>1, <2>2, <2>4
    <2> QED BY <2>3, <2>4
  <1>10. Tail(a) = l \o t
    BY <1>5, <1>7, <1>8, <1>9, SeqEqual
  <1> QED BY <1>10 DEF a, l

\* What is known of the writes of a sequence of batches.
LEMMA OpsFacts ==
    ASSUME NEW p \in Seq(Batches)
    PROVE  /\ Ops(p) \in Seq(Nat)
           /\ Len(Ops(p)) = Len(p)
           /\ \A i \in 1..Len(p) : Ops(p)[i] = p[i].w
           /\ Ops(p) = <<>> <=> p = <<>>
           /\ p # <<>> => Ops(Tail(p)) = Tail(Ops(p)) /\ Head(Ops(p)) = Head(p).w
  <1>1. DOMAIN p = 1..Len(p) /\ Len(p) \in Nat /\ \A i \in 1..Len(p) : p[i] \in Batches
    OBVIOUS
  <1>2. Ops(p) = [i \in 1..Len(p) |-> p[i].w]
    BY <1>1 DEF Ops
  <1>3. Ops(p) \in Seq(Nat) /\ Len(Ops(p)) = Len(p) /\ DOMAIN Ops(p) = 1..Len(p)
    <2>1. \A i \in 1..Len(p) : p[i].w \in Nat
      BY <1>1 DEF Batches
    <2> QED BY <1>1, <1>2, <2>1, IsASeq
  <1>4. Ops(p) = <<>> <=> p = <<>>
    BY <1>3
  <1>5. ASSUME p # <<>>
        PROVE  Ops(Tail(p)) = Tail(Ops(p)) /\ Head(Ops(p)) = Head(p).w
    <2>1. Tail(p) \in Seq(Batches) /\ Len(Tail(p)) = Len(p) - 1
      BY <1>5
    <2>2. \A i \in 1..(Len(p) - 1) : Tail(p)[i] = p[i + 1] /\ Tail(Ops(p))[i] = Ops(p)[i + 1]
      BY <1>3, <1>4, <1>5
    <2>3. Ops(Tail(p)) = [i \in 1..(Len(p) - 1) |-> Tail(p)[i].w]
      BY <2>1 DEF Ops
    <2>4. Tail(Ops(p)) \in Seq(Nat) /\ Len(Tail(Ops(p))) = Len(p) - 1
      BY <1>3, <1>4, <1>5
    <2>5. Tail(Ops(p)) = [i \in 1..(Len(p) - 1) |-> p[i + 1].w]
      BY <1>2, <2>2, <2>4
    <2>6. Ops(Tail(p)) = Tail(Ops(p))
      BY <2>2, <2>3, <2>5
    <2>7. Head(Ops(p)) = Ops(p)[1] /\ Head(p) = p[1] /\ 1 \in 1..Len(p)
      BY <1>1, <1>3, <1>4, <1>5
    <2> QED BY <1>2, <2>6, <2>7
  <1> QED BY <1>2, <1>3, <1>4, <1>5

LEMMA OpsConcat ==
    ASSUME NEW p \in Seq(Batches), NEW b \in Seq(Batches)
    PROVE  Ops(p \o b) = Ops(p) \o Ops(b)
  <1> DEFINE x == Ops(p)
             y == Ops(b)
             z == p \o b
  <1>1. x \in Seq(Nat) /\ Len(x) = Len(p) /\ \A i \in 1..Len(p) : x[i] = p[i].w
    BY OpsFacts
  <1>2. y \in Seq(Nat) /\ Len(y) = Len(b) /\ \A i \in 1..Len(b) : y[i] = b[i].w
    BY OpsFacts
  <1>3. /\ z \in Seq(Batches) /\ Len(z) = Len(p) + Len(b)
        /\ \A i \in 1..(Len(p) + Len(b)) : z[i] = IF i <= Len(p) THEN p[i] ELSE b[i - Len(p)]
    BY ConcatProperties
  <1> HIDE DEF x, y, z
  <1>4. Ops(z) \in Seq(Nat) /\ Len(Ops(z)) = Len(z) /\ \A i \in 1..Len(z) : Ops(z)[i] = z[i].w
    BY <1>3, OpsFacts
  <1>5. /\ x \o y \in Seq(Nat) /\ Len(x \o y) = Len(p) + Len(b)
        /\ \A i \in 1..(Len(p) + Len(b)) : (x \o y)[i] = IF i <= Len(p) THEN x[i] ELSE y[i - Len(p)]
    BY <1>1, <1>2, ConcatProperties
  <1>6. ASSUME NEW i \in 1..(Len(p) + Len(b))
        PROVE  Ops(z)[i] = (x \o y)[i]
    <2>1. CASE i <= Len(p)
      <3>1. i \in 1..Len(p)
        BY <2>1
      <3> QED BY <1>1, <1>3, <1>4, <1>5, <2>1, <3>1
    <2>2. CASE ~(i <= Len(p))
      <3>1. i - Len(p) \in 1..Len(b)
        BY <2>2
      <3> QED BY <1>2, <1>3, <1>4, <1>5, <2>2, <3>1
    <2> QED BY <2>1, <2>2
  <1>7. Ops(z) = x \o y
    BY <1>3, <1>4, <1>5, <1>6, SeqEqual
  <1> QED BY <1>7 DEF x, y, z

-----------------------------------------------------------------------------
(* Stream and BufferedWriter.                                              *)

\* Requests wait in order, on the wire or in the buffer.
LEMMA EnqueueWritesFacts ==
    ASSUME NEW c \in Calls, NEW ms \in Seq(Nat)
    PROVE  LET e == EnqueueWrites(c, ms)
           IN /\ e \in Calls
              /\ e.resp = c.resp /\ e.status = c.status /\ e.finished = c.finished
              /\ e.wire \o e.buffer = c.wire \o c.buffer \o ms
  <1> DEFINE b == c.buffer \o ms
             e == EnqueueWrites(c, ms)
  <1>1. b \in Seq(Nat) /\ c.wire \in Seq(Nat) /\ c.buffer \in Seq(Nat)
    BY DEF Calls
  <1>2. c.wire \o c.buffer \o ms = c.wire \o b
    BY <1>1, NatConcatAssoc, ZenonT(40)
  <1> HIDE DEF b
  <1>3. CASE c.active \/ b = <<>>
    <2>1. e = [c EXCEPT !.buffer = b]
      BY <1>3 DEF EnqueueWrites, b
    <2> QED BY <1>1, <1>2, <2>1 DEF Calls
  <1>4. CASE ~(c.active \/ b = <<>>)
    <2>1. e = [c EXCEPT !.active = TRUE, !.wire = Append(@, Head(b)), !.buffer = Tail(b)]
      BY <1>4 DEF EnqueueWrites, b
    <2>2. Head(b) \in Nat /\ Tail(b) \in Seq(Nat)
      BY <1>1, <1>4
    <2>3. Append(c.wire, Head(b)) \in Seq(Nat)
      BY <1>1, <2>2
    <2>4. Append(c.wire, Head(b)) \o Tail(b) = c.wire \o b
      <3>1. Append(c.wire, Head(b)) = c.wire \o <<Head(b)>> /\ <<Head(b)>> \in Seq(Nat)
        BY <1>1, <2>2, AppendIsConcat
      <3>2. <<Head(b)>> \o Tail(b) = b
        BY <1>1, <1>4, HeadThenTail
      <3>3. (c.wire \o <<Head(b)>>) \o Tail(b) = c.wire \o (<<Head(b)>> \o Tail(b))
        BY <1>1, <2>2, <3>1, NatConcatAssoc, ZenonT(40)
      <3> QED BY <3>1, <3>2, <3>3, Zenon
    <2> QED BY <1>2, <2>1, <2>2, <2>3, <2>4 DEF Calls
  <1> QED BY <1>3, <1>4

\* Sending leaves everything of the store alone but the requests and the idle timer.
LEMMA SendAllFacts ==
    ASSUME NEW r \in Remotes, NEW ms \in Seq(Nat)
    PROVE  LET s == SendAll(r, ms)
           IN /\ s \in Remotes
              /\ s.network = r.network /\ s.pipeline = r.pipeline /\ s.state = r.state
              /\ s.handshake = r.handshake /\ s.closeCount = r.closeCount /\ s.creds = r.creds
              /\ s.timers \subseteq r.timers /\ r.timers \subseteq s.timers \cup {"idle"}
              /\ ms # <<>> => "idle" \notin s.timers
              /\ ms = <<>> => s = r
              /\ s.call.resp = r.call.resp /\ s.call.status = r.call.status
              /\ s.call.finished = r.call.finished
              /\ s.call.wire \o s.call.buffer = r.call.wire \o r.call.buffer \o ms
  <1>1. r.call \in Calls
    BY DEF Remotes
  <1>2. CASE ms = <<>>
    <2>1. SendAll(r, ms) = r
      BY <1>2 DEF SendAll
    <2>2. r.call.wire \o r.call.buffer \in Seq(Nat)
      BY <1>1 DEF Calls
    <2>3. r.call.wire \o r.call.buffer = r.call.wire \o r.call.buffer \o ms
      BY <1>2, <2>2
    <2> QED BY <1>2, <2>1, <2>3
  <1>3. CASE ms # <<>>
    <2> DEFINE e == EnqueueWrites(r.call, ms)
               s == SendAll(r, ms)
    <2>1. s = [r EXCEPT !.timers = @ \ {"idle"}, !.call = e]
      BY <1>3 DEF SendAll
    <2>2. /\ e \in Calls
          /\ e.resp = r.call.resp /\ e.status = r.call.status /\ e.finished = r.call.finished
          /\ e.wire \o e.buffer = r.call.wire \o r.call.buffer \o ms
      BY <1>1, EnqueueWritesFacts
    <2> HIDE DEF e, s
    <2>3. s \in Remotes
      BY <2>1, <2>2 DEF Remotes
    <2>4. /\ s.network = r.network /\ s.pipeline = r.pipeline /\ s.state = r.state
          /\ s.handshake = r.handshake /\ s.closeCount = r.closeCount /\ s.creds = r.creds
          /\ s.timers = r.timers \ {"idle"} /\ s.call = e
      BY <2>1 DEF Remotes
    <2> QED BY <1>3, <2>2, <2>3, <2>4 DEF s
  <1> QED BY <1>2, <1>3

\* The stream is started only when there is something to send.
LEMMA RestartedOK ==
    ASSUME NEW r, StreamOK(r)
    PROVE  LET s == Restarted(r)
           IN /\ StreamOK(s)
              /\ s.network = r.network /\ s.pipeline = r.pipeline /\ s.handshake = r.handshake
              /\ IsOpen(s) <=> IsOpen(r)
              /\ s.call = r.call
  <1> DEFINE s == Restarted(r)
  <1>1. CASE ~ShouldStartWriteStream(r)
    BY <1>1 DEF Restarted
  <1>2. CASE ShouldStartWriteStream(r) /\ r.state = "Error"
    <2>1. s = [r EXCEPT !.state = "Backoff", !.timers = @ \cup {"backoff"}]
      BY <1>2 DEF Restarted, Start, BackoffAndTryRestarting
    <2>2. r \in Remotes
      BY DEF StreamOK
    <2> HIDE DEF s
    <2>3. s \in Remotes
      BY <2>1, <2>2 DEF Remotes, States, Timers
    <2>4. /\ s.network = r.network /\ s.pipeline = r.pipeline /\ s.state = "Backoff"
          /\ s.handshake = r.handshake /\ s.closeCount = r.closeCount /\ s.creds = r.creds
          /\ s.timers = r.timers \cup {"backoff"} /\ s.call = r.call
      BY <2>1, <2>2 DEF Remotes
    <2>5. StreamOK(s)
      BY <1>2, <2>3, <2>4 DEF StreamOK, IsStarted, IsOpen, Sending, ShouldStartWriteStream
    <2> QED BY <1>2, <2>4, <2>5 DEF IsOpen, s
  <1>3. CASE ShouldStartWriteStream(r) /\ r.state # "Error"
    <2>1. s = [r EXCEPT !.state = "Starting", !.creds = @ \cup {r.closeCount}]
      BY <1>3 DEF Restarted, Start, RequestCredentials, StreamOK, Remotes
    <2>2. r \in Remotes
      BY DEF StreamOK
    <2> HIDE DEF s
    <2>3. s \in Remotes
      BY <2>1, <2>2 DEF Remotes, States
    <2>4. /\ s.network = r.network /\ s.pipeline = r.pipeline /\ s.state = "Starting"
          /\ s.handshake = r.handshake /\ s.closeCount = r.closeCount
          /\ s.creds = r.creds \cup {r.closeCount}
          /\ s.timers = r.timers /\ s.call = r.call
      BY <2>1, <2>2 DEF Remotes
    <2>5. r.closeCount \in 0..r.closeCount
      BY <2>2 DEF Remotes
    <2>6. StreamOK(s)
      BY <1>3, <2>3, <2>4, <2>5 DEF StreamOK, IsStarted, IsOpen, Sending, ShouldStartWriteStream
    <2> QED BY <1>3, <2>4, <2>6 DEF IsOpen, ShouldStartWriteStream, IsStarted, s
  <1> QED BY <1>1, <1>2, <1>3

-----------------------------------------------------------------------------
(* FillWritePipeline.                                                      *)

LEMMA QueueFacts ==
    ASSUME NEW q, QueueOK(q)
    PROVE  /\ q \in Seq(Batches) /\ Len(q) \in Nat /\ DOMAIN q = 1..Len(q)
           /\ \A i \in 1..Len(q) : /\ q[i] \in Batches /\ q[i].id \in Nat /\ q[i].w \in Nat
                                   /\ 0 < q[i].id /\ 0 < q[i].w
           /\ \A i, j \in 1..Len(q) : i < j => q[i].id < q[j].id /\ q[i].w < q[j].w
  <1>1. q \in Seq(Batches)
    BY DEF QueueOK
  <1>2. Len(q) \in Nat /\ DOMAIN q = 1..Len(q) /\ \A i \in 1..Len(q) : q[i] \in Batches
    BY <1>1
  <1>3. \A i \in 1..Len(q) : q[i].id \in Nat /\ q[i].w \in Nat
    BY <1>2 DEF Batches
  <1> QED BY <1>1, <1>2, <1>3 DEF QueueOK

\* Batch ids grow along a queue, so those up to the k-th one are k.
LEMMA BatchesUpTo ==
    ASSUME NEW q, QueueOK(q), NEW k \in 1..Len(q)
    PROVE  Cardinality({i \in DOMAIN q : q[i].id <= q[k].id}) = k
  <1>1. /\ DOMAIN q = 1..Len(q) /\ Len(q) \in Nat /\ \A i \in 1..Len(q) : q[i].id \in Nat
        /\ \A i, j \in 1..Len(q) : i < j => q[i].id < q[j].id
    BY QueueFacts
  <1>2. \A i \in 1..Len(q) : q[i].id <= q[k].id <=> i <= k
    BY <1>1
  <1>3. {i \in DOMAIN q : q[i].id <= q[k].id} = 1..k
    BY <1>1, <1>2
  <1>4. k \in Int /\ 1 \in Int /\ k - 1 + 1 = k /\ 1 <= k
    BY <1>1
  <1>5. Cardinality(1..k) = IF 1 > k THEN 0 ELSE k - 1 + 1
    BY <1>4, FS_Interval
  <1>6. Cardinality(1..k) = k
    BY <1>4, <1>5
  <1> QED BY <1>3, <1>6, Zenon

LEMMA NextBatchesFacts ==
    ASSUME NEW r \in Remotes, NEW q, QueueOK(q), Begins(r.pipeline, q),
           Len(r.pipeline) <= kMaxPendingWrites, ~r.network => r.pipeline = <<>>
    PROVE  /\ NextBatches(r, q) \in Seq(Batches)
           /\ r.pipeline \o NextBatches(r, q) \in Seq(Batches)
           /\ Begins(r.pipeline \o NextBatches(r, q), q)
           /\ Len(r.pipeline \o NextBatches(r, q)) =
                IF r.network THEN Min({kMaxPendingWrites, Len(q)}) ELSE 0
  <1> DEFINE p   == r.pipeline
             k   == Len(p)
             new == NextBatches(r, q)
             last == IF p = <<>> THEN -1 ELSE Last(p).id
             done == Cardinality({i \in DOMAIN q : q[i].id <= last})
             room == kMaxPendingWrites - k
  <1>1. p \in Seq(Batches) /\ k \in Nat /\ q \in Seq(Batches) /\ Len(q) \in Nat /\ k <= Len(q)
    BY DEF Remotes, QueueOK, Begins
  <1>2. kMaxPendingWrites \in Nat \ {0}
    BY PipelineAssumption
  <1>3. done = k
    <2>1. CASE p = <<>>
      <3>1. \A i \in DOMAIN q : ~(q[i].id <= -1)
        BY QueueFacts
      <3>2. {i \in DOMAIN q : q[i].id <= last} = {}
        BY <2>1, <3>1
      <3> QED BY <2>1, <3>2, FS_EmptySet
    <2>2. CASE p # <<>>
      <3>1. k \in 1..Len(q) /\ p[k] = q[k]
        BY <1>1, <2>2 DEF Begins
      <3>2. last = q[k].id
        BY <2>2, <3>1 DEF Last
      <3> QED BY <3>1, <3>2, BatchesUpTo
    <2> QED BY <2>1, <2>2
  <1>4. new = IF ~r.network \/ room <= 0 THEN <<>>
              ELSE SubSeq(q, done + 1, Min({done + room, Len(q)}))
    BY DEF NextBatches
  <1>5. k + room = kMaxPendingWrites
    BY <1>1, <1>2
  <1>6. r.network \in BOOLEAN
    BY DEF Remotes
  <1> HIDE DEF done, room, last, new
  <1>7. CASE ~r.network
    <2>1. p = <<>> /\ new = <<>> /\ p \o new = <<>>
      BY <1>4, <1>7
    <2> QED BY <1>1, <1>7, <2>1 DEF Begins, new
  <1>8. CASE r.network /\ room <= 0
    <2>1. k = kMaxPendingWrites
      BY <1>1, <1>2, <1>8 DEF room
    <2>2. new = <<>> /\ p \o new = p
      BY <1>1, <1>4, <1>8
    <2>3. Min({kMaxPendingWrites, Len(q)}) = k
      BY <1>1, <1>2, <2>1, MinPair
    <2> QED BY <1>1, <1>8, <2>2, <2>3 DEF new
  <1>9. CASE r.network /\ ~(room <= 0)
    <2> DEFINE m == IF kMaxPendingWrites <= Len(q) THEN kMaxPendingWrites ELSE Len(q)
    <2>1. Min({kMaxPendingWrites, Len(q)}) = m /\ m \in Nat /\ k <= m /\ m <= Len(q)
      BY <1>1, <1>2, MinPair
    <2>2. new = SubSeq(q, k + 1, m)
      BY <1>3, <1>4, <1>5, <1>9, <2>1
    <2> HIDE DEF m
    <2>3. \A i \in (k + 1)..m : q[i] \in Batches
      BY <1>1, <2>1
    <2>4. k \in 0..Len(q) /\ m \in k..Len(q)
      BY <1>1, <2>1
    <2> HIDE DEF k
    <2>5. /\ new \in Seq(Batches) /\ Len(new) = m - k
          /\ \A i \in 1..(m - k) : new[i] = q[k + i]
      BY <1>1, <2>2, <2>4, SubSeqFacts, Zenon
    <2>a. p \in Seq(Batches) /\ new \in Seq(Batches)
      BY <1>1, <2>5
    <2>6. /\ p \o new \in Seq(Batches) /\ Len(p \o new) = Len(p) + Len(new)
          /\ \A i \in 1..(Len(p) + Len(new)) : (p \o new)[i] = IF i <= Len(p) THEN p[i] ELSE new[i - Len(p)]
      BY <2>a, ConcatProperties
    <2>b. k = Len(p)
      BY DEF k
    <2>7. Len(p \o new) = m
      BY <1>1, <2>1, <2>5, <2>6, <2>b
    <2>8. ASSUME NEW i \in 1..m PROVE (p \o new)[i] = q[i]
      <3>1. CASE i <= k
        <4>1. i \in 1..k /\ i \in 1..(Len(p) + Len(new))
          BY <1>1, <2>1, <2>5, <2>b, <3>1
        <4> QED BY <2>6, <2>b, <3>1, <4>1 DEF Begins
      <3>2. CASE ~(i <= k)
        <4>1. i - k \in 1..(m - k) /\ i \in 1..(Len(p) + Len(new)) /\ k + (i - k) = i
          BY <1>1, <2>1, <2>5, <2>b, <3>2
        <4>2. (p \o new)[i] = new[i - k]
          BY <2>6, <2>b, <3>2, <4>1
        <4> QED BY <2>5, <4>1, <4>2
      <3> QED BY <3>1, <3>2
    <2>9. Begins(p \o new, q)
      BY <2>1, <2>7, <2>8 DEF Begins
    <2> QED BY <1>9, <2>1, <2>5, <2>6, <2>7, <2>9 DEF new
  <1> QED BY <1>6, <1>7, <1>8, <1>9

\* MarkIdle sets the timer of a stream that has nothing to send.
LEMMA MarkIdleOK ==
    ASSUME NEW r, StreamOK(r), r.pipeline = <<>>
    PROVE  LET s == MarkIdle(r)
           IN /\ StreamOK(s)
              /\ s.network = r.network /\ s.pipeline = r.pipeline /\ s.handshake = r.handshake
              /\ IsOpen(s) <=> IsOpen(r)
              /\ s.call = r.call
  <1> DEFINE s == MarkIdle(r)
  <1>1. CASE ~IsOpen(r)
    BY <1>1 DEF MarkIdle
  <1>2. CASE IsOpen(r)
    <2>1. s = [r EXCEPT !.timers = @ \cup {"idle"}]
      BY <1>2 DEF MarkIdle
    <2>2. r \in Remotes
      BY DEF StreamOK
    <2> HIDE DEF s
    <2>3. s \in Remotes
      BY <2>1, <2>2 DEF Remotes, Timers
    <2>4. /\ s.network = r.network /\ s.pipeline = r.pipeline /\ s.state = r.state
          /\ s.handshake = r.handshake /\ s.closeCount = r.closeCount /\ s.creds = r.creds
          /\ s.timers = r.timers \cup {"idle"} /\ s.call = r.call
      BY <2>1, <2>2 DEF Remotes
    <2>5. StreamOK(s)
      BY <1>2, <2>3, <2>4 DEF StreamOK, IsStarted, IsOpen, Sending, CallOK, Asked
    <2> QED BY <1>2, <2>4, <2>5 DEF IsOpen, s
  <1> QED BY <1>1, <1>2

\* More writes after those of the pipeline: they follow the requests of the call.
LEMMA SendMore ==
    ASSUME NEW r, StreamOK(r), Sending(r), NEW new \in Seq(Batches)
    PROVE  LET s == SendAll([r EXCEPT !.pipeline = @ \o new], Ops(new))
           IN /\ StreamOK(s)
              /\ s.network = r.network /\ s.pipeline = r.pipeline \o new
              /\ s.handshake = r.handshake
              /\ IsOpen(s) <=> IsOpen(r)
              /\ s.call.resp = r.call.resp
  <1> DEFINE f == [r EXCEPT !.pipeline = @ \o new]
             s == SendAll(f, Ops(new))
             p == r.pipeline
  <1>1. /\ r \in Remotes /\ p \in Seq(Batches) /\ p \o new \in Seq(Batches)
        /\ r.call \in Calls
    BY DEF StreamOK, Remotes
  <1>2. f \in Remotes
    BY <1>1 DEF Remotes
  <1>3. /\ f.network = r.network /\ f.pipeline = p \o new /\ f.state = r.state
        /\ f.handshake = r.handshake /\ f.closeCount = r.closeCount /\ f.creds = r.creds
        /\ f.timers = r.timers /\ f.call = r.call
    BY <1>1 DEF Remotes
  <1> HIDE DEF f
  <1>4. Ops(new) \in Seq(Nat) /\ (Ops(new) = <<>> <=> new = <<>>)
    BY OpsFacts
  <1>a. Ops(new) \in Seq(Nat)
    BY <1>4
  <1>b. /\ s \in Remotes
        /\ s.network = f.network /\ s.pipeline = f.pipeline /\ s.state = f.state
        /\ s.handshake = f.handshake /\ s.closeCount = f.closeCount /\ s.creds = f.creds
        /\ s.timers \subseteq f.timers /\ f.timers \subseteq s.timers \cup {"idle"}
        /\ Ops(new) # <<>> => "idle" \notin s.timers
        /\ s.call.resp = f.call.resp /\ s.call.status = f.call.status
        /\ s.call.finished = f.call.finished
        /\ s.call.wire \o s.call.buffer = f.call.wire \o f.call.buffer \o Ops(new)
    BY <1>2, <1>a, SendAllFacts, Zenon
  <1> HIDE DEF s
  <1>5. /\ s \in Remotes
        /\ s.network = r.network /\ s.pipeline = p \o new /\ s.state = r.state
        /\ s.handshake = r.handshake /\ s.closeCount = r.closeCount /\ s.creds = r.creds
        /\ s.timers \subseteq r.timers /\ r.timers \subseteq s.timers \cup {"idle"}
        /\ Ops(new) # <<>> => "idle" \notin s.timers
        /\ s.call.resp = r.call.resp /\ s.call.status = r.call.status
        /\ s.call.finished = r.call.finished
        /\ s.call.wire \o s.call.buffer = r.call.wire \o r.call.buffer \o Ops(new)
    BY <1>3, <1>b
  <1>6. IsOpen(r) /\ r.handshake /\ CallOK(r) /\ r.call.status # "none" /\ r.network
    BY DEF Sending, StreamOK, IsStarted
  <1>7. Asked(r) = Ops(p) /\ Asked(s) = Ops(p \o new)
    BY <1>5, <1>6 DEF Asked
  <1>8. Ops(p \o new) = Ops(p) \o Ops(new)
    BY <1>1, OpsConcat
  <1> DEFINE c == r.call
             x == Ops(p)
             y == Ops(new)
  <1>9. x \in Seq(Nat) /\ Len(x) = Len(p)
    BY <1>1, OpsFacts
  <1>10. /\ c.resp \in Seq(Nat) /\ c.wire \in Seq(Nat) /\ c.buffer \in Seq(Nat)
         /\ s.call.wire \in Seq(Nat) /\ s.call.buffer \in Seq(Nat)
    BY <1>1, <1>5 DEF Calls, Remotes
  <1>11. Begins(s.call.resp, Asked(s))
    <2>1. Begins(c.resp, x)
      BY <1>6, <1>7 DEF CallOK
    <2>2. /\ Len(x \o y) = Len(x) + Len(y)
          /\ \A i \in 1..(Len(x) + Len(y)) : (x \o y)[i] = IF i <= Len(x) THEN x[i] ELSE y[i - Len(x)]
      <3>1. x \in Seq(Nat) /\ y \in Seq(Nat)
        BY <1>4, <1>9
      <3> HIDE DEF x, y
      <3> QED BY <3>1, ConcatProperties
    <2>3. Len(x) \in Nat /\ Len(y) \in Nat /\ Len(c.resp) \in Nat
      BY <1>4, <1>9, <1>10
    <2> HIDE DEF x, y, c
    <2>4. Begins(c.resp, x \o y)
      BY <2>1, <2>2, <2>3 DEF Begins
    <2> QED BY <1>5, <1>7, <1>8, <2>4, Zenon DEF x, y, c
  <1>12. ASSUME s.call.status = "running"
         PROVE  s.call.resp \o s.call.wire \o s.call.buffer = Asked(s)
    <2>1. c.resp \o c.wire \o c.buffer = x
      BY <1>5, <1>6, <1>7, <1>12 DEF CallOK
    <2>2. c.wire \o c.buffer \in Seq(Nat) /\ y \in Seq(Nat)
      BY <1>4, <1>10
    <2> HIDE DEF x, y, c
    <2>3. c.resp \o c.wire \o c.buffer = c.resp \o (c.wire \o c.buffer)
      BY <1>10, NatConcatAssoc, ZenonT(40)
    <2>4. s.call.resp \o s.call.wire \o s.call.buffer = c.resp \o (s.call.wire \o s.call.buffer)
      <3>1. s.call.resp = c.resp
        BY <1>5 DEF c
      <3>2. (c.resp \o s.call.wire) \o s.call.buffer = c.resp \o (s.call.wire \o s.call.buffer)
        BY <1>10, NatConcatAssoc, ZenonT(40)
      <3> QED BY <3>1, <3>2, Zenon
    <2> DEFINE wb == c.wire \o c.buffer
    <2> HIDE DEF wb
    <2>a. wb \in Seq(Nat) /\ wb = c.wire \o c.buffer
      BY <2>2 DEF wb
    <2>b. (c.resp \o wb) \o y = c.resp \o (wb \o y)
      <3>1. c.resp \in Seq(Nat) /\ wb \in Seq(Nat) /\ y \in Seq(Nat)
        BY <1>10, <2>2, <2>a
      <3> QED BY <3>1, NatConcatAssoc, Zenon
    <2>5. c.resp \o ((c.wire \o c.buffer) \o y) = (c.resp \o (c.wire \o c.buffer)) \o y
      BY <2>a, <2>b, Zenon
    <2>6. s.call.wire \o s.call.buffer = (c.wire \o c.buffer) \o y
      BY <1>5, Zenon DEF c, y
    <2>7. s.call.resp \o s.call.wire \o s.call.buffer = x \o y
      BY <2>1, <2>3, <2>4, <2>5, <2>6, Zenon
    <2> QED BY <1>7, <1>8, <2>7, Zenon DEF x, y
  <1>13. ASSUME s.call.status = "denied"
         PROVE  /\ Len(s.call.resp) < Len(s.pipeline)
                /\ s.pipeline[Len(s.call.resp) + 1].w \in Bad
    <2>1. Len(c.resp) < Len(p) /\ p[Len(c.resp) + 1].w \in Bad
      BY <1>5, <1>6, <1>13 DEF CallOK
    <2>2. /\ Len(p \o new) = Len(p) + Len(new)
          /\ \A i \in 1..(Len(p) + Len(new)) : (p \o new)[i] = IF i <= Len(p) THEN p[i] ELSE new[i - Len(p)]
      BY <1>1, ConcatProperties
    <2>3. Len(p) \in Nat /\ Len(new) \in Nat /\ Len(c.resp) \in Nat
      BY <1>1, <1>10
    <2>4. Len(c.resp) + 1 \in 1..(Len(p) + Len(new)) /\ Len(c.resp) + 1 <= Len(p)
      BY <2>1, <2>3
    <2>5. (p \o new)[Len(c.resp) + 1] = p[Len(c.resp) + 1]
      BY <2>2, <2>4
    <2> QED BY <1>5, <2>1, <2>2, <2>3, <2>5
  <1>14. CallOK(s)
    BY <1>5, <1>6, <1>11, <1>12, <1>13 DEF CallOK
  <1>15. "idle" \in s.timers => s.pipeline = <<>>
    <2>1. ASSUME "idle" \in s.timers PROVE p \o new = <<>>
      <3>1. p = <<>> /\ new = <<>>
        BY <1>4, <1>5, <2>1 DEF StreamOK
      <3> QED BY <3>1
    <2> QED BY <1>5, <2>1
  <1>16. IsOpen(s) /\ s.handshake
    BY <1>5, <1>6 DEF IsOpen
  <1>17. StreamOK(s)
    BY <1>5, <1>6, <1>14, <1>15, <1>16 DEF StreamOK, IsStarted, Sending, IsOpen
  <1> QED BY <1>3, <1>5, <1>6, <1>16, <1>17 DEF s, f

\* Whatever r is doing, FillWritePipeline brings the pipeline up to its limit
\* and leaves the stream well-formed.
LEMMA FillWritePipelineOK ==
    ASSUME NEW r, StreamOK(r), NEW q, QueueOK(q), Begins(r.pipeline, q),
           Len(r.pipeline) <= kMaxPendingWrites, ~r.network => r.pipeline = <<>>
    PROVE  LET s == FillWritePipeline(r, q)
           IN /\ StreamOK(s) /\ Filled(s, q)
              /\ s.network = r.network /\ s.handshake = r.handshake
              /\ IsOpen(s) <=> IsOpen(r)
              /\ s.call.resp = r.call.resp
  <1> DEFINE new  == NextBatches(r, q)
             f    == [r EXCEPT !.pipeline = @ \o new]
             sent == IF IsOpen(r) /\ r.handshake THEN SendAll(f, Ops(new)) ELSE f
             idle == IF r.network /\ f.pipeline = <<>> THEN MarkIdle(sent) ELSE sent
             s    == FillWritePipeline(r, q)
             p    == r.pipeline
  <1>1. s = Restarted(idle)
    BY DEF FillWritePipeline
  <1>2. r \in Remotes /\ p \in Seq(Batches)
    BY DEF StreamOK, Remotes
  <1>3. /\ new \in Seq(Batches) /\ p \o new \in Seq(Batches)
        /\ Begins(p \o new, q)
        /\ Len(p \o new) = IF r.network THEN Min({kMaxPendingWrites, Len(q)}) ELSE 0
    BY <1>2, NextBatchesFacts
  <1> HIDE DEF new
  <1>4. /\ StreamOK(sent) /\ sent.pipeline = p \o new /\ sent.network = r.network
        /\ sent.handshake = r.handshake /\ (IsOpen(sent) <=> IsOpen(r))
        /\ sent.call.resp = r.call.resp
    <2>1. CASE Sending(r)
      <3>1. sent = SendAll([r EXCEPT !.pipeline = @ \o new], Ops(new))
        BY <2>1 DEF Sending
      <3>2. new \in Seq(Batches)
        BY <1>3
      <3> HIDE DEF f, sent
      <3> QED BY <2>1, <3>1, <3>2, SendMore, Zenon
    <2>2. CASE ~Sending(r)
      <3>1. sent = f
        BY <2>2 DEF Sending
      <3>2. /\ f \in Remotes
            /\ f.network = r.network /\ f.pipeline = p \o new /\ f.state = r.state
            /\ f.handshake = r.handshake /\ f.closeCount = r.closeCount /\ f.creds = r.creds
            /\ f.timers = r.timers /\ f.call = r.call
        BY <1>2, <1>3 DEF Remotes
      <3> HIDE DEF f, sent
      <3>3. p # <<>> => p \o new # <<>>
        BY <1>2, <1>3, ConcatEmptySeq
      <3>4. CallOK(r) /\ IsOpen(r) => CallOK(f)
        BY <2>2, <3>2 DEF CallOK, Asked, Sending
      <3>5. IsOpen(f) <=> IsOpen(r)
        BY <3>2 DEF IsOpen
      <3>6. StreamOK(f)
        BY <2>2, <3>2, <3>3, <3>4, <3>5 DEF StreamOK, IsStarted, Sending
      <3> QED BY <3>1, <3>2, <3>5, <3>6
    <2> QED BY <2>1, <2>2
  <1>5. f.pipeline = p \o new
    BY <1>2 DEF Remotes
  <1> HIDE DEF f, sent
  <1>6. /\ StreamOK(idle) /\ idle.pipeline = p \o new /\ idle.network = r.network
        /\ idle.handshake = r.handshake /\ (IsOpen(idle) <=> IsOpen(r))
        /\ idle.call.resp = r.call.resp
    <2>1. CASE r.network /\ p \o new = <<>>
      <3>1. idle = MarkIdle(sent)
        BY <1>5, <2>1
      <3> QED BY <1>4, <2>1, <3>1, MarkIdleOK
    <2>2. CASE ~(r.network /\ p \o new = <<>>)
      BY <1>4, <1>5, <2>2
    <2> QED BY <2>1, <2>2
  <1> HIDE DEF idle, s
  <1>7. /\ StreamOK(s) /\ s.pipeline = p \o new /\ s.network = r.network
        /\ s.handshake = r.handshake /\ (IsOpen(s) <=> IsOpen(r))
        /\ s.call.resp = r.call.resp
    BY <1>1, <1>6, RestartedOK
  <1>8. Filled(s, q)
    BY <1>3, <1>7 DEF Filled
  <1> QED BY <1>7, <1>8 DEF s

-----------------------------------------------------------------------------
(* The other functions of RemoteStore and Stream.                          *)

\* Closing the stream makes every request for credentials under way stale.
LEMMA ClosedOK ==
    ASSUME NEW r, StreamOK(r), NEW ok \in BOOLEAN
    PROVE  LET s == Closed(r, ok)
           IN /\ StreamOK(s)
              /\ s.network = r.network /\ s.pipeline = r.pipeline /\ s.handshake = r.handshake
              /\ s.state = IF ok THEN "Initial" ELSE "Error"
              /\ s.call = NoCall
  <1> DEFINE s == Closed(r, ok)
  <1>1. s = [r EXCEPT !.timers = {}, !.closeCount = @ + 1, !.call = NoCall,
                      !.state = IF ok THEN "Initial" ELSE "Error"]
    BY DEF Closed
  <1>2. r \in Remotes
    BY DEF StreamOK
  <1>3. NoCall \in Calls
    BY DEF NoCall, Calls
  <1> HIDE DEF s
  <1>a. /\ r.closeCount + 1 \in Nat /\ {} \in SUBSET Timers
        /\ (IF ok THEN "Initial" ELSE "Error") \in States
    BY <1>2 DEF Remotes, States
  <1>4. s \in Remotes
    BY <1>1, <1>2, <1>3, <1>a DEF Remotes
  <1>5. /\ s.network = r.network /\ s.pipeline = r.pipeline
        /\ s.state = IF ok THEN "Initial" ELSE "Error"
        /\ s.handshake = r.handshake /\ s.closeCount = r.closeCount + 1 /\ s.creds = r.creds
        /\ s.timers = {} /\ s.call = NoCall
    BY <1>1, <1>2 DEF Remotes
  <1>6. r.closeCount \in Nat /\ r.creds \subseteq 0..r.closeCount
    BY <1>2 DEF StreamOK, Remotes
  <1>7. s.creds \subseteq 0..s.closeCount /\ s.closeCount \notin s.creds
    BY <1>5, <1>6
  <1>8. s.state \in {"Initial", "Error"}
    BY <1>5
  <1>9. StreamOK(s)
    BY <1>4, <1>5, <1>7, <1>8 DEF StreamOK, IsStarted, IsOpen
  <1> QED BY <1>5, <1>9 DEF s

LEMMA NoHandshakeOK ==
    ASSUME NEW r, StreamOK(r), ~IsOpen(r)
    PROVE  LET s == [r EXCEPT !.handshake = FALSE]
           IN /\ StreamOK(s) /\ ~s.handshake
              /\ s.network = r.network /\ s.pipeline = r.pipeline /\ s.state = r.state
              /\ s.call = NoCall
  <1> DEFINE s == [r EXCEPT !.handshake = FALSE]
  <1>1. r \in Remotes /\ r.call = NoCall
    BY DEF StreamOK
  <1>2. s \in Remotes
    BY <1>1 DEF Remotes
  <1>3. /\ s.network = r.network /\ s.pipeline = r.pipeline /\ s.state = r.state
        /\ s.handshake = FALSE /\ s.closeCount = r.closeCount /\ s.creds = r.creds
        /\ s.timers = r.timers /\ s.call = r.call
    BY <1>1 DEF Remotes
  <1> HIDE DEF s
  <1>4. StreamOK(s)
    BY <1>2, <1>3 DEF StreamOK, IsStarted, IsOpen, Sending
  <1> QED BY <1>1, <1>3, <1>4 DEF s

\* A store with the network off has nothing in its pipeline and no stream.
Offline(r) == /\ StreamOK(r) /\ ~r.network /\ r.pipeline = <<>>
              /\ ~r.handshake /\ ~IsStarted(r)

LEMMA DisableNetworkOK ==
    ASSUME NEW r, StreamOK(r), r.handshake => IsOpen(r)
    PROVE  Offline(DisableNetwork(r))
  <1> DEFINE d == DisableNetwork(r)
  <1>1. r \in Remotes /\ r.closeCount \in Nat /\ r.creds \subseteq 0..r.closeCount
    BY DEF StreamOK, Remotes
  <1>2. NoCall \in Calls /\ <<>> \in Seq(Batches)
    BY DEF NoCall, Calls
  <1>3. CASE IsStarted(r)
    <2>1. /\ IsStarted([r EXCEPT !.network = FALSE])
          /\ d = [r EXCEPT !.network = FALSE, !.timers = {}, !.closeCount = @ + 1,
                           !.call = NoCall, !.state = "Initial", !.handshake = FALSE,
                           !.pipeline = <<>>]
      BY <1>1, <1>3 DEF DisableNetwork, Stop, Closed, IsStarted, IsOpen, Remotes
    <2> HIDE DEF d
    <2>a. r.closeCount + 1 \in Nat /\ {} \in SUBSET Timers /\ "Initial" \in States
      BY <1>1 DEF States
    <2>2. d \in Remotes
      BY <1>1, <1>2, <2>1, <2>a DEF Remotes
    <2>3. /\ ~d.network /\ d.pipeline = <<>> /\ d.state = "Initial" /\ ~d.handshake
          /\ d.closeCount = r.closeCount + 1 /\ d.creds = r.creds /\ d.timers = {}
          /\ d.call = NoCall
      BY <1>1, <2>1 DEF Remotes
    <2>4. d.creds \subseteq 0..d.closeCount /\ d.closeCount \notin d.creds
      BY <1>1, <2>3
    <2> QED BY <2>2, <2>3, <2>4 DEF Offline, StreamOK, IsStarted, IsOpen, d
  <1>4. CASE ~IsStarted(r)
    <2>1. d = [r EXCEPT !.network = FALSE, !.pipeline = <<>>]
      BY <1>1, <1>4 DEF DisableNetwork, Stop, IsStarted, IsOpen, Remotes
    <2> HIDE DEF d
    <2>2. d \in Remotes
      BY <1>1, <1>2, <2>1 DEF Remotes, States
    <2>3. /\ ~d.network /\ d.pipeline = <<>> /\ d.state = r.state /\ d.handshake = r.handshake
          /\ d.closeCount = r.closeCount /\ d.creds = r.creds /\ d.timers = r.timers
          /\ d.call = r.call
      BY <1>1, <2>1 DEF Remotes
    <2> QED BY <1>4, <2>2, <2>3 DEF Offline, StreamOK, IsStarted, IsOpen, Sending, d
  <1> QED BY <1>3, <1>4

LEMMA EnableNetworkOK ==
    ASSUME NEW r, Offline(r), NEW q, QueueOK(q)
    PROVE  LET s == EnableNetwork(r, q)
           IN RemoteOK(s, q) /\ s.network /\ s.call.resp = <<>>
  <1> DEFINE e == [r EXCEPT !.network = TRUE]
  <1>1. r \in Remotes /\ r.call = NoCall
    BY DEF Offline, StreamOK, IsStarted
  <1>2. e \in Remotes
    BY <1>1 DEF Remotes
  <1>3. /\ e.network /\ e.pipeline = r.pipeline /\ e.state = r.state
        /\ e.handshake = r.handshake /\ e.closeCount = r.closeCount /\ e.creds = r.creds
        /\ e.timers = r.timers /\ e.call = r.call
    BY <1>1 DEF Remotes
  <1> HIDE DEF e
  <1>4. StreamOK(e) /\ ~IsOpen(e)
    BY <1>2, <1>3 DEF Offline, StreamOK, IsStarted, IsOpen, Sending
  <1>5. e.pipeline = <<>> /\ Len(e.pipeline) = 0 /\ ~e.handshake
    BY <1>3 DEF Offline
  <1>6. Begins(e.pipeline, q) /\ Len(e.pipeline) <= kMaxPendingWrites
    BY <1>5, QueueFacts, PipelineAssumption DEF Begins
  <1> DEFINE s == FillWritePipeline(e, q)
  <1>7. /\ StreamOK(s) /\ Filled(s, q) /\ s.network = e.network /\ s.handshake = e.handshake
        /\ s.call.resp = e.call.resp
    BY <1>3, <1>4, <1>6, FillWritePipelineOK
  <1> HIDE DEF s
  <1>8. s = EnableNetwork(r, q)
    BY DEF s, e, EnableNetwork
  <1>9. e.call.resp = <<>>
    BY <1>1, <1>3 DEF NoCall
  <1> QED BY <1>3, <1>5, <1>7, <1>8, <1>9 DEF RemoteOK

LEMMA RestartNetworkOK ==
    ASSUME NEW r, StreamOK(r), r.handshake => IsOpen(r), NEW q, QueueOK(q)
    PROVE  LET s == RestartNetwork(r, q)
           IN RemoteOK(s, q) /\ s.network /\ s.call.resp = <<>>
  <1> DEFINE d == DisableNetwork(r)
             i == [d EXCEPT !.state = "Initial"]
  <1>1. Offline(d)
    BY DisableNetworkOK
  <1> HIDE DEF d
  <1>2. d \in Remotes
    BY <1>1 DEF Offline, StreamOK
  <1>3. /\ i \in Remotes
        /\ i.network = d.network /\ i.pipeline = d.pipeline /\ i.state = "Initial"
        /\ i.handshake = d.handshake /\ i.closeCount = d.closeCount /\ i.creds = d.creds
        /\ i.timers = d.timers /\ i.call = d.call
    BY <1>2 DEF Remotes, States
  <1>4. RestartNetwork(r, q) = EnableNetwork(i, q)
    BY DEF RestartNetwork, InhibitBackoff, d
  <1> HIDE DEF i
  <1>5. Offline(i)
    BY <1>1, <1>3 DEF Offline, StreamOK, IsStarted, IsOpen, Sending
  <1> QED BY <1>4, <1>5, EnableNetworkOK

LEMMA NewRemoteOK == Offline(NewRemote)
  <1>1. NoCall \in Calls /\ <<>> \in Seq(Batches)
    BY DEF NoCall, Calls
  <1>2. NewRemote \in Remotes
    BY <1>1 DEF NewRemote, Remotes, States
  <1> QED BY <1>2 DEF NewRemote, Offline, StreamOK, IsStarted, IsOpen

\* The write at the head of the queue is the one removed when it is answered.
LEMMA RemoveHead ==
    ASSUME NEW q, QueueOK(q), q # <<>>
    PROVE  RemoveMutationBatch(q, Head(q).id) = Tail(q)
  <1> DEFINE I == {i \in 1..Len(q) : q[i].id = Head(q).id}
  <1>1. /\ q \in Seq(Batches) /\ Len(q) \in Nat \ {0} /\ 1 \in 1..Len(q) /\ Head(q) = q[1]
    BY QueueFacts
  <1>2. \A i \in 1..Len(q) : q[i].id = q[1].id => i = 1
    BY <1>1, QueueFacts
  <1>3. I = {1}
    BY <1>1, <1>2
  <1>4. SelectInSeq(q, LAMBDA b : b.id = Head(q).id) = IF I # {} THEN Min(I) ELSE 0
    BY DEF SelectInSeq
  <1> HIDE DEF I
  <1>5. Min(I) = 1
    BY <1>3 DEF Min
  <1>6. SelectInSeq(q, LAMBDA b : b.id = Head(q).id) = 1
    BY <1>3, <1>4, <1>5
  <1>7. RemoveMutationBatch(q, Head(q).id) = RemoveAt(q, 1)
    BY <1>6 DEF RemoveMutationBatch
  <1>8. RemoveAt(q, 1) = SubSeq(q, 1, 0) \o SubSeq(q, 2, Len(q))
    BY <1>1 DEF RemoveAt
  <1>9. SubSeq(q, 1, 0) = <<>> /\ SubSeq(q, 2, Len(q)) = Tail(q) /\ Tail(q) \in Seq(Batches)
    BY <1>1
  <1>10. <<>> \o Tail(q) = Tail(q)
    BY <1>9
  <1> QED BY <1>7, <1>8, <1>9, <1>10

LEMMA TailOK ==
    ASSUME NEW q, QueueOK(q), q # <<>>
    PROVE  /\ QueueOK(Tail(q)) /\ Len(Tail(q)) = Len(q) - 1
           /\ \A i \in 1..(Len(q) - 1) : Tail(q)[i] = q[i + 1] /\ i + 1 \in 1..Len(q)
           /\ Head(q) = q[1] /\ 1 \in 1..Len(q) /\ DOMAIN Tail(q) = 1..(Len(q) - 1)
  <1>1. /\ q \in Seq(Batches) /\ Len(q) \in Nat \ {0} /\ 1 \in 1..Len(q) /\ Head(q) = q[1]
        /\ DOMAIN q = 1..Len(q)
    BY QueueFacts
  <1>2. Tail(q) \in Seq(Batches) /\ Len(Tail(q)) = Len(q) - 1 /\ DOMAIN Tail(q) = 1..(Len(q) - 1)
    BY <1>1
  <1>3. \A i \in 1..(Len(q) - 1) : Tail(q)[i] = q[i + 1] /\ i + 1 \in 1..Len(q)
    BY <1>1
  <1>4. \A i \in 1..Len(q) : 0 < q[i].id /\ 0 < q[i].w
    BY <1>1 DEF QueueOK
  <1>5. \A i, j \in 1..Len(q) : i < j => q[i].id < q[j].id /\ q[i].w < q[j].w
    BY <1>1 DEF QueueOK
  <1>6. \A i \in 1..(Len(q) - 1) : 0 < Tail(q)[i].id /\ 0 < Tail(q)[i].w
    BY <1>3, <1>4
  <1>7. ASSUME NEW i \in 1..(Len(q) - 1), NEW j \in 1..(Len(q) - 1), i < j
        PROVE  Tail(q)[i].id < Tail(q)[j].id /\ Tail(q)[i].w < Tail(q)[j].w
    <2>1. i + 1 < j + 1 /\ i + 1 \in 1..Len(q) /\ j + 1 \in 1..Len(q)
      BY <1>1, <1>7
    <2> QED BY <1>3, <1>5, <2>1
  <1>8. QueueOK(Tail(q))
    BY <1>2, <1>6, <1>7 DEF QueueOK
  <1> QED BY <1>1, <1>2, <1>3, <1>8

-----------------------------------------------------------------------------
(* The queues on disk.                                                     *)

\* Numbers up to n have a largest one.
LEMMA MaxUpTo ==
    ASSUME NEW S \in SUBSET Nat, NEW n \in Nat, S # {}, \A x \in S : x <= n
    PROVE  Max(S) \in S /\ \A x \in S : x <= Max(S)
  <1> DEFINE D == {n - x : x \in S}
  <1>1. D \subseteq Nat /\ D # {}
    <2>1. PICK x \in S : TRUE
      OBVIOUS
    <2>2. n - x \in D
      BY <2>1
    <2>3. \A y \in S : n - y \in Nat
      OBVIOUS
    <2> QED BY <2>2, <2>3
  <1>2. PICK d \in D : \A e \in D : <<e, d>> \notin OpToRel(<, Nat)
    BY <1>1, NatLessThanWellFounded, WFMin
  <1>3. \A e \in D : ~(e < d)
    BY <1>1, <1>2 DEF OpToRel
  <1>4. PICK m \in S : d = n - m
    OBVIOUS
  <1>5. \A x \in S : x <= m
    BY <1>3, <1>4, SMTT(30)
  <1> QED BY <1>4, <1>5 DEF Max

LEMMA QueueShorter ==
    ASSUME NEW queues, NEW id, NEW w, QueuesOK(queues, id, w), NEW u \in Users, queues[u] # <<>>
    PROVE  QueuesOK([queues EXCEPT ![u] = Tail(@)], id, w)
  <1> DEFINE q == queues[u]
             m == [queues EXCEPT ![u] = Tail(@)]
  <1>1. queues \in [Users -> Seq(Batches)] /\ QueueOK(q)
    BY DEF QueuesOK
  <1>2. /\ QueueOK(Tail(q)) /\ Len(Tail(q)) = Len(q) - 1
        /\ \A i \in 1..(Len(q) - 1) : Tail(q)[i] = q[i + 1] /\ i + 1 \in 1..Len(q)
        /\ DOMAIN Tail(q) = 1..(Len(q) - 1) /\ DOMAIN q = 1..Len(q)
    BY <1>1, TailOK, QueueFacts
  <1>3. m[u] = Tail(q) /\ \A v \in Users \ {u} : m[v] = queues[v]
    BY <1>1
  <1>4. m \in [Users -> Seq(Batches)]
    BY <1>1, <1>2 DEF QueueOK
  <1> HIDE DEF m
  <1>5. \A v \in Users : \A i \in DOMAIN m[v] : \E k \in DOMAIN queues[v] : m[v][i] = queues[v][k]
    <2> TAKE v \in Users
    <2> TAKE i \in DOMAIN m[v]
    <2>1. CASE v = u
      <3>1. i \in 1..(Len(q) - 1)
        BY <1>2, <1>3, <2>1
      <3>2. m[v][i] = queues[v][i + 1] /\ i + 1 \in DOMAIN queues[v]
        BY <1>2, <1>3, <2>1, <3>1
      <3> QED BY <3>2
    <2>2. CASE v # u
      BY <1>3, <2>2
    <2> QED BY <2>1, <2>2
  <1>6. \A v \in Users : QueueOK(m[v])
    BY <1>2, <1>3 DEF QueuesOK
  <1>7. \A v \in Users : \A i \in DOMAIN m[v] : m[v][i].id < id /\ m[v][i].w <= w
    BY <1>5 DEF QueuesOK
  <1>8. \A v \in Users : \A x \in Users \ {v} : \A i \in DOMAIN m[v], j \in DOMAIN m[x] :
           m[v][i].id # m[x][j].id /\ m[v][i].w # m[x][j].w
    BY <1>5 DEF QueuesOK
  <1>9. QueuesOK(m, id, w)
    BY <1>4, <1>6, <1>7, <1>8 DEF QueuesOK
  <1> QED BY <1>9 DEF m

\* The queue of u after batch b has joined it.
Joined(queues, id, w, u, b) ==
    LET a == Append(queues[u], b)
    IN /\ QueuesOK([queues EXCEPT ![u] = a], id + 1, w + 1)
       /\ QueueOK(a) /\ Len(a) = Len(queues[u]) + 1
       /\ DOMAIN a = 1..(Len(queues[u]) + 1)
       /\ \A i \in 1..Len(queues[u]) : a[i] = queues[u][i]
       /\ a[Len(queues[u]) + 1] = b

\* A batch whose id and write are larger than all of them joins a queue.
LEMMA QueueLonger ==
    ASSUME NEW queues, NEW id, NEW w, QueuesOK(queues, id, w), NEW u \in Users
    PROVE  Joined(queues, id, w, u, [id |-> id, w |-> w + 1])
  <1> SUFFICES ASSUME NEW b, b = [id |-> id, w |-> w + 1], NEW a, a = Append(queues[u], b)
               PROVE  /\ QueuesOK([queues EXCEPT ![u] = a], id + 1, w + 1)
                      /\ QueueOK(a) /\ Len(a) = Len(queues[u]) + 1
                      /\ DOMAIN a = 1..(Len(queues[u]) + 1)
                      /\ \A i \in 1..Len(queues[u]) : a[i] = queues[u][i]
                      /\ a[Len(queues[u]) + 1] = b
    BY Zenon DEF Joined
  <1> DEFINE q == queues[u]
             m == [queues EXCEPT ![u] = a]
  <1>1. queues \in [Users -> Seq(Batches)] /\ QueueOK(q) /\ id \in Nat \ {0} /\ w \in Nat
    BY DEF QueuesOK
  <1>2. /\ q \in Seq(Batches) /\ Len(q) \in Nat /\ DOMAIN q = 1..Len(q)
        /\ \A i \in 1..Len(q) : /\ q[i].id \in Nat /\ q[i].w \in Nat
                                /\ 0 < q[i].id /\ 0 < q[i].w
        /\ \A i, j \in 1..Len(q) : i < j => q[i].id < q[j].id /\ q[i].w < q[j].w
    BY <1>1, QueueFacts
  <1>3. b \in Batches /\ b.id = id /\ b.w = w + 1
    BY <1>1 DEF Batches
  <1>4. /\ a \in Seq(Batches) /\ Len(a) = Len(q) + 1 /\ a[Len(q) + 1] = b
        /\ \A i \in 1..Len(q) : a[i] = q[i]
    BY <1>2, <1>3, AppendProperties
  <1>5. DOMAIN a = 1..(Len(q) + 1)
    BY <1>4
  <1>6. \A i \in 1..Len(q) : q[i].id < id /\ q[i].w <= w
    BY <1>2 DEF QueuesOK
  <1>7. \A i \in 1..(Len(q) + 1) : i \in 1..Len(q) \/ i = Len(q) + 1
    BY <1>2
  <1>8. QueueOK(a)
    <2>1. \A i \in DOMAIN a : 0 < a[i].id /\ 0 < a[i].w
      BY <1>1, <1>2, <1>3, <1>4, <1>5, <1>7
    <2>2. ASSUME NEW i \in DOMAIN a, NEW j \in DOMAIN a, i < j
          PROVE  a[i].id < a[j].id /\ a[i].w < a[j].w
      <3>1. i \in 1..Len(q)
        BY <1>2, <1>5, <2>2
      <3>2. CASE j \in 1..Len(q)
        BY <1>2, <1>4, <2>2, <3>1, <3>2
      <3>3. CASE j = Len(q) + 1
        <4>1. a[i] = q[i] /\ a[j] = b
          BY <1>4, <3>1, <3>3
        <4>2. q[i].id < id /\ q[i].w <= w /\ q[i].w \in Nat
          BY <1>2, <1>6, <3>1
        <4> QED BY <1>1, <1>3, <4>1, <4>2
      <3> QED BY <1>5, <1>7, <3>2, <3>3
    <2> QED BY <1>4, <2>1, <2>2 DEF QueueOK
  <1>9. m[u] = a /\ (\A v \in Users \ {u} : m[v] = queues[v])
    BY <1>1
  <1>10. m \in [Users -> Seq(Batches)]
    BY <1>1, <1>4
  <1> HIDE DEF m
  <1>11. \A v \in Users : QueueOK(m[v])
    BY <1>8, <1>9 DEF QueuesOK
  <1>12. \A v \in Users : \A i \in DOMAIN m[v] :
            (\E k \in DOMAIN queues[v] : m[v][i] = queues[v][k]) \/ (v = u /\ m[v][i] = b)
    BY <1>2, <1>4, <1>5, <1>7, <1>9
  <1>13. \A v \in Users : \A k \in DOMAIN queues[v] :
            /\ queues[v][k].id < id /\ queues[v][k].w <= w
            /\ queues[v][k].id \in Nat /\ queues[v][k].w \in Nat
    BY QueueFacts DEF QueuesOK
  <1>14. \A v \in Users : \A i \in DOMAIN m[v] : m[v][i].id < id + 1 /\ m[v][i].w <= w + 1
    <2> TAKE v \in Users
    <2> TAKE i \in DOMAIN m[v]
    <2>1. CASE m[v][i] = b
      BY <1>1, <1>3, <2>1
    <2>2. CASE \E k \in DOMAIN queues[v] : m[v][i] = queues[v][k]
      BY <1>1, <1>13, <2>2
    <2> QED BY <1>12, <2>1, <2>2
  <1>15. ASSUME NEW v \in Users, NEW x \in Users \ {v}, NEW i \in DOMAIN m[v], NEW j \in DOMAIN m[x]
         PROVE  m[v][i].id # m[x][j].id /\ m[v][i].w # m[x][j].w
    <2>1. CASE m[v][i] = b /\ v = u
      <3>1. PICK k \in DOMAIN queues[x] : m[x][j] = queues[x][k]
        BY <1>12, <2>1
      <3>2. queues[x][k].id < id /\ queues[x][k].w <= w /\ queues[x][k].w \in Nat
        BY <1>13
      <3> QED BY <1>1, <1>3, <2>1, <3>1, <3>2
    <2>2. CASE \E k \in DOMAIN queues[v] : m[v][i] = queues[v][k]
      <3>1. PICK k \in DOMAIN queues[v] : m[v][i] = queues[v][k]
        BY <2>2
      <3>2. queues[v][k].id < id /\ queues[v][k].w <= w /\ queues[v][k].w \in Nat
        BY <1>13
      <3>3. CASE m[x][j] = b
        BY <1>1, <1>3, <3>1, <3>2, <3>3
      <3>4. CASE \E l \in DOMAIN queues[x] : m[x][j] = queues[x][l]
        BY <3>1, <3>4 DEF QueuesOK
      <3> QED BY <1>12, <3>3, <3>4
    <2> QED BY <1>12, <2>1, <2>2
  <1>16. id + 1 \in Nat \ {0} /\ w + 1 \in Nat
    BY <1>1
  <1>17. QueuesOK(m, id + 1, w + 1)
    BY <1>10, <1>11, <1>14, <1>15, <1>16 DEF QueuesOK
  <1> QED BY <1>4, <1>5, <1>8, <1>17 DEF m

\* The batch id read from disk is new for every account.
LEMMA LoadNextBatchIdOK ==
    ASSUME NEW queues, NEW id, NEW w, QueuesOK(queues, id, w)
    PROVE  QueuesOK(queues, LoadNextBatchId(queues), w)
  <1> DEFINE S == {0} \cup UNION {Ids(queues[u]) : u \in Users}
  <1>1. id \in Nat \ {0}
    BY DEF QueuesOK
  <1>2. \A u \in Users : \A k \in DOMAIN queues[u] :
            queues[u][k].id < id /\ queues[u][k].id \in Nat /\ queues[u][k].id \in S
    BY QueueFacts DEF QueuesOK, Ids
  <1>3. S \in SUBSET Nat /\ S # {} /\ \A x \in S : x <= id
    BY <1>1, <1>2 DEF Ids
  <1> HIDE DEF S
  <1>4. Max(S) \in S /\ \A x \in S : x <= Max(S)
    BY <1>1, <1>3, MaxUpTo
  <1>5. LoadNextBatchId(queues) = 1 + Max(S)
    BY DEF LoadNextBatchId, S
  <1>6. Max(S) \in Nat
    BY <1>3, <1>4
  <1>7. \A u \in Users : \A k \in DOMAIN queues[u] : queues[u][k].id < 1 + Max(S)
    BY <1>2, <1>4, <1>6
  <1>8. 1 + Max(S) \in Nat \ {0}
    BY <1>6
  <1> QED BY <1>5, <1>7, <1>8 DEF QueuesOK

-----------------------------------------------------------------------------
(* The actions.                                                            *)
LEMMA InvFacts ==
    ASSUME WritesInv
    PROVE  /\ user \in Users /\ QueueOK(mq[user])
           /\ remote \in Remotes /\ remote.pipeline \in Seq(Batches) /\ remote.call \in Calls
           /\ StreamOK(remote) /\ Filled(remote, mq[user]) /\ Begins(remote.pipeline, mq[user])
           /\ remote.handshake => IsOpen(remote)
           /\ Len(remote.pipeline) <= kMaxPendingWrites
           /\ ~remote.network => remote.pipeline = <<>>
           /\ log \in Seq(Nat) /\ Known(remote.call.resp, log)
  <1>1. user \in Users /\ QueueOK(mq[user])
    BY DEF WritesInv, DiskOK, QueuesOK
  <1>2. /\ StreamOK(remote) /\ Filled(remote, mq[user]) /\ (remote.handshake => IsOpen(remote))
        /\ remote \in Remotes
    BY DEF WritesInv, RemoteOK, StreamOK
  <1>3. remote.pipeline \in Seq(Batches) /\ remote.call \in Calls /\ remote.network \in BOOLEAN
    BY <1>2 DEF Remotes
  <1>4. Begins(remote.pipeline, mq[user])
    BY <1>2 DEF Filled
  <1>5. Len(remote.pipeline) = IF remote.network THEN Min({kMaxPendingWrites, Len(mq[user])}) ELSE 0
    BY <1>2 DEF Filled
  <1>6. Len(mq[user]) \in Nat
    BY <1>1, QueueFacts
  <1>7. kMaxPendingWrites \in Nat
    BY PipelineAssumption
  <1>8. Len(remote.pipeline) <= kMaxPendingWrites
    BY <1>5, <1>6, <1>7, MinPair
  <1>9. ~remote.network => remote.pipeline = <<>>
    BY <1>3, <1>5
  <1>10. log \in Seq(Nat) /\ Known(remote.call.resp, log)
    BY DEF WritesInv, AnswersOK
  <1> QED BY <1>1, <1>2, <1>3, <1>4, <1>8, <1>9, <1>10

\* A step of the stream alone, or of the server.
LEMMA StreamStep ==
    ASSUME WritesInv, UNCHANGED <<user, mq, nextId, callbacks, waiters, issued, told>>,
           RemoteOK(remote', mq[user]), log' \in Seq(Nat), Known(remote'.call.resp, log')
    PROVE  WritesInv'
  <1>1. user' \in Users /\ mq' = mq /\ user' = user
    BY DEF WritesInv
  <1>2. DiskOK'
    BY DEF WritesInv, DiskOK
  <1>3. AnswersOK'
    BY DEF WritesInv, AnswersOK
  <1>4. WaitersOK'
    BY DEF WritesInv, WaitersOK
  <1> QED BY <1>1, <1>2, <1>3, <1>4 DEF WritesInv

LEMMA KnownNothing == \A applied : Known(<<>>, applied)
  BY DEF Known

LEMMA KnownTail ==
    ASSUME NEW resp \in Seq(Nat), NEW applied, resp # <<>>, Known(resp, applied)
    PROVE  Known(Tail(resp), applied)
  <1>1. /\ Len(resp) \in Nat \ {0} /\ Len(Tail(resp)) = Len(resp) - 1
        /\ \A i \in 1..(Len(resp) - 1) : Tail(resp)[i] = resp[i + 1]
    OBVIOUS
  <1>2. \A i \in 1..(Len(resp) - 1) : i + 1 \in 1..Len(resp)
    BY <1>1
  <1> QED BY <1>1, <1>2 DEF Known

\* A closed stream that is restarted and has forgotten its handshake.
LEMMA ClosedAndRestarted ==
    ASSUME NEW r, StreamOK(r), NEW q, Filled(r, q)
    PROVE  LET s == [Restarted(Closed(r, FALSE)) EXCEPT !.handshake = FALSE]
           IN RemoteOK(s, q) /\ s.call.resp = <<>>
  <1> DEFINE c == Closed(r, FALSE)
             t == Restarted(c)
             s == [t EXCEPT !.handshake = FALSE]
  <1>1. StreamOK(c) /\ c.network = r.network /\ c.pipeline = r.pipeline /\ c.state = "Error"
    BY ClosedOK
  <1> HIDE DEF c
  <1>2. ~IsOpen(c)
    BY <1>1 DEF IsOpen
  <1>3. StreamOK(t) /\ t.network = r.network /\ t.pipeline = r.pipeline /\ ~IsOpen(t)
    BY <1>1, <1>2, RestartedOK
  <1> HIDE DEF t
  <1>4. /\ StreamOK(s) /\ ~s.handshake /\ s.network = r.network /\ s.pipeline = r.pipeline
        /\ s.call = NoCall
    BY <1>3, NoHandshakeOK
  <1> HIDE DEF s
  <1>5. Filled(s, q)
    BY <1>4 DEF Filled
  <1>6. RemoteOK(s, q)
    BY <1>4, <1>5 DEF RemoteOK
  <1>7. s.call.resp = <<>>
    BY <1>4 DEF NoCall
  <1> QED BY <1>6, <1>7, Zenon DEF s, t, c

LEMMA SwitchNetworkOK ==
    ASSUME WritesInv, SwitchNetwork
    PROVE  WritesInv'
  <1>1. RemoteOK(remote', mq[user]) /\ remote'.call.resp = <<>>
    <2>1. CASE remote.network
      <3>1. remote' = DisableNetwork(remote)
        BY <2>1 DEF SwitchNetwork
      <3>2. Offline(remote')
        BY <3>1, InvFacts, DisableNetworkOK
      <3>3. remote'.call = NoCall /\ RemoteOK(remote', mq[user])
        BY <3>2, InvFacts, QueueFacts DEF Offline, RemoteOK, StreamOK, Filled, IsStarted, Begins
      <3> QED BY <3>3 DEF NoCall
    <2>2. CASE ~remote.network
      <3>1. remote' = EnableNetwork(remote, mq[user])
        BY <2>2 DEF SwitchNetwork
      <3>2. Offline(remote)
        BY <2>2, InvFacts DEF Offline, StreamOK, IsStarted
      <3> QED BY <3>1, <3>2, InvFacts, EnableNetworkOK
    <2> QED BY <2>1, <2>2
  <1>2. Known(remote'.call.resp, log)
    BY <1>1, KnownNothing
  <1> QED BY <1>1, <1>2, StreamStep, InvFacts DEF SwitchNetwork

\* Credentials that are no longer awaited are dropped.
LEMMA DropCredentials ==
    ASSUME NEW r, StreamOK(r), NEW c
    PROVE  LET s == [r EXCEPT !.creds = @ \ {c}]
           IN /\ StreamOK(s)
              /\ s.network = r.network /\ s.pipeline = r.pipeline /\ s.handshake = r.handshake
              /\ s.call = r.call /\ (IsOpen(s) <=> IsOpen(r))
  <1> DEFINE s == [r EXCEPT !.creds = @ \ {c}]
  <1>1. r \in Remotes
    BY DEF StreamOK
  <1>2. s \in Remotes
    BY <1>1 DEF Remotes
  <1>3. /\ s.network = r.network /\ s.pipeline = r.pipeline /\ s.state = r.state
        /\ s.handshake = r.handshake /\ s.closeCount = r.closeCount /\ s.creds = r.creds \ {c}
        /\ s.timers = r.timers /\ s.call = r.call
    BY <1>1 DEF Remotes
  <1> HIDE DEF s
  <1>4. StreamOK(s)
    BY <1>2, <1>3 DEF StreamOK, IsStarted, IsOpen, Sending, CallOK, Asked
  <1> QED BY <1>3, <1>4 DEF IsOpen, s

LEMMA ResumeStartWithCredentialsOK ==
    ASSUME WritesInv, NEW c \in remote.creds, ResumeStartWithCredentials(c)
    PROVE  WritesInv'
  <1>1. CASE c # remote.closeCount
    <2>1. remote' = [remote EXCEPT !.creds = @ \ {c}]
      BY <1>1 DEF ResumeStartWithCredentials
    <2>2. /\ StreamOK(remote')
          /\ remote'.network = remote.network /\ remote'.pipeline = remote.pipeline
          /\ remote'.handshake = remote.handshake
          /\ remote'.call = remote.call /\ (IsOpen(remote') <=> IsOpen(remote))
      BY <2>1, InvFacts, DropCredentials
    <2>3. RemoteOK(remote', mq[user]) /\ Known(remote'.call.resp, log)
      BY <2>2, InvFacts DEF RemoteOK, Filled
    <2> QED BY <2>3, StreamStep, InvFacts DEF ResumeStartWithCredentials
  <1>2. CASE c = remote.closeCount
    <2> DEFINE o == [remote EXCEPT !.creds = @ \ {c}, !.state = "Open", !.call = NewCall]
               t == SendAll(o, <<Handshake>>)
               s == [t EXCEPT !.timers = @ \cup {"health"}]
    <2>1. remote' = s
      BY <1>2 DEF ResumeStartWithCredentials
    <2>2. /\ remote \in Remotes /\ remote.state = "Starting" /\ ~remote.handshake
          /\ remote.network /\ remote.pipeline # <<>> /\ "idle" \notin remote.timers
          /\ "backoff" \notin remote.timers /\ remote.creds \subseteq 0..remote.closeCount
      BY <1>2, InvFacts DEF StreamOK, IsOpen, IsStarted, Sending
    <2>3. /\ NewCall \in Calls /\ NewCall.resp = <<>> /\ NewCall.status = "running"
          /\ NewCall.wire = <<>> /\ NewCall.buffer = <<>> /\ ~NewCall.finished
      <3>1. /\ NoCall \in Calls /\ NoCall.resp = <<>> /\ NoCall.wire = <<>>
            /\ NoCall.buffer = <<>> /\ ~NoCall.finished
        BY DEF NoCall, Calls
      <3> QED BY <3>1 DEF NewCall, Calls
    <2>4. /\ o \in Remotes
          /\ o.network = remote.network /\ o.pipeline = remote.pipeline /\ o.state = "Open"
          /\ o.handshake = remote.handshake /\ o.closeCount = remote.closeCount
          /\ o.creds = remote.creds \ {c}
          /\ o.timers = remote.timers /\ o.call = NewCall
      BY <2>2, <2>3 DEF Remotes, States
    <2> HIDE DEF o
    <2>5. <<Handshake>> \in Seq(Nat) /\ <<Handshake>> # <<>>
      BY DEF Handshake
    <2>6. o \in Remotes
      BY <2>4
    <2>7. /\ t \in Remotes
          /\ t.network = o.network /\ t.pipeline = o.pipeline /\ t.state = o.state
          /\ t.handshake = o.handshake /\ t.closeCount = o.closeCount /\ t.creds = o.creds
          /\ t.timers \subseteq o.timers
          /\ t.call.resp = o.call.resp /\ t.call.status = o.call.status
          /\ t.call.wire \o t.call.buffer = o.call.wire \o o.call.buffer \o <<Handshake>>
      BY <2>5, <2>6, SendAllFacts
    <2> HIDE DEF t
    <2>8. /\ s \in Remotes
          /\ s.network /\ s.pipeline = remote.pipeline /\ s.state = "Open"
          /\ s.handshake = FALSE /\ s.closeCount = remote.closeCount /\ s.creds = remote.creds \ {c}
          /\ s.timers \subseteq remote.timers \cup {"health"}
          /\ s.call = t.call
      BY <2>2, <2>4, <2>7 DEF Remotes, Timers
    <2>9. s.call.resp = <<>> /\ s.call.status = "running"
      BY <2>3, <2>4, <2>7, <2>8
    <2>10. s.call.resp \o s.call.wire \o s.call.buffer = <<Handshake>>
      <3>1. s.call.wire \in Seq(Nat) /\ s.call.buffer \in Seq(Nat)
        BY <2>8 DEF Remotes, Calls
      <3>2. <<>> \o s.call.wire = s.call.wire
        BY <3>1
      <3>3. <<>> \o <<>> \o <<Handshake>> = <<Handshake>>
        BY <2>5
      <3>4. s.call.wire \o s.call.buffer = <<>> \o <<>> \o <<Handshake>>
        BY <2>3, <2>4, <2>7, <2>8
      <3> QED BY <2>9, <3>2, <3>3, <3>4
    <2> HIDE DEF s
    <2>11. CallOK(s)
      <3>1. Asked(s) = <<Handshake>>
        BY <2>8 DEF Asked
      <3>2. Begins(<<>>, <<Handshake>>)
        BY DEF Begins
      <3> QED BY <2>8, <2>9, <2>10, <3>1, <3>2 DEF CallOK
    <2>12. StreamOK(s)
      BY <1>2, <2>2, <2>8, <2>9, <2>11 DEF StreamOK, IsOpen, IsStarted, Sending
    <2>13. RemoteOK(s, mq[user])
      BY <2>2, <2>8, <2>12, InvFacts DEF RemoteOK, Filled
    <2>14. Known(s.call.resp, log)
      BY <2>9, KnownNothing
    <2> QED BY <2>1, <2>13, <2>14, StreamStep, InvFacts DEF ResumeStartWithCredentials
  <1> QED BY <1>1, <1>2

LEMMA CredentialsFailOK ==
    ASSUME WritesInv, NEW c \in remote.creds, CredentialsFail(c)
    PROVE  WritesInv'
  <1> DEFINE r == [remote EXCEPT !.creds = @ \ {c}]
  <1>1. remote' = [Restarted(Closed(r, FALSE)) EXCEPT !.handshake = FALSE]
    BY DEF CredentialsFail
  <1>2. StreamOK(r) /\ r.network = remote.network /\ r.pipeline = remote.pipeline
    BY InvFacts, DropCredentials
  <1> HIDE DEF r
  <1>3. Filled(r, mq[user])
    BY <1>2, InvFacts DEF Filled
  <1>4. RemoteOK(remote', mq[user]) /\ remote'.call.resp = <<>>
    BY <1>1, <1>2, <1>3, ClosedAndRestarted
  <1>5. Known(remote'.call.resp, log)
    BY <1>4, KnownNothing
  <1> QED BY <1>4, <1>5, StreamStep, InvFacts DEF CredentialsFail

\* A change of state and timers within an open or closed stream.
LEMMA HealthCheckOK ==
    ASSUME WritesInv, HealthCheck
    PROVE  WritesInv'
  <1> DEFINE r == IF IsOpen(remote) THEN [remote EXCEPT !.state = "Healthy"] ELSE remote
             s == [r EXCEPT !.timers = @ \ {"health"}]
  <1>1. remote' = s
    BY DEF HealthCheck, Timer
  <1>2. /\ r \in Remotes
        /\ r.network = remote.network /\ r.pipeline = remote.pipeline
        /\ r.state = (IF IsOpen(remote) THEN "Healthy" ELSE remote.state)
        /\ r.handshake = remote.handshake /\ r.closeCount = remote.closeCount
        /\ r.creds = remote.creds /\ r.timers = remote.timers /\ r.call = remote.call
    BY InvFacts DEF Remotes, States
  <1> HIDE DEF r
  <1>3. /\ s \in Remotes
        /\ s.network = remote.network /\ s.pipeline = remote.pipeline
        /\ s.state = (IF IsOpen(remote) THEN "Healthy" ELSE remote.state)
        /\ s.handshake = remote.handshake /\ s.closeCount = remote.closeCount
        /\ s.creds = remote.creds /\ s.timers = remote.timers \ {"health"} /\ s.call = remote.call
    BY <1>2 DEF Remotes
  <1> HIDE DEF s
  <1>4. (IsOpen(s) <=> IsOpen(remote)) /\ (IsStarted(s) <=> IsStarted(remote))
    BY <1>3 DEF IsOpen, IsStarted
  <1>5. CallOK(remote) => CallOK(s)
    BY <1>3 DEF CallOK, Asked
  <1>6. /\ "backoff" \in s.timers <=> s.state = "Backoff"
        /\ s.state = "Starting" <=> remote.state = "Starting"
    BY <1>3, InvFacts DEF StreamOK, IsOpen
  <1>7. StreamOK(s)
    BY <1>3, <1>4, <1>5, <1>6, InvFacts DEF StreamOK, Sending
  <1>8. RemoteOK(s, mq[user]) /\ Known(s.call.resp, log)
    BY <1>3, <1>4, <1>7, InvFacts DEF RemoteOK, Filled
  <1> QED BY <1>1, <1>8, StreamStep, InvFacts DEF HealthCheck, Timer

LEMMA BackoffElapsedOK ==
    ASSUME WritesInv, BackoffElapsed
    PROVE  WritesInv'
  <1> DEFINE i == [remote EXCEPT !.state = "Initial"]
             s == [Start(i) EXCEPT !.timers = @ \ {"backoff"}]
  <1>1. remote' = s /\ "backoff" \in remote.timers
    BY DEF BackoffElapsed, Timer
  <1>2. /\ remote \in Remotes /\ remote.state = "Backoff" /\ ~IsOpen(remote) /\ remote.network
        /\ remote.pipeline # <<>> /\ "idle" \notin remote.timers /\ ~remote.handshake
        /\ remote.closeCount \in Nat /\ remote.creds \subseteq 0..remote.closeCount
        /\ remote.call = NoCall
    BY <1>1, InvFacts DEF StreamOK, IsStarted, IsOpen, Sending, Remotes
  <1>3. Start(i) = [remote EXCEPT !.state = "Starting", !.creds = @ \cup {remote.closeCount}]
    BY <1>2 DEF Start, RequestCredentials, Remotes
  <1> DEFINE t == Start(i)
  <1>c. remote.creds \cup {remote.closeCount} \in SUBSET Nat /\ "Starting" \in States
    BY <1>2 DEF Remotes, States
  <1>d. t = [remote EXCEPT !.state = "Starting", !.creds = @ \cup {remote.closeCount}]
    BY <1>3
  <1> HIDE DEF t
  <1>a. /\ t \in Remotes
        /\ t.network = remote.network /\ t.pipeline = remote.pipeline /\ t.state = "Starting"
        /\ t.handshake = remote.handshake /\ t.closeCount = remote.closeCount
        /\ t.creds = remote.creds \cup {remote.closeCount}
        /\ t.timers = remote.timers /\ t.call = remote.call
    BY <1>2, <1>c, <1>d DEF Remotes
  <1>b. s = [t EXCEPT !.timers = @ \ {"backoff"}]
    BY DEF t
  <1>4. /\ s \in Remotes
        /\ s.network = remote.network /\ s.pipeline = remote.pipeline /\ s.state = "Starting"
        /\ s.handshake = remote.handshake /\ s.closeCount = remote.closeCount
        /\ s.creds = remote.creds \cup {remote.closeCount}
        /\ s.timers = remote.timers \ {"backoff"} /\ s.call = remote.call
    BY <1>a, <1>b DEF Remotes
  <1> HIDE DEF s
  <1>5. s.creds \subseteq 0..s.closeCount
    BY <1>2, <1>4
  <1>6. StreamOK(s)
    BY <1>2, <1>4, <1>5 DEF StreamOK, IsStarted, IsOpen, Sending
  <1>7. RemoteOK(s, mq[user]) /\ Known(s.call.resp, log)
    BY <1>2, <1>4, <1>6, InvFacts DEF RemoteOK, Filled
  <1> QED BY <1>1, <1>7, StreamStep, InvFacts DEF BackoffElapsed, Timer

LEMMA IdleTimeoutOK ==
    ASSUME WritesInv, IdleTimeout
    PROVE  WritesInv'
  <1> DEFINE c == Closed(remote, TRUE)
             h == [c EXCEPT !.handshake = FALSE]
             s == [h EXCEPT !.timers = @ \ {"idle"}]
  <1>1. IsStarted(remote)
    BY InvFacts DEF IdleTimeout, Timer, StreamOK, Sending, IsStarted
  <1>2. remote' = s
    BY <1>1 DEF IdleTimeout, Timer, Stop
  <1>3. StreamOK(c) /\ c.network = remote.network /\ c.pipeline = remote.pipeline /\ c.state = "Initial"
    BY InvFacts, ClosedOK
  <1> HIDE DEF c
  <1>4. ~IsOpen(c)
    BY <1>3 DEF IsOpen
  <1>5. /\ StreamOK(h) /\ ~h.handshake /\ h.network = remote.network
        /\ h.pipeline = remote.pipeline /\ h.call = NoCall /\ h.state = "Initial"
    BY <1>3, <1>4, NoHandshakeOK
  <1> HIDE DEF h
  <1>6. h \in Remotes
    BY <1>5 DEF StreamOK
  <1>7. /\ s \in Remotes
        /\ s.network = h.network /\ s.pipeline = h.pipeline /\ s.state = h.state
        /\ s.handshake = h.handshake /\ s.closeCount = h.closeCount
        /\ s.creds = h.creds /\ s.timers = h.timers \ {"idle"} /\ s.call = h.call
    BY <1>6 DEF Remotes
  <1> HIDE DEF s
  <1>8. StreamOK(s)
    BY <1>5, <1>7 DEF StreamOK, IsStarted, IsOpen, Sending
  <1>9. RemoteOK(s, mq[user]) /\ s.call.resp = <<>>
    BY <1>5, <1>7, <1>8, InvFacts DEF RemoteOK, Filled, NoCall
  <1>10. Known(s.call.resp, log)
    BY <1>9, KnownNothing
  <1> QED BY <1>2, <1>9, <1>10, StreamStep, InvFacts DEF IdleTimeout, Timer

\* A call with a response, or one that has ended, belongs to an open stream.
LEMMA LiveCall ==
    ASSUME WritesInv, remote.call.resp # <<>> \/ remote.call.status # "none" \/ remote.call.finished
    PROVE  /\ IsOpen(remote) /\ CallOK(remote) /\ remote.network
           /\ remote.call.resp \in Seq(Nat) /\ remote.call.wire \in Seq(Nat)
           /\ remote.call.buffer \in Seq(Nat)
  <1>1. NoCall.resp = <<>> /\ NoCall.status = "none" /\ ~NoCall.finished
    BY DEF NoCall
  <1>2. IsOpen(remote)
    BY <1>1, InvFacts DEF StreamOK
  <1> QED BY <1>2, InvFacts DEF StreamOK, IsStarted, Calls

LEMMA OnWriteStreamHandshakeCompleteOK ==
    ASSUME WritesInv, OnWriteStreamHandshakeComplete
    PROVE  WritesInv'
  <1> DEFINE c == remote.call
             o == [remote EXCEPT !.handshake = TRUE, !.call.resp = Tail(@)]
             ops == Ops(remote.pipeline)
             s == SendAll(o, ops)
  <1>1. remote' = s /\ c.resp # <<>> /\ ~remote.handshake
    BY DEF OnWriteStreamHandshakeComplete, Reading
  <1>2. /\ IsOpen(remote) /\ CallOK(remote) /\ remote.network
        /\ c.resp \in Seq(Nat) /\ c.wire \in Seq(Nat) /\ c.buffer \in Seq(Nat)
    BY <1>1, LiveCall
  <1>3. remote \in Remotes /\ remote.pipeline \in Seq(Batches) /\ c \in Calls /\ remote.pipeline # <<>>
    BY <1>1, <1>2, InvFacts DEF StreamOK, IsStarted, Sending
  <1>4. ops \in Seq(Nat) /\ ops # <<>>
    BY <1>3, OpsFacts
  <1>5. Asked(remote) = <<Handshake>> /\ Len(Asked(remote)) = 1
    BY <1>1 DEF Asked
  <1>6. Len(c.resp) = 1
    BY <1>1, <1>2, <1>5 DEF CallOK, Begins
  <1>7. Tail(c.resp) = <<>> /\ Tail(c.resp) \in Seq(Nat)
    <2>1. Tail(c.resp) \in Seq(Nat) /\ Len(Tail(c.resp)) = Len(c.resp) - 1
      BY <1>1, <1>2, HeadTailProperties
    <2>2. Len(Tail(c.resp)) = 0
      BY <1>6, <2>1
    <2> QED BY <2>1, <2>2, EmptySeq
  <1>8. /\ o \in Remotes
        /\ o.network = remote.network /\ o.pipeline = remote.pipeline /\ o.state = remote.state
        /\ o.handshake = TRUE /\ o.closeCount = remote.closeCount /\ o.creds = remote.creds
        /\ o.timers = remote.timers /\ o.call.resp = <<>> /\ o.call.wire = c.wire
        /\ o.call.buffer = c.buffer /\ o.call.status = c.status
    BY <1>3, <1>7 DEF Remotes, Calls
  <1> HIDE DEF o, ops
  <1>9. o \in Remotes /\ ops \in Seq(Nat)
    BY <1>4, <1>8
  <1>10. /\ s \in Remotes
         /\ s.network = o.network /\ s.pipeline = o.pipeline /\ s.state = o.state
         /\ s.handshake = o.handshake /\ s.closeCount = o.closeCount /\ s.creds = o.creds
         /\ s.timers \subseteq o.timers /\ o.timers \subseteq s.timers \cup {"idle"}
         /\ ops # <<>> => "idle" \notin s.timers
         /\ s.call.resp = o.call.resp /\ s.call.status = o.call.status
         /\ s.call.wire \o s.call.buffer = o.call.wire \o o.call.buffer \o ops
    BY <1>9, SendAllFacts
  <1> HIDE DEF s, c
  <1>11. Asked(s) = ops
    BY <1>8, <1>10 DEF Asked, ops
  <1>12. ASSUME s.call.status = "running"
         PROVE  s.call.resp \o s.call.wire \o s.call.buffer = ops
    <2>1. c.resp \o c.wire \o c.buffer = <<Handshake>>
      BY <1>2, <1>5, <1>8, <1>10, <1>12 DEF CallOK, c
    <2>2. Len(c.resp \o c.wire \o c.buffer) = Len(c.resp) + Len(c.wire) + Len(c.buffer)
      BY <1>2
    <2>3. c.wire = <<>> /\ c.buffer = <<>>
      <3>1. Len(<<Handshake>>) = 1
        OBVIOUS
      <3>2. Len(c.wire) = 0 /\ Len(c.buffer) = 0
        <4>1. Len(c.wire) \in Nat /\ Len(c.buffer) \in Nat
          BY <1>2
        <4>2. 1 = 1 + Len(c.wire) + Len(c.buffer)
          BY <1>6, <2>1, <2>2, <3>1
        <4> DEFINE m == Len(c.wire)
                   n == Len(c.buffer)
        <4>3. m \in Nat /\ n \in Nat /\ 1 = 1 + m + n
          BY <4>1, <4>2
        <4> HIDE DEF m, n
        <4>4. m = 0 /\ n = 0
          BY <4>3
        <4> QED BY <4>4 DEF m, n
      <3> QED BY <1>2, <3>2
    <2>4. <<>> \o <<>> \o ops = ops
      BY <1>4
    <2>5. s.call.wire \o s.call.buffer = ops
      BY <1>8, <1>10, <2>3, <2>4
    <2>6. s.call.wire \in Seq(Nat) /\ s.call.buffer \in Seq(Nat)
      BY <1>10 DEF Remotes, Calls
    <2>7. <<>> \o s.call.wire = s.call.wire
      BY <2>6
    <2> QED BY <1>8, <1>10, <2>5, <2>7
  <1>13. s.call.status # "denied" /\ s.call.status # "none"
    BY <1>1, <1>2, <1>8, <1>10, InvFacts DEF CallOK, StreamOK, c
  <1>14. Begins(<<>>, ops)
    BY <1>4 DEF Begins
  <1>15. CallOK(s)
    BY <1>8, <1>10, <1>11, <1>12, <1>13, <1>14 DEF CallOK
  <1>16. StreamOK(s)
    BY <1>2, <1>4, <1>8, <1>10, <1>13, <1>15, InvFacts DEF StreamOK, IsOpen, IsStarted, Sending
  <1>17. RemoteOK(s, mq[user])
    BY <1>2, <1>8, <1>10, <1>16, InvFacts DEF RemoteOK, Filled, IsOpen
  <1>18. Known(s.call.resp, log)
    BY <1>8, <1>10, KnownNothing
  <1> QED BY <1>1, <1>17, <1>18, StreamStep, InvFacts DEF OnWriteStreamHandshakeComplete

\* A change within the call of an open stream.
LEMMA CallStep ==
    ASSUME WritesInv, UNCHANGED <<user, mq, nextId, callbacks, waiters, issued, told>>,
           IsOpen(remote), NEW call \in Calls, remote' = [remote EXCEPT !.call = call],
           call.status # "none", Begins(call.resp, Asked(remote)),
           call.status = "running" => call.resp \o call.wire \o call.buffer = Asked(remote),
           call.status = "denied" =>
             IF remote.handshake
             THEN /\ Len(call.resp) < Len(remote.pipeline)
                  /\ remote.pipeline[Len(call.resp) + 1].w \in Bad
             ELSE call.resp = <<>>,
           log' \in Seq(Nat), Known(call.resp, log')
    PROVE  WritesInv'
  <1> DEFINE s == [remote EXCEPT !.call = call]
  <1>1. /\ s \in Remotes
        /\ s.network = remote.network /\ s.pipeline = remote.pipeline /\ s.state = remote.state
        /\ s.handshake = remote.handshake /\ s.closeCount = remote.closeCount
        /\ s.creds = remote.creds /\ s.timers = remote.timers /\ s.call = call
    BY InvFacts DEF Remotes
  <1> HIDE DEF s
  <1>2. Asked(s) = Asked(remote)
    BY <1>1 DEF Asked
  <1>3. CallOK(s)
    BY <1>1, <1>2 DEF CallOK
  <1>4. StreamOK(s)
    BY <1>1, <1>3, InvFacts DEF StreamOK, IsOpen, IsStarted, Sending
  <1>5. RemoteOK(s, mq[user])
    BY <1>1, <1>4, InvFacts DEF RemoteOK, Filled, IsOpen
  <1>6. remote' = s
    BY DEF s
  <1> QED BY <1>1, <1>5, <1>6, StreamStep

LEMMA OnWriteOK ==
    ASSUME WritesInv, OnWrite
    PROVE  WritesInv'
  <1> DEFINE c == remote.call
             a == [c EXCEPT !.active = FALSE]
             e == EnqueueWrites(a, <<>>)
  <1>1. remote' = [remote EXCEPT !.call = e] /\ c.active
    BY DEF OnWrite, DequeueNextWrite
  <1>2. IsOpen(remote) /\ CallOK(remote) /\ c.status # "none"
    BY <1>1, InvFacts DEF StreamOK, NoCall
  <1>3. /\ c \in Calls /\ c.resp \in Seq(Nat) /\ c.wire \in Seq(Nat) /\ c.buffer \in Seq(Nat)
    BY InvFacts DEF Calls
  <1>4. /\ a \in Calls /\ a.resp = c.resp /\ a.status = c.status /\ a.wire = c.wire
        /\ a.buffer = c.buffer
    BY <1>3 DEF Calls
  <1>5. <<>> \in Seq(Nat)
    OBVIOUS
  <1> HIDE DEF a
  <1>6. /\ e \in Calls /\ e.resp = a.resp /\ e.status = a.status
        /\ e.wire \o e.buffer = a.wire \o a.buffer \o <<>>
    BY <1>4, <1>5, EnqueueWritesFacts
  <1> HIDE DEF e
  <1>7. c.wire \o c.buffer \o <<>> = c.wire \o c.buffer
    BY <1>3
  <1>8. e.resp \o e.wire \o e.buffer = c.resp \o c.wire \o c.buffer
    <2>1. e.wire \in Seq(Nat) /\ e.buffer \in Seq(Nat)
      BY <1>6 DEF Calls
    <2>2. (c.resp \o e.wire) \o e.buffer = c.resp \o (e.wire \o e.buffer)
      BY <1>3, <2>1, NatConcatAssoc, ZenonT(40)
    <2>3. (c.resp \o c.wire) \o c.buffer = c.resp \o (c.wire \o c.buffer)
      BY <1>3, NatConcatAssoc, Zenon
    <2> QED BY <1>4, <1>6, <1>7, <2>2, <2>3, Zenon
  <1>9. UNCHANGED <<user, mq, nextId, callbacks, waiters, issued, told, log>>
    BY DEF OnWrite
  <1>10. log' \in Seq(Nat) /\ Known(e.resp, log')
    BY <1>4, <1>6, <1>9, InvFacts
  <1>11. /\ e.status = "running" => e.resp \o e.wire \o e.buffer = Asked(remote)
         /\ Begins(e.resp, Asked(remote))
    BY <1>2, <1>4, <1>6, <1>8 DEF CallOK
  <1>12. e.status = "denied" =>
             IF remote.handshake
             THEN /\ Len(e.resp) < Len(remote.pipeline)
                  /\ remote.pipeline[Len(e.resp) + 1].w \in Bad
             ELSE e.resp = <<>>
    BY <1>2, <1>4, <1>6 DEF CallOK
  <1>13. e \in Calls /\ e.status # "none"
    BY <1>2, <1>4, <1>6
  <1> QED BY <1>1, <1>2, <1>9, <1>10, <1>11, <1>12, <1>13, CallStep

LEMMA OnOperationFailedOK ==
    ASSUME WritesInv, OnOperationFailed
    PROVE  WritesInv'
  <1> DEFINE c == remote.call
             e == [c EXCEPT !.finished = TRUE]
  <1>1. remote' = [remote EXCEPT !.call = e] /\ c.status # "none"
    BY InvFacts DEF OnOperationFailed, Remotes
  <1>2. IsOpen(remote) /\ CallOK(remote)
    BY <1>1, LiveCall
  <1>3. /\ e \in Calls /\ e.resp = c.resp /\ e.wire = c.wire /\ e.buffer = c.buffer
        /\ e.status = c.status
    BY InvFacts DEF Calls
  <1>4. UNCHANGED <<user, mq, nextId, callbacks, waiters, issued, told, log>>
    BY DEF OnOperationFailed
  <1> HIDE DEF e
  <1>5. log' \in Seq(Nat) /\ Known(e.resp, log')
    BY <1>3, <1>4, InvFacts
  <1>6. /\ e.status = "running" => e.resp \o e.wire \o e.buffer = Asked(remote)
        /\ Begins(e.resp, Asked(remote))
    BY <1>2, <1>3 DEF CallOK
  <1>7. e.status = "denied" =>
             IF remote.handshake
             THEN /\ Len(e.resp) < Len(remote.pipeline)
                  /\ remote.pipeline[Len(e.resp) + 1].w \in Bad
             ELSE e.resp = <<>>
    BY <1>2, <1>3 DEF CallOK
  <1> QED BY <1>1, <1>2, <1>3, <1>4, <1>5, <1>6, <1>7, CallStep

LEMMA BreakOK ==
    ASSUME WritesInv, Break
    PROVE  WritesInv'
  <1> DEFINE c == remote.call
  <1>1. PICK status \in {"unavailable", "aborted"} \cup (IF remote.handshake THEN {} ELSE {"denied"}),
             k \in 0..Len(c.resp) :
               /\ status = "denied" => c.resp = <<>>
               /\ remote' = [remote EXCEPT !.call.status = status, !.call.resp = SubSeq(@, 1, k)]
    BY DEF Break
  <1>2. /\ IsOpen(remote) /\ CallOK(remote) /\ c.resp \in Seq(Nat)
    BY LiveCall DEF Break
  <1> DEFINE sub == SubSeq(c.resp, 1, k)
             e == [c EXCEPT !.status = status, !.resp = sub]
  <1>3. remote' = [remote EXCEPT !.call = e]
    BY <1>1, InvFacts DEF Remotes, Calls
  <1>4. /\ 0 \in 0..Len(c.resp) /\ k \in 0..Len(c.resp) /\ 0 + 1 = 1 /\ k - 0 = k
        /\ Len(c.resp) \in Nat /\ k \in Nat /\ k <= Len(c.resp)
    BY <1>1, <1>2
  <1>5. sub \in Seq(Nat) /\ Len(sub) = k /\ \A i \in 1..k : sub[i] = c.resp[i]
    BY <1>2, <1>4
  <1> HIDE DEF sub
  <1>6. status \in {"unavailable", "aborted", "denied"} /\ (remote.handshake => status # "denied")
    BY <1>1
  <1>7. e \in Calls /\ e.resp = sub /\ e.status = status
    BY <1>5, <1>6, InvFacts DEF Calls
  <1> HIDE DEF e
  <1>8. Begins(sub, Asked(remote))
    <2>1. Begins(c.resp, Asked(remote))
      BY <1>2 DEF CallOK
    <2>2. Len(Asked(remote)) \in Nat
      BY InvFacts, OpsFacts DEF Asked
    <2>3. \A i \in 1..k : i \in 1..Len(c.resp)
      BY <1>4
    <2> QED BY <1>4, <1>5, <2>1, <2>2, <2>3 DEF Begins
  <1>9. Known(sub, log)
    <2>1. \A i \in 1..k : i \in 1..Len(c.resp)
      BY <1>4
    <2> QED BY <1>5, <2>1, InvFacts DEF Known
  <1>10. status = "denied" => sub = <<>>
    <2>1. ASSUME status = "denied" PROVE sub = <<>>
      <3>1. Len(c.resp) = 0
        BY <1>1, <2>1
      <3>2. Len(sub) = 0
        BY <1>4, <1>5, <3>1
      <3> QED BY <1>5, <3>2, EmptySeq
    <2> QED BY <2>1
  <1>11. UNCHANGED <<user, mq, nextId, callbacks, waiters, issued, told, log>>
    BY DEF Break
  <1>12. log' \in Seq(Nat) /\ Known(e.resp, log')
    BY <1>7, <1>9, <1>11, InvFacts
  <1> QED BY <1>2, <1>3, <1>6, <1>7, <1>8, <1>10, <1>11, <1>12, CallStep

\* The server takes the oldest request that it has not handled: after the
\* responses not yet read it is the next one the pipeline waits for.
LEMMA ServeFacts ==
    ASSUME WritesInv, remote.call.status = "running", remote.call.wire # <<>>
    PROVE  LET c == remote.call
               w == Head(c.wire)
           IN /\ IsOpen(remote) /\ w \in Nat
              /\ Tail(c.wire) \in Seq(Nat) /\ Append(c.resp, w) \in Seq(Nat)
              /\ Append(c.resp, w) \o Tail(c.wire) \o c.buffer = Asked(remote)
              /\ Begins(c.resp, Asked(remote)) /\ Begins(Append(c.resp, w), Asked(remote))
              /\ remote.handshake => /\ Len(c.resp) < Len(remote.pipeline)
                                     /\ remote.pipeline[Len(c.resp) + 1].w = w
              /\ ~remote.handshake => c.resp = <<>> /\ w = Handshake
  <1> DEFINE c == remote.call
             w == Head(c.wire)
             a == Asked(remote)
             ap == Append(c.resp, w)
  <1>1. /\ IsOpen(remote) /\ CallOK(remote)
        /\ c.resp \in Seq(Nat) /\ c.wire \in Seq(Nat) /\ c.buffer \in Seq(Nat)
    BY LiveCall
  <1>2. c.resp \o c.wire \o c.buffer = a /\ Begins(c.resp, a)
    BY <1>1 DEF CallOK
  <1>3. w \in Nat /\ Tail(c.wire) \in Seq(Nat)
    BY <1>1
  <1>4. ap \in Seq(Nat) /\ Len(ap) = Len(c.resp) + 1 /\ ap[Len(c.resp) + 1] = w
        /\ \A i \in 1..Len(c.resp) : ap[i] = c.resp[i]
    BY <1>1, <1>3, AppendProperties
  <1>5. /\ a \in Seq(Nat) /\ Len(c.resp) < Len(a) /\ a[Len(c.resp) + 1] = w
        /\ ap \o Tail(c.wire) \o c.buffer = a
        /\ \A i \in 1..Len(c.resp) : a[i] = c.resp[i]
    <2> HIDE DEF c, a
    <2>1. c.resp \in Seq(Nat) /\ c.wire \in Seq(Nat) /\ c.buffer \in Seq(Nat) /\ c.wire # <<>>
      BY <1>1 DEF c
    <2> DEFINE b == c.resp \o c.wire \o c.buffer
    <2>2. /\ b \in Seq(Nat) /\ Len(c.resp) < Len(b) /\ b[Len(c.resp) + 1] = Head(c.wire)
          /\ Append(c.resp, Head(c.wire)) \o Tail(c.wire) \o c.buffer = b
          /\ \A i \in 1..Len(c.resp) : b[i] = c.resp[i]
      BY <2>1, FirstRequest, ZenonT(40)
    <2>3. b = a
      BY <1>2
    <2> HIDE DEF b
    <2> QED BY <2>2, <2>3, Zenon
  <1>6. Len(c.resp) \in Nat /\ Len(a) \in Nat
    BY <1>1, <1>5
  <1>7. Begins(ap, a)
    <2>1. Len(ap) <= Len(a)
      BY <1>4, <1>5, <1>6
    <2>2. ASSUME NEW i \in 1..Len(ap) PROVE ap[i] = a[i]
      <3>1. i \in 1..Len(c.resp) \/ i = Len(c.resp) + 1
        BY <1>4, <1>6, SMTT(30)
      <3> QED BY <1>4, <1>5, <3>1
    <2> QED BY <2>1, <2>2 DEF Begins
  <1>8. ASSUME remote.handshake
        PROVE  Len(c.resp) < Len(remote.pipeline) /\ remote.pipeline[Len(c.resp) + 1].w = w
    <2>1. a = Ops(remote.pipeline)
      BY <1>8 DEF Asked
    <2>2. /\ Len(a) = Len(remote.pipeline)
          /\ \A i \in 1..Len(remote.pipeline) : a[i] = remote.pipeline[i].w
      BY <2>1, InvFacts, OpsFacts
    <2>3. Len(c.resp) + 1 \in 1..Len(remote.pipeline)
      BY <1>5, <1>6, <2>2
    <2> QED BY <1>5, <2>2, <2>3
  <1>9. ASSUME ~remote.handshake
        PROVE  c.resp = <<>> /\ w = Handshake
    <2>1. a = <<Handshake>> /\ Len(a) = 1 /\ a[1] = Handshake
      BY <1>9 DEF Asked
    <2>2. Len(c.resp) = 0
      BY <1>5, <1>6, <2>1
    <2>3. c.resp = <<>>
      BY <1>1, <2>2, EmptySeq
    <2>4. a[1] = w
      <3>1. Len(c.resp) + 1 = 1
        BY <2>2
      <3> QED BY <1>5, <3>1
    <2> QED BY <2>1, <2>3, <2>4
  <1> QED BY <1>1, <1>2, <1>3, <1>4, <1>5, <1>7, <1>8, <1>9

LEMMA ServeOK ==
    ASSUME WritesInv, Serve
    PROVE  WritesInv'
  <1> DEFINE c == remote.call
             w == Head(c.wire)
             tl == Tail(c.wire)
             ap == Append(c.resp, w)
  <1>1. c.status = "running" /\ c.wire # <<>> /\ UNCHANGED <<user, mq, nextId, callbacks, waiters, issued, told>>
    BY DEF Serve
  <1>2. /\ IsOpen(remote) /\ w \in Nat
        /\ tl \in Seq(Nat) /\ ap \in Seq(Nat)
        /\ ap \o tl \o c.buffer = Asked(remote)
        /\ Begins(c.resp, Asked(remote)) /\ Begins(ap, Asked(remote))
        /\ remote.handshake => /\ Len(c.resp) < Len(remote.pipeline)
                               /\ remote.pipeline[Len(c.resp) + 1].w = w
        /\ ~remote.handshake => c.resp = <<>> /\ w = Handshake
    BY <1>1, ServeFacts
  <1>3. c \in Calls /\ c.resp \in Seq(Nat)
    BY InvFacts DEF Calls
  <1>4. CASE w \in Bad
    <2> DEFINE e == [c EXCEPT !.wire = tl, !.status = "denied"]
    <2>1. remote' = [remote EXCEPT !.call = e] /\ log' = log
      BY <1>4, InvFacts DEF Serve, Remotes, Calls
    <2>2. e \in Calls /\ e.resp = c.resp /\ e.status = "denied"
      BY <1>2, <1>3 DEF Calls
    <2> HIDE DEF e
    <2>3. log' \in Seq(Nat) /\ Known(e.resp, log')
      BY <2>1, <2>2, InvFacts
    <2>4. /\ Begins(e.resp, Asked(remote))
          /\ IF remote.handshake
             THEN /\ Len(e.resp) < Len(remote.pipeline)
                  /\ remote.pipeline[Len(e.resp) + 1].w \in Bad
             ELSE e.resp = <<>>
      BY <1>2, <1>4, <2>2
    <2> QED BY <1>1, <1>2, <2>1, <2>2, <2>3, <2>4, CallStep
  <1>5. CASE w \notin Bad
    <2> DEFINE e == [c EXCEPT !.wire = tl, !.resp = ap]
    <2>1. /\ remote' = [remote EXCEPT !.call = e]
          /\ log' = IF w = Handshake THEN log ELSE Append(log, w)
      BY <1>5, InvFacts DEF Serve, Remotes, Calls
    <2>2. e \in Calls /\ e.resp = ap /\ e.status = "running" /\ e.wire = tl /\ e.buffer = c.buffer
      BY <1>1, <1>2, <1>3 DEF Calls
    <2> HIDE DEF e
    <2>3. log' \in Seq(Nat) /\ ToSet(log) \subseteq ToSet(log') /\ (w # Handshake => w \in ToSet(log'))
      <3>1. log \in Seq(Nat)
        BY InvFacts
      <3>2. CASE w = Handshake
        BY <2>1, <3>1, <3>2
      <3>3. CASE w # Handshake
        <4>1. log' = Append(log, w)
          BY <2>1, <3>3
        <4>2. /\ log' \in Seq(Nat) /\ Len(log') = Len(log) + 1 /\ log'[Len(log) + 1] = w
              /\ \A i \in 1..Len(log) : log'[i] = log[i]
          BY <1>2, <3>1, <4>1, AppendProperties
        <4>3. DOMAIN log = 1..Len(log) /\ DOMAIN log' = 1..(Len(log) + 1) /\ Len(log) \in Nat
          BY <3>1, <4>2
        <4>4. 1..Len(log) \subseteq DOMAIN log' /\ Len(log) + 1 \in DOMAIN log'
          BY <4>3
        <4> QED BY <4>2, <4>3, <4>4 DEF ToSet
      <3> QED BY <3>2, <3>3
    <2>4. Known(ap, log')
      <3>1. /\ Len(ap) = Len(c.resp) + 1 /\ ap[Len(c.resp) + 1] = w /\ Len(c.resp) \in Nat
            /\ \A i \in 1..Len(c.resp) : ap[i] = c.resp[i]
        BY <1>2, <1>3, AppendProperties
      <3>2. ASSUME NEW i \in 1..Len(ap) PROVE ap[i] = Handshake \/ ap[i] \in ToSet(log')
        <4>1. i \in 1..Len(c.resp) \/ i = Len(c.resp) + 1
          BY <3>1
        <4> QED BY <2>3, <3>1, <4>1, InvFacts DEF Known
      <3> QED BY <3>2 DEF Known
    <2>5. log' \in Seq(Nat) /\ Known(e.resp, log')
      BY <2>2, <2>3, <2>4
    <2>6. e.resp \o e.wire \o e.buffer = Asked(remote) /\ Begins(e.resp, Asked(remote))
      BY <1>2, <2>2
    <2> QED BY <1>1, <1>2, <2>1, <2>2, <2>5, <2>6, CallStep
  <1> QED BY <1>4, <1>5

-----------------------------------------------------------------------------
(* The actions that change the queues.                                     *)

\* The oldest write of the pipeline is the oldest of the queue.
LEMMA SameHead ==
    ASSUME WritesInv, remote.pipeline # <<>>
    PROVE  /\ mq[user] # <<>> /\ Head(remote.pipeline) = Head(mq[user])
           /\ Head(mq[user]) = mq[user][1] /\ 1 \in DOMAIN mq[user]
           /\ Begins(Tail(remote.pipeline), Tail(mq[user]))
           /\ Tail(remote.pipeline) \in Seq(Batches)
           /\ Len(Tail(remote.pipeline)) = Len(remote.pipeline) - 1
           /\ remote.network
  <1> DEFINE p == remote.pipeline
             q == mq[user]
  <1>1. /\ p \in Seq(Batches) /\ p # <<>> /\ q \in Seq(Batches) /\ Len(p) <= Len(q)
        /\ \A i \in 1..Len(p) : p[i] = q[i]
    BY InvFacts, QueueFacts DEF Begins
  <1>2. /\ Len(p) \in Nat \ {0} /\ Len(q) \in Nat /\ 1 \in 1..Len(p) /\ Head(p) = p[1]
        /\ DOMAIN q = 1..Len(q)
    BY <1>1
  <1>3. Len(q) # 0 /\ q # <<>>
    BY <1>1, <1>2
  <1>4. Head(q) = q[1] /\ Tail(p) \in Seq(Batches) /\ Tail(q) \in Seq(Batches)
    BY <1>1, <1>3
  <1>5. /\ Len(Tail(p)) = Len(p) - 1 /\ \A i \in 1..(Len(p) - 1) : Tail(p)[i] = p[i + 1]
    BY <1>1
  <1>6. /\ Len(Tail(q)) = Len(q) - 1 /\ \A i \in 1..(Len(q) - 1) : Tail(q)[i] = q[i + 1]
    BY <1>1, <1>3
  <1>7. ASSUME NEW i \in 1..(Len(p) - 1)
        PROVE  Tail(p)[i] = Tail(q)[i]
    <2>1. i \in 1..(Len(q) - 1) /\ i + 1 \in 1..Len(p)
      BY <1>1, <1>2
    <2> QED BY <1>1, <1>5, <1>6, <2>1
  <1>8. Begins(Tail(p), Tail(q))
    BY <1>1, <1>2, <1>5, <1>6, <1>7 DEF Begins
  <1>9. 1 \in DOMAIN q /\ Head(p) = Head(q)
    BY <1>1, <1>2, <1>4
  <1>10. remote.network
    BY InvFacts
  <1> QED BY <1>3, <1>4, <1>5, <1>8, <1>9, <1>10

\* The oldest write of the account is answered.
LEMMA HandledOK ==
    ASSUME WritesInv, mq[user] # <<>>, NEW ok \in BOOLEAN,
           Handled(Head(mq[user]), ok, remote'),
           RemoteOK(remote', Tail(mq[user])), Known(remote'.call.resp, log)
    PROVE  WritesInv' /\ mq' = [mq EXCEPT ![user] = Tail(@)]
  <1> DEFINE q == mq[user]
             b == Head(q)
  <1>1. /\ told' = NotifyUser(b, ok)
        /\ callbacks' = [callbacks EXCEPT ![user] = @ \ {b.id}]
        /\ waiters' = {x \in waiters : x.id # b.id}
        /\ mq' = [mq EXCEPT ![user] = RemoveMutationBatch(@, b.id)]
        /\ UNCHANGED <<user, nextId, issued, log, faults>>
    BY DEF Handled
  <1>2. /\ user \in Users /\ QueuesOK(mq, nextId, issued) /\ QueueOK(q)
        /\ callbacks \in [Users -> SUBSET Nat]
        /\ \A u \in Users : callbacks[u] \subseteq Ids(mq[u])
    BY InvFacts DEF WritesInv, DiskOK
  <1>3. mq' = [mq EXCEPT ![user] = Tail(@)]
    BY <1>1, <1>2, RemoveHead DEF QueuesOK
  <1>4. QueuesOK(mq', nextId, issued)
    BY <1>2, <1>3, QueueShorter
  <1>5. /\ QueueOK(Tail(q)) /\ Len(Tail(q)) = Len(q) - 1
        /\ \A i \in 1..(Len(q) - 1) : Tail(q)[i] = q[i + 1] /\ i + 1 \in 1..Len(q)
        /\ b = q[1] /\ 1 \in 1..Len(q) /\ DOMAIN Tail(q) = 1..(Len(q) - 1)
    BY <1>2, TailOK
  <1>6. /\ Len(q) \in Nat /\ DOMAIN q = 1..Len(q)
        /\ \A i \in 1..Len(q) : q[i].id \in Nat /\ q[i].w \in Nat
        /\ \A i, j \in 1..Len(q) : i < j => q[i].id < q[j].id /\ q[i].w < q[j].w
    BY <1>2, QueueFacts
  <1>7. mq'[user] = Tail(q) /\ \A u \in Users \ {user} : mq'[u] = mq[u]
    BY <1>2, <1>3 DEF QueuesOK
  <1>8. \A i \in 1..(Len(q) - 1) : Tail(q)[i].id # b.id /\ Tail(q)[i].w # b.w
    <2> TAKE i \in 1..(Len(q) - 1)
    <2>1. 1 < i + 1 /\ i + 1 \in 1..Len(q) /\ Tail(q)[i] = q[i + 1]
      BY <1>5, <1>6
    <2>2. q[1].id < q[i + 1].id /\ q[1].w < q[i + 1].w
      BY <1>5, <1>6, <2>1
    <2>3. q[1].id \in Nat /\ q[i + 1].id \in Nat /\ q[1].w \in Nat /\ q[i + 1].w \in Nat
      BY <1>5, <1>6, <2>1
    <2> QED BY <1>5, <2>1, <2>2, <2>3
  <1>9. \A k \in 1..Len(q) : q[k].id # b.id =>
           k - 1 \in 1..(Len(q) - 1) /\ Tail(q)[k - 1] = q[k]
    <2> TAKE k \in 1..Len(q)
    <2> HAVE q[k].id # b.id
    <2>1. k # 1 /\ k - 1 \in 1..(Len(q) - 1) /\ (k - 1) + 1 = k
      BY <1>5, <1>6
    <2> QED BY <1>5, <2>1
  <1>10. DiskOK'
    <2>1. callbacks' \in [Users -> SUBSET Nat]
      BY <1>1, <1>2
    <2>2. ASSUME NEW u \in Users
          PROVE  callbacks'[u] \subseteq Ids(mq'[u])
      <3>1. CASE u # user
        BY <1>1, <1>2, <1>7, <3>1
      <3>2. CASE u = user
        <4>1. callbacks'[u] = callbacks[user] \ {b.id} /\ mq'[u] = Tail(q)
          BY <1>1, <1>2, <1>7, <3>2
        <4>2. ASSUME NEW x \in callbacks[user], x # b.id
              PROVE  x \in Ids(Tail(q))
          <5>1. PICK k \in 1..Len(q) : x = q[k].id
            BY <1>2, <1>6 DEF Ids
          <5>2. k - 1 \in DOMAIN Tail(q) /\ Tail(q)[k - 1].id = x
            BY <1>5, <1>9, <4>2, <5>1
          <5> QED BY <5>2 DEF Ids
        <4> QED BY <4>1, <4>2
      <3> QED BY <3>1, <3>2
    <2> QED BY <1>1, <1>4, <2>1, <2>2 DEF DiskOK
  <1>11. AnswersOK'
    <2>1. /\ log \in Seq(Nat) /\ told \in Seq([w : Nat, ok : BOOLEAN])
          /\ \A j \in DOMAIN told : told[j].w <= issued
          /\ \A u \in Users : \A i \in DOMAIN mq[u] : mq[u][i].id \in callbacks[u] =>
                \A j \in DOMAIN told : told[j].w # mq[u][i].w
      BY DEF WritesInv, AnswersOK
    <2>2. \A u \in Users : \A i \in DOMAIN mq'[u] :
             /\ mq'[u][i].w # b.w
             /\ \E k \in DOMAIN mq[u] : mq'[u][i] = mq[u][k]
      <3> TAKE u \in Users
      <3> TAKE i \in DOMAIN mq'[u]
      <3>1. CASE u = user
        <4>1. mq'[u] = Tail(q) /\ i \in 1..(Len(q) - 1)
          BY <1>5, <1>7, <3>1
        <4>2. mq'[u][i] = mq[u][i + 1] /\ i + 1 \in DOMAIN mq[u]
          BY <1>5, <1>6, <3>1, <4>1
        <4> QED BY <1>8, <4>1, <4>2
      <3>2. CASE u # user
        <4>1. mq'[u] = mq[u]
          BY <1>7, <3>2
        <4>2. mq[u][i].w # mq[user][1].w
          BY <1>2, <1>5, <1>6, <3>2, <4>1 DEF QueuesOK
        <4> QED BY <1>5, <4>1, <4>2
      <3> QED BY <3>1, <3>2
    <2>3. b.w \in Nat /\ b.w <= issued
      BY <1>2, <1>5, <1>6 DEF QueuesOK
    <2>4. CASE b.id \in callbacks[user]
      <3> DEFINE a == [w |-> b.w, ok |-> ok]
      <3>1. told' = Append(told, a) /\ a \in [w : Nat, ok : BOOLEAN] /\ a.w = b.w
        BY <1>1, <2>3, <2>4 DEF NotifyUser
      <3> HIDE DEF a
      <3>2. /\ told' \in Seq([w : Nat, ok : BOOLEAN]) /\ Len(told') = Len(told) + 1
            /\ told'[Len(told) + 1] = a
            /\ \A i \in 1..Len(told) : told'[i] = told[i]
        BY <2>1, <3>1, AppendProperties
      <3>3. /\ Len(told) \in Nat /\ DOMAIN told = 1..Len(told) /\ DOMAIN told' = 1..(Len(told) + 1)
        BY <2>1, <3>2
      <3>4. \A j \in DOMAIN told' : (j \in DOMAIN told /\ told'[j] = told[j]) \/ told'[j].w = b.w
        BY <3>1, <3>2, <3>3
      <3>5. \A u \in Users : callbacks'[u] \subseteq callbacks[u]
        BY <1>1, <1>2
      <3>6. \A j \in DOMAIN told' : told'[j].w <= issued
        BY <2>1, <2>3, <3>4
      <3>7. ASSUME NEW u \in Users, NEW i \in DOMAIN mq'[u], mq'[u][i].id \in callbacks'[u],
                   NEW j \in DOMAIN told'
            PROVE  told'[j].w # mq'[u][i].w
        <4>1. PICK k \in DOMAIN mq[u] : mq'[u][i] = mq[u][k]
          BY <2>2
        <4>2. CASE j \in DOMAIN told /\ told'[j] = told[j]
          BY <2>1, <3>5, <3>7, <4>1, <4>2
        <4>3. CASE told'[j].w = b.w
          <5>1. mq'[u][i].w # b.w
            BY <2>2
          <5> QED BY <4>3, <5>1
        <4> QED BY <3>4, <4>2, <4>3
      <3> QED BY <1>1, <2>1, <3>2, <3>6, <3>7 DEF AnswersOK
    <2>5. CASE b.id \notin callbacks[user]
      <3>1. told' = told
        BY <1>1, <2>5 DEF NotifyUser
      <3>2. \A u \in Users : callbacks'[u] \subseteq callbacks[u]
        BY <1>1, <1>2
      <3>3. ASSUME NEW u \in Users, NEW i \in DOMAIN mq'[u], mq'[u][i].id \in callbacks'[u],
                   NEW j \in DOMAIN told'
            PROVE  told'[j].w # mq'[u][i].w
        <4>1. PICK k \in DOMAIN mq[u] : mq'[u][i] = mq[u][k]
          BY <2>2
        <4> QED BY <2>1, <3>1, <3>2, <3>3, <4>1
      <3> QED BY <1>1, <2>1, <3>1, <3>3 DEF AnswersOK
    <2> QED BY <2>4, <2>5
  <1>12. WaitersOK'
    <2>0. issued' = issued /\ mq'[user'] = Tail(q)
      BY <1>1, <1>7
    <2> SUFFICES ASSUME NEW x \in waiters'
                 PROVE  /\ x.pending \subseteq 1..issued
                        /\ \E i \in DOMAIN Tail(q) :
                              /\ Tail(q)[i].id = x.id
                              /\ \A j \in DOMAIN Tail(q) : Tail(q)[j].w \in x.pending <=> j <= i
      BY <2>0, ZenonT(40) DEF WaitersOK
    <2>1. x \in waiters /\ x.id # b.id
      BY <1>1
    <2>2. x.pending \subseteq 1..issued
      BY <2>1 DEF WritesInv, WaitersOK
    <2>3. PICK k \in 1..Len(q) : /\ q[k].id = x.id
                                 /\ \A j \in 1..Len(q) : q[j].w \in x.pending <=> j <= k
      BY <1>6, <2>1 DEF WritesInv, WaitersOK
    <2>4. k - 1 \in 1..(Len(q) - 1) /\ Tail(q)[k - 1] = q[k]
      BY <1>9, <2>1, <2>3
    <2>5. ASSUME NEW j \in 1..(Len(q) - 1)
          PROVE  Tail(q)[j].w \in x.pending <=> j <= k - 1
      <3>1. Tail(q)[j] = q[j + 1] /\ j + 1 \in 1..Len(q)
        BY <1>5
      <3>2. q[j + 1].w \in x.pending <=> j + 1 <= k
        BY <2>3, <3>1
      <3>3. j + 1 <= k <=> j <= k - 1
        BY <1>6
      <3> QED BY <3>1, <3>2, <3>3
    <2>6. k - 1 \in DOMAIN Tail(q) /\ Tail(q)[k - 1].id = x.id
      BY <1>5, <2>3, <2>4
    <2> QED BY <1>5, <2>2, <2>5, <2>6
  <1>13. RemoteOK(remote', mq'[user'])
    BY <1>1, <1>7
  <1> QED BY <1>1, <1>2, <1>3, <1>10, <1>11, <1>12, <1>13 DEF WritesInv

LEMMA OnWriteStreamMutationResultOK ==
    ASSUME WritesInv, OnWriteStreamMutationResult
    PROVE  WritesInv' /\ mq' = [mq EXCEPT ![user] = Tail(@)]
  <1> DEFINE c == remote.call
             q == mq[user]
             t == [remote EXCEPT !.pipeline = Tail(@), !.call.resp = Tail(@)]
  <1>1. /\ c.resp # <<>> /\ remote.handshake
        /\ Handled(Head(remote.pipeline), TRUE, FillWritePipeline(t, mq'[user]))
    BY DEF OnWriteStreamMutationResult, Reading
  <1>2. /\ IsOpen(remote) /\ CallOK(remote) /\ remote.network
        /\ c.resp \in Seq(Nat) /\ c.wire \in Seq(Nat) /\ c.buffer \in Seq(Nat)
    BY <1>1, LiveCall
  <1>3. /\ Begins(c.resp, Ops(remote.pipeline))
        /\ c.status = "running" => c.resp \o c.wire \o c.buffer = Ops(remote.pipeline)
        /\ c.status = "denied" => /\ Len(c.resp) < Len(remote.pipeline)
                                  /\ remote.pipeline[Len(c.resp) + 1].w \in Bad
    BY <1>1, <1>2 DEF CallOK, Asked
  <1> DEFINE p == remote.pipeline
             ops == Ops(p)
             tr == Tail(c.resp)
  <1>4. p \in Seq(Batches) /\ ops \in Seq(Nat) /\ Len(ops) = Len(p) /\ remote \in Remotes
    BY InvFacts, OpsFacts
  <1>5. p # <<>>
    <2>1. Len(c.resp) # 0 /\ Len(c.resp) \in Nat
      BY <1>1, <1>2, EmptySeq
    <2>2. Len(c.resp) <= Len(p)
      BY <1>3, <1>4 DEF Begins
    <2> QED BY <1>4, <2>1, <2>2
  <1>6. /\ q # <<>> /\ Head(p) = Head(q)
        /\ Begins(Tail(p), Tail(q)) /\ Tail(p) \in Seq(Batches) /\ Len(Tail(p)) = Len(p) - 1
    BY <1>5, SameHead
  <1>7. ops # <<>> /\ Ops(Tail(p)) = Tail(ops)
    BY <1>4, <1>5, OpsFacts
  <1>8. /\ tr \in Seq(Nat) /\ Len(tr) = Len(c.resp) - 1 /\ Len(c.resp) \in Nat \ {0}
        /\ \A i \in 1..(Len(c.resp) - 1) : tr[i] = c.resp[i + 1]
    BY <1>1, <1>2
  <1>9. /\ Tail(ops) \in Seq(Nat) /\ Len(Tail(ops)) = Len(ops) - 1 /\ Len(ops) \in Nat \ {0}
        /\ \A i \in 1..(Len(ops) - 1) : Tail(ops)[i] = ops[i + 1]
    BY <1>4, <1>7
  <1>10. Begins(tr, Tail(ops))
    <2>1. Len(c.resp) <= Len(ops) /\ \A i \in 1..Len(c.resp) : c.resp[i] = ops[i]
      BY <1>3 DEF Begins
    <2>2. ASSUME NEW i \in 1..(Len(c.resp) - 1) PROVE tr[i] = Tail(ops)[i]
      <3>1. i + 1 \in 1..Len(c.resp) /\ i \in 1..(Len(ops) - 1)
        BY <1>8, <1>9, <2>1
      <3> QED BY <1>8, <1>9, <2>1, <3>1
    <2>3. Len(tr) <= Len(Tail(ops))
      BY <1>8, <1>9, <2>1
    <2> QED BY <1>8, <2>2, <2>3 DEF Begins
  <1>11. ASSUME c.status = "running"
         PROVE  tr \o c.wire \o c.buffer = Tail(ops)
    <2> DEFINE cw == c.resp \o c.wire
    <2>1. cw \o c.buffer = ops
      BY <1>3, <1>11
    <2>2. Tail(cw) = tr \o c.wire
      BY <1>1, <1>2, TailConcat
    <2>3. cw \in Seq(Nat) /\ cw # <<>> /\ c.buffer \in Seq(Nat)
      BY <1>1, <1>2
    <2> HIDE DEF cw
    <2>4. Tail(cw \o c.buffer) = Tail(cw) \o c.buffer
      BY <2>3, TailConcat
    <2> QED BY <2>1, <2>2, <2>4
  <1>12. /\ t \in Remotes
         /\ t.network = remote.network /\ t.pipeline = Tail(p) /\ t.state = remote.state
         /\ t.handshake = TRUE /\ t.closeCount = remote.closeCount
         /\ t.creds = remote.creds /\ t.timers = remote.timers /\ t.call.resp = tr
         /\ t.call.wire = c.wire /\ t.call.buffer = c.buffer /\ t.call.status = c.status
    <2>1. c \in Calls
      BY InvFacts
    <2> QED BY <1>1, <1>4, <1>6, <1>8, <2>1 DEF Remotes, Calls
  <1>13. ASSUME c.status = "denied"
         PROVE  Len(tr) < Len(Tail(p)) /\ Tail(p)[Len(tr) + 1].w \in Bad
    <2>1. Len(c.resp) < Len(p) /\ p[Len(c.resp) + 1].w \in Bad
      BY <1>3, <1>13
    <2>2. Len(c.resp) \in 1..(Len(p) - 1) /\ Len(tr) + 1 = Len(c.resp)
      BY <1>4, <1>8, <2>1
    <2>3. Tail(p)[Len(c.resp)] = p[Len(c.resp) + 1]
      BY <1>4, <1>5, <2>2
    <2> QED BY <1>6, <1>8, <2>1, <2>2, <2>3
  <1> HIDE DEF t
  <1>14. Asked(t) = Tail(ops)
    BY <1>7, <1>12 DEF Asked
  <1>15. CallOK(t)
    BY <1>10, <1>11, <1>12, <1>13, <1>14 DEF CallOK
  <1>16. StreamOK(t) /\ IsOpen(t)
    BY <1>1, <1>2, <1>5, <1>12, <1>15, InvFacts DEF StreamOK, IsOpen, IsStarted, Sending
  <1>17. /\ user \in Users /\ QueueOK(q) /\ QueueOK(Tail(q)) /\ mq \in [Users -> Seq(Batches)]
    BY <1>6, InvFacts, TailOK DEF WritesInv, DiskOK, QueuesOK
  <1>18. mq'[user] = Tail(q)
    BY <1>1, <1>6, <1>17, RemoveHead DEF Handled
  <1>19. Len(t.pipeline) <= kMaxPendingWrites /\ Begins(t.pipeline, Tail(q))
    BY <1>4, <1>6, <1>12, InvFacts, PipelineAssumption
  <1> DEFINE f == FillWritePipeline(t, Tail(q))
  <1>20. /\ StreamOK(f) /\ Filled(f, Tail(q)) /\ (IsOpen(f) <=> IsOpen(t))
         /\ f.call.resp = t.call.resp
    BY <1>2, <1>12, <1>16, <1>17, <1>19, FillWritePipelineOK
  <1>21. remote' = f
    BY <1>1, <1>18 DEF Handled
  <1> HIDE DEF f
  <1>22. RemoteOK(remote', Tail(q))
    BY <1>16, <1>20, <1>21 DEF RemoteOK
  <1>23. Known(remote'.call.resp, log)
    BY <1>1, <1>2, <1>12, <1>20, <1>21, InvFacts, KnownTail
  <1>24. Handled(Head(q), TRUE, remote')
    BY <1>1, <1>6 DEF Handled
  <1> QED BY <1>6, <1>22, <1>23, <1>24, HandledOK

\* What a refused write is like: it is in the pipeline, and what is removed
\* is the oldest one.
LEMMA RejectingFacts ==
    ASSUME WritesInv, Rejecting
    PROVE  /\ remote.pipeline # <<>> /\ IsOpen(remote)
           /\ \E i \in 1..Len(mq[user]) : mq[user][i].w \in Bad
  <1>1. remote.call.status = "denied" /\ remote.handshake /\ remote.pipeline # <<>>
    BY DEF Rejecting, IsPermanentWriteError, IsPermanentError
  <1>2. IsOpen(remote) /\ CallOK(remote) /\ remote.call.resp \in Seq(Nat)
    BY <1>1, LiveCall
  <1> DEFINE k == Len(remote.call.resp) + 1
  <1>3. k - 1 < Len(remote.pipeline) /\ remote.pipeline[k].w \in Bad
    BY <1>1, <1>2 DEF CallOK
  <1>4. k \in 1..Len(remote.pipeline) /\ k \in 1..Len(mq[user]) /\ remote.pipeline[k] = mq[user][k]
    <2>1. /\ Len(remote.pipeline) \in Nat /\ Len(mq[user]) \in Nat
          /\ Len(remote.pipeline) <= Len(mq[user])
          /\ \A i \in 1..Len(remote.pipeline) : remote.pipeline[i] = mq[user][i]
      BY InvFacts, QueueFacts DEF Begins
    <2>2. k \in Nat \ {0}
      BY <1>2
    <2> HIDE DEF k
    <2>3. k \in 1..Len(remote.pipeline) /\ k \in 1..Len(mq[user])
      BY <1>3, <2>1, <2>2
    <2> QED BY <2>1, <2>3
  <1> QED BY <1>1, <1>2, <1>3, <1>4

LEMMA FinishAndNotifyOK ==
    ASSUME WritesInv, FinishAndNotify
    PROVE  WritesInv' /\ (Rejecting => mq' = [mq EXCEPT ![user] = Tail(@)])
  <1> DEFINE r == Closed(remote, FALSE)
             q == mq[user]
  <1>1. StreamOK(r) /\ r.network = remote.network /\ r.pipeline = remote.pipeline /\ r.state = "Error"
    BY InvFacts, ClosedOK
  <1>2. CASE ~Rejecting
    <2>1. /\ remote' = [Restarted(r) EXCEPT !.handshake = FALSE]
          /\ UNCHANGED <<user, mq, nextId, callbacks, waiters, issued, log, told, faults>>
      BY <1>2 DEF FinishAndNotify, OnWriteStreamClose
    <2>2. RemoteOK(remote', q) /\ remote'.call.resp = <<>>
      BY <2>1, InvFacts, ClosedAndRestarted
    <2>3. Known(remote'.call.resp, log)
      BY <2>2, KnownNothing
    <2> QED BY <1>2, <2>1, <2>2, <2>3, StreamStep, InvFacts
  <1>3. CASE Rejecting
    <2> DEFINE t == [r EXCEPT !.pipeline = Tail(@), !.state = "Initial"]
               f == FillWritePipeline(t, Tail(q))
               s == Restarted(f)
               n == [s EXCEPT !.handshake = FALSE]
    <2> HIDE DEF r
    <2>1. InhibitBackoff([r EXCEPT !.pipeline = Tail(@)]) = t
      BY <1>1 DEF InhibitBackoff, StreamOK, Remotes
    <2>2. Handled(Head(r.pipeline), FALSE,
                  [Restarted(FillWritePipeline(t, mq'[user])) EXCEPT !.handshake = FALSE])
      BY <1>3, <2>1 DEF FinishAndNotify, OnWriteStreamClose, r
    <2>3. /\ q # <<>> /\ Head(remote.pipeline) = Head(q) /\ remote.network
          /\ Begins(Tail(remote.pipeline), Tail(q)) /\ Tail(remote.pipeline) \in Seq(Batches)
          /\ Len(Tail(remote.pipeline)) = Len(remote.pipeline) - 1
      BY <1>3, SameHead DEF Rejecting
    <2>4. /\ user \in Users /\ QueueOK(q) /\ QueueOK(Tail(q)) /\ mq \in [Users -> Seq(Batches)]
      BY <2>3, InvFacts, TailOK DEF WritesInv, DiskOK, QueuesOK
    <2>5. mq'[user] = Tail(q)
      BY <1>1, <2>2, <2>3, <2>4, RemoveHead DEF Handled
    <2>6. remote' = n
      BY <2>2, <2>5 DEF Handled
    <2>7. r \in Remotes
      BY <1>1 DEF StreamOK
    <2>8. /\ t \in Remotes
          /\ t.network = r.network /\ t.pipeline = Tail(remote.pipeline) /\ t.state = "Initial"
          /\ t.handshake = r.handshake /\ t.closeCount = r.closeCount
          /\ t.creds = r.creds /\ t.timers = r.timers /\ t.call = r.call
      BY <1>1, <2>3, <2>7 DEF Remotes, States
    <2> HIDE DEF t
    <2>9. StreamOK(t) /\ ~IsOpen(t)
      BY <1>1, <2>8 DEF StreamOK, IsStarted, IsOpen, Sending
    <2>10. Len(t.pipeline) <= kMaxPendingWrites /\ Begins(t.pipeline, Tail(q))
      BY <2>3, <2>8, InvFacts, PipelineAssumption
    <2>11. StreamOK(f) /\ Filled(f, Tail(q)) /\ ~IsOpen(f)
      BY <1>1, <2>3, <2>4, <2>8, <2>9, <2>10, FillWritePipelineOK
    <2> HIDE DEF f
    <2>12. StreamOK(s) /\ s.network = f.network /\ s.pipeline = f.pipeline /\ ~IsOpen(s)
      BY <2>11, RestartedOK
    <2> HIDE DEF s
    <2>13. /\ StreamOK(n) /\ ~n.handshake /\ n.network = s.network /\ n.pipeline = s.pipeline
           /\ n.call = NoCall
      BY <2>12, NoHandshakeOK
    <2> HIDE DEF n
    <2>14. RemoteOK(remote', Tail(q))
      BY <2>6, <2>11, <2>12, <2>13 DEF RemoteOK, Filled
    <2>15. remote'.call.resp = <<>>
      BY <2>6, <2>13 DEF NoCall
    <2>16. Known(remote'.call.resp, log)
      BY <2>15, KnownNothing
    <2>17. Handled(Head(q), FALSE, remote')
      BY <1>1, <2>2, <2>3 DEF Handled
    <2> QED BY <2>3, <2>14, <2>16, <2>17, HandledOK
  <1> QED BY <1>2, <1>3

LEMMA WriteMutationsOK ==
    ASSUME WritesInv, WriteMutations
    PROVE  WritesInv'
  <1> DEFINE q == mq[user]
             b == [id |-> nextId, w |-> issued + 1]
             a == Append(q, b)
  <1>1. /\ issued' = issued + 1
        /\ mq' = [mq EXCEPT ![user] = a]
        /\ nextId' = nextId + 1
        /\ callbacks' = [callbacks EXCEPT ![user] = @ \cup {nextId}]
        /\ remote' = FillWritePipeline(remote, mq'[user])
        /\ UNCHANGED <<user, waiters, log, told, faults>>
    BY DEF WriteMutations, AddMutationBatch
  <1>2. /\ user \in Users /\ QueuesOK(mq, nextId, issued) /\ QueueOK(q)
        /\ callbacks \in [Users -> SUBSET Nat]
        /\ \A u \in Users : callbacks[u] \subseteq Ids(mq[u])
    BY InvFacts DEF WritesInv, DiskOK
  <1>3. /\ QueuesOK([mq EXCEPT ![user] = a], nextId + 1, issued + 1)
        /\ QueueOK(a) /\ Len(a) = Len(q) + 1 /\ DOMAIN a = 1..(Len(q) + 1)
        /\ \A i \in 1..Len(q) : a[i] = q[i]
        /\ a[Len(q) + 1] = b
    <2>1. QueuesOK(mq, nextId, issued) /\ user \in Users
      BY <1>2
    <2>2. Joined(mq, nextId, issued, user, b)
      BY <2>1, QueueLonger, Zenon
    <2> HIDE DEF b
    <2> QED BY <2>2, Zenon DEF Joined
  <1>4. b.id = nextId /\ b.w = issued + 1
    OBVIOUS
  <1>5. [mq EXCEPT ![user] = a] = mq'
    BY <1>1
  <1> HIDE DEF a, b
  <1>6. /\ mq \in [Users -> Seq(Batches)] /\ nextId \in Nat /\ issued \in Nat
        /\ Len(q) \in Nat /\ DOMAIN q = 1..Len(q)
        /\ \A i \in 1..Len(q) : q[i].id < nextId /\ q[i].w <= issued /\ q[i].id \in Nat
    BY <1>2, QueueFacts DEF QueuesOK
  <1>7. mq'[user] = a /\ \A u \in Users \ {user} : mq'[u] = mq[u]
    BY <1>1, <1>2, <1>6
  <1>8. \A i \in 1..(Len(q) + 1) : i \in 1..Len(q) \/ i = Len(q) + 1
    BY <1>6
  <1>9. DiskOK'
    <2>1. callbacks' \in [Users -> SUBSET Nat]
      BY <1>1, <1>2, <1>6
    <2>2. ASSUME NEW u \in Users
          PROVE  callbacks'[u] \subseteq Ids(mq'[u])
      <3>1. CASE u # user
        BY <1>1, <1>2, <1>7, <3>1
      <3>2. CASE u = user
        <4>1. callbacks'[u] = callbacks[user] \cup {nextId} /\ mq'[u] = a
          BY <1>1, <1>2, <1>7, <3>2
        <4>2. nextId \in Ids(a)
          <5>1. Len(q) + 1 \in DOMAIN a
            BY <1>3, <1>6
          <5> QED BY <1>3, <1>4, <5>1 DEF Ids
        <4>3. ASSUME NEW x \in Ids(q) PROVE x \in Ids(a)
          <5>1. PICK k \in 1..Len(q) : x = q[k].id
            BY <1>6 DEF Ids
          <5>2. k \in DOMAIN a /\ a[k].id = x
            BY <1>3, <1>6, <5>1
          <5> QED BY <5>2 DEF Ids
        <4> QED BY <1>2, <4>1, <4>2, <4>3
      <3> QED BY <3>1, <3>2
    <2> QED BY <1>1, <1>3, <1>5, <2>1, <2>2 DEF DiskOK
  <1>10. /\ RemoteOK(remote', mq'[user']) /\ remote'.call.resp = remote.call.resp
    <2>1. Begins(remote.pipeline, a)
      <3>1. Len(remote.pipeline) <= Len(q) /\ \A i \in 1..Len(remote.pipeline) : remote.pipeline[i] = q[i]
        BY InvFacts DEF Begins
      <3>2. Len(remote.pipeline) \in Nat
        BY InvFacts
      <3>3. \A i \in 1..Len(remote.pipeline) : i \in 1..Len(q)
        BY <1>6, <3>1, <3>2
      <3> QED BY <1>3, <1>6, <3>1, <3>2, <3>3 DEF Begins
    <2> DEFINE f == FillWritePipeline(remote, a)
    <2>2. /\ StreamOK(f) /\ Filled(f, a) /\ f.handshake = remote.handshake
          /\ (IsOpen(f) <=> IsOpen(remote)) /\ f.call.resp = remote.call.resp
      BY <1>3, <2>1, InvFacts, FillWritePipelineOK
    <2>3. remote' = f /\ mq'[user'] = a
      BY <1>1, <1>7
    <2> HIDE DEF f
    <2> QED BY <2>2, <2>3, InvFacts DEF RemoteOK
  <1>11. AnswersOK'
    <2>1. /\ log \in Seq(Nat) /\ told \in Seq([w : Nat, ok : BOOLEAN])
          /\ \A j \in DOMAIN told : told[j].w <= issued
          /\ \A u \in Users : \A i \in DOMAIN mq[u] : mq[u][i].id \in callbacks[u] =>
                \A j \in DOMAIN told : told[j].w # mq[u][i].w
          /\ Known(remote.call.resp, log)
      BY DEF WritesInv, AnswersOK
    <2>2. \A j \in DOMAIN told : told[j].w \in Nat
      <3> DEFINE G == [w : Nat, ok : BOOLEAN]
      <3>1. told \in Seq(G)
        BY <2>1
      <3> HIDE DEF G
      <3>2. \A j \in DOMAIN told : told[j] \in G
        BY <3>1
      <3> QED BY <3>2 DEF G
    <2>3. \A j \in DOMAIN told : told[j].w <= issued + 1 /\ told[j].w # issued + 1
      BY <1>6, <2>1, <2>2
    <2>4. ASSUME NEW u \in Users, NEW i \in DOMAIN mq'[u], mq'[u][i].id \in callbacks'[u],
                 NEW j \in DOMAIN told
          PROVE  told[j].w # mq'[u][i].w
      <3>1. CASE u # user
        <4>1. mq'[u] = mq[u] /\ callbacks'[u] = callbacks[u]
          BY <1>1, <1>2, <1>7, <3>1
        <4> QED BY <2>1, <2>4, <4>1
      <3>2. CASE u = user
        <4>1. mq'[u] = a /\ callbacks'[u] = callbacks[user] \cup {nextId} /\ i \in 1..(Len(q) + 1)
          BY <1>1, <1>2, <1>3, <1>7, <3>2
        <4>2. CASE i = Len(q) + 1
          BY <1>3, <1>4, <2>3, <4>1, <4>2
        <4>3. CASE i \in 1..Len(q)
          <5>1. a[i] = q[i] /\ q[i].id # nextId /\ i \in DOMAIN q
            BY <1>3, <1>6, <4>3
          <5>2. q[i].id \in callbacks[user]
            BY <2>4, <4>1, <5>1
          <5>3. told[j].w # q[i].w
            BY <1>2, <2>1, <5>1, <5>2
          <5> QED BY <4>1, <5>1, <5>3
        <4> QED BY <1>8, <4>1, <4>2, <4>3
      <3> QED BY <3>1, <3>2
    <2> QED BY <1>1, <1>10, <2>1, <2>3, <2>4 DEF AnswersOK
  <1>12. WaitersOK'
    <2> SUFFICES ASSUME NEW x \in waiters
                 PROVE  /\ x.pending \subseteq 1..(issued + 1)
                        /\ \E i \in DOMAIN a :
                              /\ a[i].id = x.id
                              /\ \A j \in DOMAIN a : a[j].w \in x.pending <=> j <= i
      BY <1>1, <1>7 DEF WaitersOK
    <2>1. x.pending \subseteq 1..issued
      BY DEF WritesInv, WaitersOK
    <2>2. PICK k \in 1..Len(q) : /\ q[k].id = x.id
                                 /\ \A j \in 1..Len(q) : q[j].w \in x.pending <=> j <= k
      BY <1>6 DEF WritesInv, WaitersOK
    <2>3. k \in DOMAIN a /\ a[k].id = x.id
      BY <1>3, <1>6, <2>2
    <2>4. ASSUME NEW j \in DOMAIN a PROVE a[j].w \in x.pending <=> j <= k
      <3>1. CASE j = Len(q) + 1
        <4>1. a[j].w = issued + 1 /\ issued + 1 \notin x.pending
          BY <1>3, <1>4, <1>6, <2>1, <3>1
        <4>2. ~(j <= k)
          BY <1>6, <3>1
        <4> QED BY <4>1, <4>2
      <3>2. CASE j \in 1..Len(q)
        BY <1>3, <2>2, <3>2
      <3> QED BY <1>3, <1>8, <3>1, <3>2
    <2>5. x.pending \subseteq 1..(issued + 1)
      BY <1>6, <2>1
    <2> QED BY <2>3, <2>4, <2>5
  <1>13. user' \in Users
    BY <1>1, <1>2
  <1> QED BY <1>9, <1>10, <1>11, <1>12, <1>13 DEF WritesInv

LEMMA RegisterPendingWritesCallbackOK ==
    ASSUME WritesInv, RegisterPendingWritesCallback
    PROVE  WritesInv'
  <1> DEFINE q == mq[user]
             x == [id |-> Last(q).id, pending |-> ToSet(Ops(q))]
  <1>1. /\ waiters' = waiters \cup {x} /\ q # <<>>
        /\ UNCHANGED <<user, mq, nextId, callbacks, remote, issued, log, told, faults>>
    BY DEF RegisterPendingWritesCallback
  <1>2. /\ q \in Seq(Batches) /\ Len(q) \in Nat /\ DOMAIN q = 1..Len(q)
        /\ \A i \in 1..Len(q) : q[i].w \in Nat /\ 0 < q[i].w
    BY InvFacts, QueueFacts
  <1>3. issued \in Nat /\ \A i \in 1..Len(q) : q[i].w <= issued
    BY <1>2, InvFacts DEF WritesInv, DiskOK, QueuesOK
  <1>4. Len(q) \in 1..Len(q) /\ Last(q) = q[Len(q)]
    BY <1>1, <1>2 DEF Last
  <1>5. /\ Ops(q) \in Seq(Nat) /\ Len(Ops(q)) = Len(q) /\ \A i \in 1..Len(q) : Ops(q)[i] = q[i].w
    BY <1>2, OpsFacts
  <1>6. ToSet(Ops(q)) = {q[i].w : i \in 1..Len(q)}
    BY <1>5 DEF ToSet
  <1>7. x.pending \subseteq 1..issued
    BY <1>2, <1>3, <1>6
  <1>8. \A j \in 1..Len(q) : q[j].w \in x.pending <=> j <= Len(q)
    BY <1>2, <1>6
  <1>9. q[Len(q)].id = x.id
    BY <1>4
  <1> HIDE DEF x
  <1>10. WaitersOK'
    <2> SUFFICES ASSUME NEW y \in waiters'
                 PROVE  /\ y.pending \subseteq 1..issued
                        /\ \E i \in DOMAIN q :
                              /\ q[i].id = y.id
                              /\ \A j \in DOMAIN q : q[j].w \in y.pending <=> j <= i
      BY <1>1 DEF WaitersOK
    <2>1. CASE y = x
      BY <1>2, <1>4, <1>7, <1>8, <1>9, <2>1
    <2>2. CASE y \in waiters
      BY <2>2 DEF WritesInv, WaitersOK
    <2> QED BY <1>1, <2>1, <2>2
  <1>11. user' \in Users /\ RemoteOK(remote', mq'[user'])
    BY <1>1 DEF WritesInv
  <1>12. DiskOK'
    BY <1>1 DEF WritesInv, DiskOK
  <1>13. AnswersOK'
    BY <1>1 DEF WritesInv, AnswersOK
  <1> QED BY <1>10, <1>11, <1>12, <1>13 DEF WritesInv

LEMMA HandleCredentialChangeOK ==
    ASSUME WritesInv, HandleCredentialChange
    PROVE  WritesInv'
  <1>1. /\ user' \in Users
        /\ waiters' = IF user' = user THEN waiters ELSE {}
        /\ nextId' = IF user' = user THEN nextId ELSE LoadNextBatchId(mq)
        /\ remote' = IF remote.network THEN RestartNetwork(remote, mq[user']) ELSE remote
        /\ UNCHANGED <<mq, callbacks, issued, log, told>>
    BY DEF HandleCredentialChange
  <1>2. QueuesOK(mq, nextId, issued)
    BY DEF WritesInv, DiskOK
  <1>3. QueuesOK(mq, nextId', issued)
    BY <1>1, <1>2, LoadNextBatchIdOK
  <1>4. DiskOK'
    BY <1>1, <1>3 DEF WritesInv, DiskOK
  <1>5. QueueOK(mq[user'])
    BY <1>1, <1>2 DEF QueuesOK
  <1>6. RemoteOK(remote', mq'[user']) /\ Known(remote'.call.resp, log)
    <2>1. CASE remote.network
      <3>1. remote' = RestartNetwork(remote, mq[user'])
        BY <1>1, <2>1
      <3>2. RemoteOK(remote', mq[user']) /\ remote'.call.resp = <<>>
        BY <1>5, <3>1, InvFacts, RestartNetworkOK
      <3> QED BY <1>1, <3>2, KnownNothing
    <2>2. CASE ~remote.network
      <3>1. remote' = remote /\ remote.pipeline = <<>>
        BY <1>1, <2>2, InvFacts
      <3>2. Begins(<<>>, mq[user'])
        BY <1>5, QueueFacts DEF Begins
      <3>3. Filled(remote, mq[user'])
        BY <2>2, <3>1, <3>2 DEF Filled
      <3> QED BY <1>1, <3>1, <3>3, InvFacts DEF RemoteOK
    <2> QED BY <2>1, <2>2
  <1>7. AnswersOK'
    BY <1>1, <1>6 DEF WritesInv, AnswersOK
  <1>8. WaitersOK'
    BY <1>1 DEF WritesInv, WaitersOK
  <1> QED BY <1>1, <1>4, <1>6, <1>7, <1>8 DEF WritesInv

\* Restarted, the process has no completion blocks, and the queues it reads
\* are as well-formed as they were.
LEMMA CrashOK ==
    ASSUME WritesInv, Crash
    PROVE  WritesInv'
  <1>1. /\ callbacks' = [u \in Users |-> {}]
        /\ waiters' = {}
        /\ nextId' = LoadNextBatchId(mq')
        /\ remote' = EnableNetwork(NewRemote, mq'[user])
        /\ UNCHANGED <<user, issued, log>>
        /\ UNCHANGED told \/ (remote.pipeline # <<>> /\ told' = NotifyUser(Head(remote.pipeline), TRUE))
        /\ UNCHANGED mq \/ (Rejecting /\ mq' = [mq EXCEPT ![user] = RemoveMutationBatch(@, Head(remote.pipeline).id)])
    <2>1. ASSUME Reading(remote.call), remote.handshake PROVE remote.pipeline # <<>>
      <3>1. CallOK(remote) /\ remote.call.resp # <<>> /\ remote.call.resp \in Seq(Nat)
        BY <2>1, LiveCall DEF Reading
      <3>2. Asked(remote) = Ops(remote.pipeline) /\ Len(Ops(remote.pipeline)) = Len(remote.pipeline)
        BY <2>1, InvFacts, OpsFacts DEF Asked
      <3>3. Len(remote.call.resp) <= Len(remote.pipeline)
        BY <3>1, <3>2 DEF CallOK, Begins
      <3>4. Len(remote.call.resp) \in Nat \ {0}
        BY <3>1
      <3> QED BY <3>3, <3>4, InvFacts
    <2> QED BY <2>1 DEF Crash
  <1>2. user \in Users /\ QueuesOK(mq, nextId, issued) /\ mq \in [Users -> Seq(Batches)]
    BY DEF WritesInv, DiskOK, QueuesOK
  <1>3. QueuesOK(mq', nextId, issued)
    <2>1. CASE mq' = mq
      BY <1>2, <2>1
    <2>2. CASE Rejecting /\ mq' = [mq EXCEPT ![user] = RemoveMutationBatch(@, Head(remote.pipeline).id)]
      <3>1. mq[user] # <<>> /\ Head(remote.pipeline) = Head(mq[user]) /\ QueueOK(mq[user])
        BY <2>2, SameHead, InvFacts DEF Rejecting
      <3>2. mq' = [mq EXCEPT ![user] = Tail(@)]
        BY <1>2, <2>2, <3>1, RemoveHead
      <3> QED BY <1>2, <3>1, <3>2, QueueShorter
    <2> QED BY <1>1, <2>1, <2>2
  <1>4. QueuesOK(mq', nextId', issued')
    BY <1>1, <1>3, LoadNextBatchIdOK
  <1>5. DiskOK'
    BY <1>1, <1>4 DEF DiskOK
  <1>6. QueueOK(mq'[user])
    BY <1>2, <1>3 DEF QueuesOK
  <1>7. RemoteOK(remote', mq'[user']) /\ remote'.call.resp = <<>>
    BY <1>1, <1>6, NewRemoteOK, EnableNetworkOK
  <1>8. told' \in Seq([w : Nat, ok : BOOLEAN]) /\ \A j \in DOMAIN told' : told'[j].w <= issued
    <2>1. told \in Seq([w : Nat, ok : BOOLEAN]) /\ \A j \in DOMAIN told : told[j].w <= issued
      BY DEF WritesInv, AnswersOK
    <2>2. CASE told' = told
      BY <2>1, <2>2
    <2>3. CASE remote.pipeline # <<>> /\ told' = NotifyUser(Head(remote.pipeline), TRUE) /\ told' # told
      <3> DEFINE b == Head(remote.pipeline)
                 a == [w |-> b.w, ok |-> TRUE]
      <3>1. told' = Append(told, a)
        BY <2>3 DEF NotifyUser
      <3>2. b = mq[user][1] /\ 1 \in DOMAIN mq[user]
        BY <2>3, SameHead
      <3>3. b.w \in Nat /\ b.w <= issued
        BY <1>2, <3>2, InvFacts, QueueFacts DEF QueuesOK
      <3>4. a \in [w : Nat, ok : BOOLEAN] /\ a.w = b.w
        BY <3>3
      <3> HIDE DEF a
      <3>5. /\ told' \in Seq([w : Nat, ok : BOOLEAN]) /\ Len(told') = Len(told) + 1
            /\ told'[Len(told) + 1] = a
            /\ \A i \in 1..Len(told) : told'[i] = told[i]
        BY <2>1, <3>1, <3>4, AppendProperties
      <3>6. /\ Len(told) \in Nat /\ DOMAIN told = 1..Len(told) /\ DOMAIN told' = 1..(Len(told) + 1)
        BY <2>1, <3>5
      <3>7. \A j \in DOMAIN told' : (j \in DOMAIN told /\ told'[j] = told[j]) \/ told'[j].w = b.w
        BY <3>4, <3>5, <3>6
      <3> QED BY <2>1, <3>3, <3>5, <3>7
    <2> QED BY <1>1, <2>2, <2>3
  <1>9. Known(remote'.call.resp, log)
    BY <1>7, KnownNothing
  <1>10. log \in Seq(Nat)
    BY InvFacts
  <1>11. AnswersOK'
    BY <1>1, <1>8, <1>9, <1>10 DEF AnswersOK
  <1>12. WaitersOK'
    BY <1>1 DEF WaitersOK
  <1> QED BY <1>1, <1>2, <1>5, <1>7, <1>11, <1>12 DEF WritesInv

-----------------------------------------------------------------------------
(* The theorems.                                                           *)
LEMMA InitOK == Init => WritesInv
  <1> SUFFICES ASSUME Init PROVE WritesInv
    OBVIOUS
  <1>1. /\ user \in Users /\ mq = [u \in Users |-> <<>>] /\ nextId = 1
        /\ callbacks = [u \in Users |-> {}] /\ waiters = {} /\ issued = 0
        /\ log = <<>> /\ told = <<>> /\ remote = EnableNetwork(NewRemote, <<>>)
    BY DEF Init
  <1>2. QueueOK(<<>>)
    BY DEF QueueOK
  <1>3. QueuesOK(mq, nextId, issued)
    BY <1>1, <1>2 DEF QueuesOK
  <1>4. DiskOK
    BY <1>1, <1>3 DEF DiskOK
  <1>5. RemoteOK(remote, <<>>) /\ remote.call.resp = <<>>
    BY <1>1, <1>2, NewRemoteOK, EnableNetworkOK
  <1>6. AnswersOK
    BY <1>1, <1>5, KnownNothing DEF AnswersOK
  <1>7. WaitersOK
    BY <1>1 DEF WaitersOK
  <1> QED BY <1>1, <1>4, <1>5, <1>6, <1>7 DEF WritesInv

LEMMA NextOK == WritesInv /\ [Next]_vars => WritesInv'
  <1> SUFFICES ASSUME WritesInv, [Next]_vars PROVE WritesInv'
    OBVIOUS
  <1>1. CASE WriteMutations
    BY <1>1, WriteMutationsOK
  <1>2. CASE RegisterPendingWritesCallback
    BY <1>2, RegisterPendingWritesCallbackOK
  <1>3. CASE HandleCredentialChange
    BY <1>3, HandleCredentialChangeOK
  <1>4. CASE SwitchNetwork
    BY <1>4, SwitchNetworkOK
  <1>5. CASE \E c \in remote.creds : ResumeStartWithCredentials(c)
    BY <1>5, ResumeStartWithCredentialsOK
  <1>6. CASE HealthCheck
    BY <1>6, HealthCheckOK
  <1>7. CASE BackoffElapsed
    BY <1>7, BackoffElapsedOK
  <1>8. CASE IdleTimeout
    BY <1>8, IdleTimeoutOK
  <1>9. CASE OnRead
    BY <1>9, OnWriteStreamHandshakeCompleteOK, OnWriteStreamMutationResultOK DEF OnRead
  <1>10. CASE OnWrite
    BY <1>10, OnWriteOK
  <1>11. CASE OnOperationFailed
    BY <1>11, OnOperationFailedOK
  <1>12. CASE FinishAndNotify
    BY <1>12, FinishAndNotifyOK
  <1>13. CASE Serve
    BY <1>13, ServeOK
  <1>14. CASE \E c \in remote.creds : CredentialsFail(c)
    BY <1>14, CredentialsFailOK
  <1>15. CASE Break
    BY <1>15, BreakOK
  <1>16. CASE Crash
    BY <1>16, CrashOK
  <1>17. CASE UNCHANGED vars
    BY <1>17, InvFacts, StreamStep DEF vars, WritesInv
  <1> QED BY <1>1, <1>2, <1>3, <1>4, <1>5, <1>6, <1>7, <1>8, <1>9, <1>10, <1>11, <1>12,
             <1>13, <1>14, <1>15, <1>16, <1>17 DEF Next, Progress

\* The state of the SDK is always well-formed: queues, pipeline, stream, call,
\* completion blocks and answers fit together, whatever calls break, accounts
\* change, networks go away and processes die.  (Everything in RemoteStore,
\* SyncEngine and Stream that handles a write.)
THEOREM WritesInvariant == Spec => []WritesInv
  BY InitOK, NextOK, PTL DEF Spec

LEMMA BeginsIsPrefix ==
    ASSUME NEW G, NEW s \in Seq(G), NEW t \in Seq(G), Begins(s, t)
    PROVE  IsPrefix(s, t)
  <1>1. Len(s) \in Nat /\ Len(t) \in Nat /\ Len(s) <= Len(t) /\ \A i \in 1..Len(s) : s[i] = t[i]
    BY DEF Begins
  <1>2. /\ SubSeq(s, 1, Len(s)) = [i \in 1..Len(s) |-> s[i]]
        /\ SubSeq(t, 1, Len(s)) = [i \in 1..Len(s) |-> t[i]]
    BY <1>1
  <1> QED BY <1>1, <1>2 DEF IsPrefix

\* The pipeline is the oldest part of the account's queue, batch ids are never
\* shared, and waiters wait for the right batch.  (FillWritePipeline,
\* LoadNextBatchIdFromDb, RegisterPendingWrites.)
THEOREM PipelineIsQueueFront == Spec => []PipelineInv
  <1>1. WritesInv => PipelineInv
    <2> SUFFICES ASSUME WritesInv PROVE PipelineInv
      OBVIOUS
    <2> DEFINE q == mq[user]
    <2>1. /\ user \in Users /\ remote.state \in States /\ remote.timers \subseteq Timers
      BY InvFacts DEF Remotes
    <2>2. /\ q \in Seq(Batches) /\ Len(q) \in Nat /\ DOMAIN q = 1..Len(q)
      BY InvFacts, QueueFacts
    <2>3. IsPrefix(remote.pipeline, q)
      BY <2>2, InvFacts, BeginsIsPrefix
    <2>4. Len(remote.pipeline) = IF remote.network THEN Min({kMaxPendingWrites, Len(q)}) ELSE 0
      BY InvFacts DEF Filled
    <2>5. /\ QueuesOK(mq, nextId, issued)
          /\ \A u \in Users : callbacks[u] \subseteq Ids(mq[u])
      BY DEF WritesInv, DiskOK
    <2>6. ASSUME NEW u \in Users
          PROVE  /\ \A i, j \in DOMAIN mq[u] : i < j => mq[u][i].id < mq[u][j].id
                 /\ \A v \in Users \ {u} : Ids(mq[u]) \cap Ids(mq[v]) = {}
                 /\ \A id \in Ids(mq[u]) : 0 < id /\ id < nextId
      BY <2>5 DEF QueuesOK, QueueOK, Ids
    <2>7. ASSUME NEW x \in waiters
          PROVE  \E i \in DOMAIN q :
                    /\ q[i].id = x.id
                    /\ x.pending \cap ToSet(Ops(q)) = ToSet(Ops(SubSeq(q, 1, i)))
      <3>1. PICK i \in 1..Len(q) : /\ q[i].id = x.id
                                   /\ \A j \in 1..Len(q) : q[j].w \in x.pending <=> j <= i
        BY <2>2 DEF WritesInv, WaitersOK
      <3> DEFINE p == SubSeq(q, 1, i)
      <3>2. p \in Seq(Batches) /\ Len(p) = i /\ \A j \in 1..i : p[j] = q[j]
        BY <2>2
      <3> HIDE DEF p
      <3>3. ToSet(Ops(q)) = {q[j].w : j \in 1..Len(q)}
        <4>1. Ops(q) \in Seq(Nat) /\ Len(Ops(q)) = Len(q) /\ \A j \in 1..Len(q) : Ops(q)[j] = q[j].w
          BY <2>2, OpsFacts
        <4>2. DOMAIN Ops(q) = 1..Len(q)
          BY <2>2, <4>1
        <4> QED BY <4>1, <4>2 DEF ToSet
      <3>4. ToSet(Ops(p)) = {q[j].w : j \in 1..i}
        <4>1. Ops(p) \in Seq(Nat) /\ Len(Ops(p)) = i /\ \A j \in 1..i : Ops(p)[j] = p[j].w
          BY <3>2, OpsFacts
        <4>2. DOMAIN Ops(p) = 1..i
          BY <4>1
        <4> QED BY <3>2, <4>1, <4>2 DEF ToSet
      <3>5. \A j \in 1..i : j \in 1..Len(q)
        BY <2>2
      <3>6. x.pending \cap {q[j].w : j \in 1..Len(q)} = {q[j].w : j \in 1..i}
        BY <3>1, <3>5
      <3>7. x.pending \cap ToSet(Ops(q)) = ToSet(Ops(p))
        BY <3>3, <3>4, <3>6
      <3> QED BY <2>2, <3>1, <3>7 DEF p
    <2> QED BY <2>1, <2>3, <2>4, <2>5, <2>6, <2>7 DEF PipelineInv, States, Timers
  <1> QED BY <1>1, WritesInvariant, PTL

\* Responses answer the writes of the pipeline in order, and while a call runs
\* each write of it is on the call exactly once.  (OnWriteStreamMutationResult.)
THEOREM ResponsesMatchWrites == Spec => []ResponsesMatch
  <1>1. WritesInv => ResponsesMatch
    <2> SUFFICES ASSUME WritesInv PROVE ResponsesMatch
      OBVIOUS
    <2>1. Asked(remote) \in Seq(Nat)
      BY InvFacts, OpsFacts DEF Asked, Handshake
    <2>2. remote.call.resp \in Seq(Nat)
      BY InvFacts DEF Calls
    <2>3. IsOpen(remote) => IsPrefix(remote.call.resp, Asked(remote))
      BY <2>1, <2>2, InvFacts, BeginsIsPrefix DEF StreamOK, CallOK
    <2>4. remote.call.status = "running" =>
             remote.call.resp \o remote.call.wire \o remote.call.buffer = Asked(remote)
      BY LiveCall DEF CallOK
    <2> QED BY <2>3, <2>4 DEF ResponsesMatch, Asked
  <1> QED BY <1>1, WritesInvariant, PTL

\* No HARD_ASSERT on the way of a write can fail.  (stream.cc:171 and 212,
\* remote_store.cc:447 and 466, write_stream.cc:74, local_store.cc:297.)
THEOREM AssertionsNeverFail == Spec => []AssertionsHold
  <1>1. WritesInv => AssertionsHold
    <2> SUFFICES ASSUME WritesInv PROVE AssertionsHold
      OBVIOUS
    <2>1. remote.closeCount \in remote.creds => remote.state = "Starting" /\ ~remote.handshake
      BY InvFacts DEF StreamOK, IsOpen
    <2>2. "backoff" \in remote.timers <=> remote.state = "Backoff"
      BY InvFacts DEF StreamOK
    <2>3. ASSUME "idle" \in remote.timers PROVE ~ShouldStartWriteStream(Stop(remote))
      <3>1. remote.pipeline = <<>> /\ remote \in Remotes
        BY <2>3, InvFacts DEF StreamOK
      <3>2. Stop(remote).pipeline = remote.pipeline
        BY <3>1 DEF Stop, Closed, Remotes
      <3> QED BY <3>1, <3>2 DEF ShouldStartWriteStream
    <2>4. Reading(remote.call) /\ remote.handshake => remote.pipeline # <<>>
      <3> SUFFICES ASSUME Reading(remote.call), remote.handshake PROVE remote.pipeline # <<>>
        OBVIOUS
      <3>1. CallOK(remote) /\ remote.call.resp # <<>> /\ remote.call.resp \in Seq(Nat)
        BY LiveCall DEF Reading
      <3>2. Asked(remote) = Ops(remote.pipeline) /\ Len(Ops(remote.pipeline)) = Len(remote.pipeline)
        BY InvFacts, OpsFacts DEF Asked
      <3>3. Len(remote.call.resp) <= Len(remote.pipeline)
        BY <3>1, <3>2 DEF CallOK, Begins
      <3>4. Len(remote.call.resp) \in Nat \ {0}
        BY <3>1
      <3> QED BY <3>3, <3>4, InvFacts
    <2>5. IsOpen(remote) <=> remote.call # NoCall
      BY InvFacts DEF StreamOK, NoCall
    <2>6. ASSUME remote.pipeline # <<>> PROVE Head(remote.pipeline).id \in Ids(mq[user])
      BY <2>6, SameHead DEF Ids
    <2> QED BY <2>1, <2>2, <2>3, <2>4, <2>5, <2>6 DEF AssertionsHold
  <1> QED BY <1>1, WritesInvariant, PTL

-----------------------------------------------------------------------------
(* The steps of the SDK are steps of WriteQueue.                           *)
QueueOf == [u \in Users |-> Ops(mq[u])]

LEMMA SameToSet == \A s : Queue!ToSet(s) = ToSet(s)
  BY DEF Queue!ToSet, ToSet

LEMMA OpsAppend ==
    ASSUME NEW p \in Seq(Batches), NEW b \in Batches
    PROVE  Ops(Append(p, b)) = Append(Ops(p), b.w)
  <1>1. b.w \in Nat /\ <<b>> \in Seq(Batches) /\ Append(p, b) = p \o <<b>>
    BY AppendIsConcat DEF Batches
  <1>2. Ops(<<b>>) = <<b.w>>
    <2>1. Len(<<b>>) = 1 /\ <<b>>[1] = b
      OBVIOUS
    <2>2. Ops(<<b>>) \in Seq(Nat) /\ Len(Ops(<<b>>)) = 1 /\ Ops(<<b>>)[1] = b.w
      <3> DEFINE s == <<b>>
      <3>1. s \in Seq(Batches) /\ Len(s) = 1 /\ s[1] = b
        BY <1>1, <2>1
      <3> HIDE DEF s
      <3>2. Ops(s) \in Seq(Nat) /\ Len(Ops(s)) = Len(s) /\ \A i \in 1..Len(s) : Ops(s)[i] = s[i].w
        BY <3>1, OpsFacts
      <3>3. 1 \in 1..Len(s)
        BY <3>1
      <3>4. Ops(s) \in Seq(Nat) /\ Len(Ops(s)) = 1 /\ Ops(s)[1] = b.w
        BY <3>1, <3>2, <3>3
      <3> QED BY <3>4 DEF s
    <2>3. <<b.w>> \in Seq(Nat) /\ Len(<<b.w>>) = 1 /\ <<b.w>>[1] = b.w
      BY <1>1
    <2> HIDE DEF Ops
    <2>4. \A i \in 1..Len(Ops(<<b>>)) : Ops(<<b>>)[i] = <<b.w>>[i]
      BY <2>2, <2>3
    <2> QED BY <2>2, <2>3, <2>4, SeqEqual
  <1>3. Ops(p) \in Seq(Nat)
    BY OpsFacts
  <1>4. Append(Ops(p), b.w) = Ops(p) \o <<b.w>>
    BY <1>1, <1>3, AppendIsConcat
  <1>5. Ops(p \o <<b>>) = Ops(p) \o Ops(<<b>>)
    BY <1>1, OpsConcat
  <1> QED BY <1>1, <1>2, <1>4, <1>5, Zenon

LEMMA QueueOfFacts ==
    ASSUME WritesInv, NEW u \in Users
    PROVE  /\ QueueOf[u] = Ops(mq[u]) /\ mq[u] \in Seq(Batches)
           /\ QueueOf[u] \in Seq(Nat) /\ Len(QueueOf[u]) = Len(mq[u])
           /\ DOMAIN QueueOf[u] = 1..Len(mq[u])
           /\ \A i \in 1..Len(mq[u]) : QueueOf[u][i] = mq[u][i].w
           /\ QueueOf[u] = <<>> <=> mq[u] = <<>>
           /\ mq[u] # <<>> => Ops(Tail(mq[u])) = Tail(QueueOf[u]) /\ Head(QueueOf[u]) = Head(mq[u]).w
  <1>1. QueueOf[u] = Ops(mq[u])
    BY DEF QueueOf
  <1>2. mq[u] \in Seq(Batches)
    BY DEF WritesInv, DiskOK, QueuesOK
  <1>3. /\ Ops(mq[u]) \in Seq(Nat) /\ Len(Ops(mq[u])) = Len(mq[u])
        /\ \A i \in 1..Len(mq[u]) : Ops(mq[u])[i] = mq[u][i].w
        /\ Ops(mq[u]) = <<>> <=> mq[u] = <<>>
        /\ mq[u] # <<>> => Ops(Tail(mq[u])) = Tail(Ops(mq[u])) /\ Head(Ops(mq[u])) = Head(mq[u]).w
    BY <1>2, OpsFacts
  <1>4. DOMAIN Ops(mq[u]) = 1..Len(mq[u])
    BY <1>2, <1>3
  <1> QED BY <1>1, <1>2, <1>3, <1>4

\* When the SDK says "done" of the oldest write, the server has applied it.
LEMMA DoneIsApplied ==
    ASSUME WritesInv, Reading(remote.call), remote.handshake
    PROVE  /\ remote.pipeline # <<>> /\ mq[user] # <<>>
           /\ Head(remote.pipeline) = Head(mq[user])
           /\ Head(mq[user]).w \in ToSet(log)
  <1>1. CallOK(remote) /\ remote.call.resp # <<>> /\ remote.call.resp \in Seq(Nat)
    BY LiveCall DEF Reading
  <1>2. /\ Asked(remote) = Ops(remote.pipeline) /\ Len(Ops(remote.pipeline)) = Len(remote.pipeline)
        /\ \A i \in 1..Len(remote.pipeline) : Ops(remote.pipeline)[i] = remote.pipeline[i].w
    BY InvFacts, OpsFacts DEF Asked
  <1>3. /\ Len(remote.call.resp) <= Len(remote.pipeline)
        /\ \A i \in 1..Len(remote.call.resp) : remote.call.resp[i] = Ops(remote.pipeline)[i]
    BY <1>1, <1>2 DEF CallOK, Begins
  <1>4. Len(remote.call.resp) \in Nat \ {0} /\ 1 \in 1..Len(remote.call.resp)
    BY <1>1
  <1>5. remote.pipeline # <<>> /\ 1 \in 1..Len(remote.pipeline)
    BY <1>3, <1>4, InvFacts
  <1>6. /\ mq[user] # <<>> /\ Head(remote.pipeline) = Head(mq[user])
        /\ Head(mq[user]) = mq[user][1] /\ 1 \in DOMAIN mq[user]
    BY <1>5, SameHead
  <1>7. Head(remote.pipeline) = remote.pipeline[1]
    BY <1>5, InvFacts
  <1>8. remote.call.resp[1] = mq[user][1].w
    BY <1>2, <1>3, <1>4, <1>5, <1>6, <1>7
  <1>9. 0 < mq[user][1].w
    BY <1>6, InvFacts DEF QueueOK
  <1>10. remote.call.resp[1] = 0 \/ remote.call.resp[1] \in ToSet(log)
    BY <1>4, InvFacts DEF Known, Handshake
  <1> QED BY <1>5, <1>6, <1>8, <1>9, <1>10

\* Whether the completion block of the oldest write is run or gone.
LEMMA NotifyIsTell ==
    ASSUME WritesInv, mq[user] # <<>>, NEW ok \in BOOLEAN,
           told' = NotifyUser(Head(mq[user]), ok)
    PROVE  UNCHANGED told \/ Queue!Tell(Head(QueueOf[user]), ok)
  <1> DEFINE b == Head(mq[user])
  <1>1. b = mq[user][1] /\ 1 \in DOMAIN mq[user] /\ user \in Users
    BY InvFacts, TailOK, QueueFacts
  <1>2. Head(QueueOf[user]) = b.w
    BY <1>1, QueueOfFacts
  <1>3. CASE b.id \in callbacks[user]
    <2>1. told' = Append(told, [w |-> b.w, ok |-> ok])
      BY <1>3 DEF NotifyUser
    <2>2. \A j \in DOMAIN told : told[j].w # b.w
      BY <1>1, <1>3 DEF WritesInv, AnswersOK
    <2> QED BY <1>2, <2>1, <2>2 DEF Queue!Tell
  <1>4. CASE b.id \notin callbacks[user]
    BY <1>4 DEF NotifyUser
  <1> QED BY <1>3, <1>4

\* The oldest write leaves the queue.
LEMMA HandledIsAnswer ==
    ASSUME WritesInv, mq[user] # <<>>, NEW ok \in BOOLEAN,
           ok \in Queue!Verdicts(user),
           UNCHANGED told \/ told' = NotifyUser(Head(mq[user]), ok),
           mq' = [mq EXCEPT ![user] = Tail(@)], UNCHANGED <<issued, log>>
    PROVE  Queue!Answer(user)
  <1>1. user \in Users /\ mq \in [Users -> Seq(Batches)]
    BY DEF WritesInv, DiskOK, QueuesOK
  <1>2. QueueOf[user] # <<>> /\ Ops(Tail(mq[user])) = Tail(QueueOf[user])
    BY <1>1, QueueOfFacts
  <1>3. UNCHANGED told \/ Queue!Tell(Head(QueueOf[user]), ok)
    BY NotifyIsTell
  <1>4. QueueOf' = [QueueOf EXCEPT ![user] = Tail(@)]
    <2>1. \A u \in Users \ {user} : mq'[u] = mq[u]
      BY <1>1
    <2>2. mq'[user] = Tail(mq[user])
      BY <1>1
    <2> QED BY <1>1, <1>2, <2>1, <2>2 DEF QueueOf
  <1> QED BY <1>2, <1>3, <1>4 DEF Queue!Answer, QueueOf

LEMMA DoneVerdict ==
    ASSUME WritesInv, Reading(remote.call), remote.handshake
    PROVE  TRUE \in Queue!Verdicts(user)
  <1>1. mq[user] # <<>> /\ Head(mq[user]).w \in ToSet(log) /\ user \in Users
    BY DoneIsApplied, InvFacts
  <1>2. Head(QueueOf[user]) \in ToSet(log)
    BY <1>1, QueueOfFacts
  <1>5. Queue!Verdicts(user) = {v \in BOOLEAN : IF v THEN Head(QueueOf[user]) \in ToSet(log)
                                                       ELSE ToSet(QueueOf[user]) \cap Bad # {}}
    BY SameToSet, Zenon DEF Queue!Verdicts, QueueOf
  <1> QED BY <1>2, <1>5, Zenon

LEMMA RefusedVerdict ==
    ASSUME WritesInv, Rejecting
    PROVE  FALSE \in Queue!Verdicts(user)
  <1>1. PICK i \in 1..Len(mq[user]) : mq[user][i].w \in Bad
    BY RejectingFacts
  <1>2. user \in Users
    BY InvFacts
  <1>3. i \in DOMAIN QueueOf[user] /\ QueueOf[user][i] \in Bad
    BY <1>1, <1>2, QueueOfFacts
  <1>4. ToSet(QueueOf[user]) \cap Bad # {}
    BY <1>3 DEF ToSet
  <1>5. Queue!Verdicts(user) = {v \in BOOLEAN : IF v THEN Head(QueueOf[user]) \in ToSet(log)
                                                       ELSE ToSet(QueueOf[user]) \cap Bad # {}}
    BY SameToSet, Zenon DEF Queue!Verdicts, QueueOf
  <1> QED BY <1>4, <1>5, Zenon

LEMMA ServeIsApply ==
    ASSUME WritesInv, Serve
    PROVE  Queue!Apply(user) \/ UNCHANGED <<mq, issued, log, told>>
  <1> DEFINE c == remote.call
             w == Head(c.wire)
             k == Len(c.resp) + 1
  <1>1. c.status = "running" /\ c.wire # <<>> /\ UNCHANGED <<user, mq, issued, told>>
    BY DEF Serve
  <1>2. CASE w \in Bad \/ w = Handshake
    BY <1>1, <1>2 DEF Serve
  <1>3. CASE w \notin Bad /\ w # Handshake
    <2>1. log' = Append(log, w)
      BY <1>3 DEF Serve
    <2>2. /\ remote.handshake /\ Begins(c.resp, Asked(remote))
          /\ Len(c.resp) < Len(remote.pipeline) /\ remote.pipeline[k].w = w
      BY <1>1, <1>3, ServeFacts
    <2>3. user \in Users /\ c.resp \in Seq(Nat) /\ Len(c.resp) \in Nat
      BY InvFacts DEF Calls
    <2>4. /\ Len(remote.pipeline) \in Nat /\ Len(mq[user]) \in Nat
          /\ Len(remote.pipeline) <= Len(mq[user])
          /\ \A i \in 1..Len(remote.pipeline) : remote.pipeline[i] = mq[user][i]
      BY InvFacts, QueueFacts DEF Begins
    <2>5. k \in 1..Len(remote.pipeline) /\ k \in 1..Len(mq[user])
      BY <2>2, <2>3, <2>4
    <2>6. QueueOf[user][k] = w /\ k \in DOMAIN QueueOf[user]
      BY <2>2, <2>3, <2>4, <2>5, QueueOfFacts, SMTT(30)
    <2>7. ASSUME NEW j \in 1..(k - 1)
          PROVE  QueueOf[user][j] \in ToSet(log)
      <3>1. j \in 1..Len(c.resp) /\ j \in 1..Len(remote.pipeline) /\ j \in 1..Len(mq[user])
        BY <2>3, <2>4, <2>5
      <3>2. c.resp[j] = Ops(remote.pipeline)[j]
        BY <2>2, <3>1 DEF Begins, Asked
      <3>3. Ops(remote.pipeline)[j] = remote.pipeline[j].w
        BY <3>1, InvFacts, OpsFacts
      <3>4. QueueOf[user][j] = mq[user][j].w
        BY <2>3, <3>1, QueueOfFacts
      <3>5. c.resp[j] = QueueOf[user][j]
        BY <2>4, <3>1, <3>2, <3>3, <3>4
      <3>6. 0 < mq[user][j].w
        BY <3>1, InvFacts, QueueFacts
      <3>7. c.resp[j] = 0 \/ c.resp[j] \in ToSet(log)
        BY <3>1, InvFacts DEF Known, Handshake
      <3> QED BY <3>4, <3>5, <3>6, <3>7
    <2>8. QueueOf' = QueueOf
      BY <1>1 DEF QueueOf
    <2>9. /\ QueueOf[user][k] \notin Bad
          /\ log' = Append(log, QueueOf[user][k])
      BY <1>3, <2>1, <2>6
    <2>10. \E i \in DOMAIN QueueOf[user] :
              /\ QueueOf[user][i] \notin Bad
              /\ \A j \in 1..(i - 1) : QueueOf[user][j] \in ToSet(log)
              /\ log' = Append(log, QueueOf[user][i])
      BY <2>6, <2>7, <2>9
    <2>11. UNCHANGED <<issued, QueueOf, told>>
      BY <1>1, <2>8
    <2>12. \E i \in DOMAIN QueueOf[user] :
              /\ QueueOf[user][i] \notin Bad
              /\ \A j \in 1..(i - 1) : QueueOf[user][j] \in Queue!ToSet(log)
              /\ log' = Append(log, QueueOf[user][i])
      BY <2>10, SameToSet, Zenon
    <2> QED BY <2>11, <2>12 DEF Queue!Apply, QueueOf
  <1> QED BY <1>2, <1>3

LEMMA WriteMutationsIsIssue ==
    ASSUME WritesInv, WriteMutations
    PROVE  Queue!Issue(user)
  <1> DEFINE b == [id |-> nextId, w |-> issued + 1]
  <1>1. /\ issued' = issued + 1 /\ mq' = [mq EXCEPT ![user] = Append(@, b)]
        /\ UNCHANGED <<log, told>>
    BY DEF WriteMutations, AddMutationBatch
  <1>2. user \in Users /\ mq \in [Users -> Seq(Batches)] /\ nextId \in Nat /\ issued \in Nat
    BY DEF WritesInv, DiskOK, QueuesOK
  <1>3. b \in Batches /\ b.w = issued + 1
    BY <1>2 DEF Batches
  <1> HIDE DEF b
  <1>4. Ops(Append(mq[user], b)) = Append(Ops(mq[user]), issued')
    BY <1>1, <1>2, <1>3, OpsAppend
  <1>5. mq'[user] = Append(mq[user], b) /\ \A u \in Users \ {user} : mq'[u] = mq[u]
    BY <1>1, <1>2
  <1>6. QueueOf' = [QueueOf EXCEPT ![user] = Append(@, issued')]
    BY <1>2, <1>4, <1>5 DEF QueueOf
  <1> QED BY <1>1, <1>6 DEF Queue!Issue, QueueOf

LEMMA StepIsQueueStep ==
    WritesInv /\ [Next]_vars => Queue!Next \/ UNCHANGED <<mq, issued, log, told>>
  <1> SUFFICES ASSUME WritesInv, [Next]_vars
               PROVE  Queue!Next \/ UNCHANGED <<mq, issued, log, told>>
    OBVIOUS
  <1>1. user \in Users
    BY InvFacts
  <1>2. CASE WriteMutations
    BY <1>1, <1>2, WriteMutationsIsIssue DEF Queue!Next
  <1>3. CASE OnWriteStreamMutationResult
    <2>1. Reading(remote.call) /\ remote.handshake
      BY <1>3 DEF OnWriteStreamMutationResult
    <2>2. mq[user] # <<>> /\ Head(remote.pipeline) = Head(mq[user])
      BY <2>1, DoneIsApplied
    <2>3. mq' = [mq EXCEPT ![user] = Tail(@)]
      BY <1>3, OnWriteStreamMutationResultOK
    <2>4. told' = NotifyUser(Head(mq[user]), TRUE) /\ UNCHANGED <<issued, log>>
      BY <1>3, <2>2 DEF OnWriteStreamMutationResult, Handled
    <2>5. Queue!Answer(user)
      BY <2>1, <2>2, <2>3, <2>4, DoneVerdict, HandledIsAnswer
    <2> QED BY <1>1, <2>5 DEF Queue!Next
  <1>4. CASE FinishAndNotify /\ Rejecting
    <2>1. mq[user] # <<>> /\ Head(remote.pipeline) = Head(mq[user])
      BY <1>4, RejectingFacts, SameHead
    <2>2. mq' = [mq EXCEPT ![user] = Tail(@)]
      BY <1>4, FinishAndNotifyOK
    <2>3. Closed(remote, FALSE).pipeline = remote.pipeline
      BY InvFacts, ClosedOK
    <2>4. told' = NotifyUser(Head(mq[user]), FALSE) /\ UNCHANGED <<issued, log>>
      BY <1>4, <2>1, <2>3 DEF FinishAndNotify, OnWriteStreamClose, Handled
    <2>5. Queue!Answer(user)
      BY <1>4, <2>1, <2>2, <2>4, RefusedVerdict, HandledIsAnswer
    <2> QED BY <1>1, <2>5 DEF Queue!Next
  <1>5. CASE Serve
    BY <1>1, <1>5, ServeIsApply DEF Queue!Next
  <1>6. CASE Crash
    <2>1. CASE UNCHANGED <<mq, told>>
      BY <1>6, <2>1 DEF Crash
    <2>2. CASE /\ Reading(remote.call) /\ remote.handshake
               /\ told' = NotifyUser(Head(remote.pipeline), TRUE)
               /\ UNCHANGED mq
      <3>1. mq[user] # <<>> /\ Head(remote.pipeline) = Head(mq[user])
        BY <2>2, DoneIsApplied
      <3>2. UNCHANGED told \/ Queue!Tell(Head(QueueOf[user]), TRUE)
        BY <2>2, <3>1, NotifyIsTell
      <3>3. CASE UNCHANGED told
        BY <1>6, <2>2, <3>3 DEF Crash
      <3>4. CASE Queue!Tell(Head(QueueOf[user]), TRUE)
        <4>1. QueueOf[user] # <<>>
          BY <1>1, <3>1, QueueOfFacts
        <4>2. TRUE \in Queue!Verdicts(user)
          BY <2>2, DoneVerdict
        <4>3. UNCHANGED <<issued, QueueOf, log>>
          BY <1>6, <2>2 DEF Crash, QueueOf
        <4>4. Queue!ToldAndKilled(user)
          BY <3>4, <4>1, <4>2, <4>3 DEF Queue!ToldAndKilled, QueueOf
        <4> QED BY <1>1, <4>4 DEF Queue!Next
      <3> QED BY <3>2, <3>3, <3>4
    <2>3. CASE /\ Rejecting /\ UNCHANGED told
               /\ mq' = [mq EXCEPT ![user] = RemoveMutationBatch(@, Head(remote.pipeline).id)]
      <3>1. mq[user] # <<>> /\ Head(remote.pipeline) = Head(mq[user])
        BY <2>3, RejectingFacts, SameHead
      <3>2. mq' = [mq EXCEPT ![user] = Tail(@)]
        BY <2>3, <3>1, InvFacts, RemoveHead
      <3>3. UNCHANGED <<issued, log>>
        BY <1>6 DEF Crash
      <3>4. Queue!Answer(user)
        BY <2>3, <3>1, <3>2, <3>3, RefusedVerdict, HandledIsAnswer
      <3> QED BY <1>1, <3>4 DEF Queue!Next
    <2> QED BY <1>6, <2>1, <2>2, <2>3 DEF Crash
  <1>7. CASE FinishAndNotify /\ ~Rejecting
    BY <1>7 DEF FinishAndNotify, OnWriteStreamClose
  <1>8. CASE RegisterPendingWritesCallback \/ HandleCredentialChange \/ SwitchNetwork \/ Break
    BY <1>8 DEF RegisterPendingWritesCallback, HandleCredentialChange, SwitchNetwork, Break
  <1>9. CASE \E c \in remote.creds : ResumeStartWithCredentials(c) \/ CredentialsFail(c)
    BY <1>9 DEF ResumeStartWithCredentials, CredentialsFail
  <1>10. CASE HealthCheck \/ BackoffElapsed \/ IdleTimeout
    BY <1>10 DEF HealthCheck, BackoffElapsed, IdleTimeout, Timer
  <1>11. CASE OnWriteStreamHandshakeComplete \/ OnWrite \/ OnOperationFailed
    BY <1>11 DEF OnWriteStreamHandshakeComplete, OnWrite, OnOperationFailed
  <1>12. CASE UNCHANGED vars
    BY <1>12 DEF vars
  <1> QED BY <1>2, <1>3, <1>4, <1>5, <1>6, <1>7, <1>8, <1>9, <1>10, <1>11, <1>12
          DEF Next, Progress, OnRead

\* The SDK implements WriteQueue: writes are applied and answered in order, at
\* most one answer each, and "done" only of what the server applied, through
\* broken calls, changes of account, the network going away and crashes.
THEOREM WritesImplementQueue == Spec => WritesAreQueued
  <1>1. Init => Queue!Init
    BY DEF Init, Queue!Init, Ops
  <1>2. WritesInv /\ [Next]_vars => [Queue!Next]_(Queue!vars)
    BY StepIsQueueStep DEF Queue!vars
  <1> QED BY <1>1, <1>2, WritesInvariant, PTL DEF Spec, WritesAreQueued, Queue!Spec

=============================================================================
