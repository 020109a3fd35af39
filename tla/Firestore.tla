------------------------------ MODULE Firestore ------------------------------
(***************************************************************************)
(* What the services under API/ get from the Firestore SDK (the pod         *)
(* FirebaseFirestore) and the server, while the device is online.  It      *)
(* abstracts what WritePipeline and Listen model in detail: a write is     *)
(* applied and answered in one step, and the device's cache is up to date  *)
(* with the server when a read is answered.                                *)
(*                                                                         *)
(*  - setData, updateData, delete and addDocument return at once: the      *)
(*    write joins the device's local queue.  The queue is sent in order    *)
(*    (WriteQueue); the completion block is put on the device's main queue *)
(*    when the server answers.                                             *)
(*  - getDocument and getDocuments return at once too.  Each is answered   *)
(*    when the server gets to it, in any order, with the server's          *)
(*    documents overlaid with the writes this device still has queued.     *)
(*  - completion blocks run one at a time, in order, on the main queue,    *)
(*    interleaved with the user's touches.                                 *)
(*  - killing the app loses the completion blocks and the unanswered       *)
(*    reads; the queued writes are on disk and are sent after the restart. *)
(***************************************************************************)
EXTENDS Integers, Sequences, SequencesExt, FiniteSetsExt

CONSTANTS Devices,    \* phones running the app
          NoDoc,      \* what a path holds when no document is stored there
          NoThen,     \* no completion block
          Failures    \* may the server refuse a write or fail to answer a read?

VARIABLES docs,       \* the server: path -> contents or NoDoc
          queue,      \* device -> writes not yet answered, oldest first
          gets,       \* device -> reads not yet answered
          mainq       \* device -> completion blocks waiting for the main queue

fsVars == <<docs, queue, gets, mainq>>

(***************************************************************************)
(* A write.  paths is a singleton, except for a forEach that issues the    *)
(* same call on several documents: these are sent one by one, in an order  *)
(* nothing depends on.  upd marks updateData, which the server refuses     *)
(* when there is no document; then is the completion block.  The documents *)
(* that are updated have one modelled field, so an update replaces the     *)
(* contents.                                                               *)
(***************************************************************************)
Write(ps, data, upd, then) ==
    [paths |-> ps, data |-> data, upd |-> upd, then |-> then]

setData(path, data, then) == Write({path}, data, FALSE, then)
updateData(path, data)    == Write({path}, data, TRUE, NoThen)
delete(path, then)        == Write({path}, NoDoc, FALSE, then)
deleteAll(ps, then)       == Write(ps, NoDoc, FALSE, then)

(***************************************************************************)
(* A read: one query that returns the documents ps together or, where each *)
(* is TRUE, a forEach with one getDocument per path, answered one by one.  *)
(***************************************************************************)
Read(ps, each, then) == [paths |-> ps, each |-> each, then |-> then]

getDocument(path, then)  == Read({path}, FALSE, then)
getDocuments(ps, then)   == Read(ps, FALSE, then)
getEach(ps, then)        == IF ps = {} THEN <<>> ELSE <<Read(ps, TRUE, then)>>

-----------------------------------------------------------------------------
\* An update needs a document.
Accepts(w, path) == w.upd => docs[path] # NoDoc

(***************************************************************************)
(* Contents of path as device d sees it: the server's, overlaid with d's   *)
(* queued writes.  An update counts only where there is a document.        *)
(***************************************************************************)
View(d, path) ==
    LET q    == queue[d]
        W    == {i \in DOMAIN q : path \in q[i].paths}
        S    == {i \in W : ~q[i].upd}
        base == IF S = {} THEN docs[path] ELSE q[Max(S)].data
    IN  IF W = {} \/ base = NoDoc THEN base ELSE q[Max(W)].data

-----------------------------------------------------------------------------
\* The oldest queued write, or one call of its forEach, is answered: done is
\* whether the server is ready to accept it.  The completion block runs either
\* way; its argument res tells whether there was no error.
Answer(d, done) ==
    /\ queue[d] # <<>>
    /\ LET w == Head(queue[d])
       IN \E path \in w.paths :
            /\ docs' = IF done /\ Accepts(w, path) THEN [docs EXCEPT ![path] = w.data] ELSE docs
            /\ queue' = [queue EXCEPT ![d] =
                 IF w.paths = {path} THEN Tail(@)
                 ELSE <<[w EXCEPT !.paths = @ \ {path}]>> \o Tail(@)]
            /\ mainq' = IF w.then = NoThen THEN mainq
                        ELSE [mainq EXCEPT ![d] = Append(@, [then |-> w.then, res |-> done /\ Accepts(w, path)])]
    /\ UNCHANGED gets

Commit(d) == Answer(d, TRUE)
Refuse(d) == Failures /\ Answer(d, FALSE)

\* The documents one answer to read r covers.
Part(r) == IF r.each THEN {{path} : path \in r.paths} ELSE {r.paths}

\* The read r without the documents ps.
Rest(d, i, ps) ==
    IF ps = gets[d][i].paths THEN [gets EXCEPT ![d] = RemoveAt(@, i)]
    ELSE [gets EXCEPT ![d][i].paths = @ \ ps]

\* The i-th unanswered read of d, or one call of its forEach, is answered.
Resolve(d, i) ==
    /\ \E ps \in Part(gets[d][i]) :
          /\ mainq' = [mainq EXCEPT ![d] = Append(@,
               [then |-> gets[d][i].then, res |-> [path \in ps |-> View(d, path)]])]
          /\ gets' = Rest(d, i, ps)
    /\ UNCHANGED <<docs, queue>>

\* It fails instead: every completion block of the services under API/ that
\* waits for a read returns at once on a nil snapshot.
Lose(d, i) ==
    /\ Failures
    /\ \E ps \in Part(gets[d][i]) : gets' = Rest(d, i, ps)
    /\ UNCHANGED <<docs, queue, mainq>>

Serve(d) == Commit(d) \/ \E i \in DOMAIN gets[d] : Resolve(d, i)
Fail(d)  == Refuse(d) \/ \E i \in DOMAIN gets[d] : Lose(d, i)

Network(d) == Serve(d) \/ Fail(d)

\* The main queue of d takes its next completion block; ws and rs are the
\* writes and reads which that block issues, in order.
Take(d, ws, rs) ==
    /\ queue' = [queue EXCEPT ![d] = @ \o ws]
    /\ gets'  = [gets  EXCEPT ![d] = @ \o rs]
    /\ mainq' = [mainq EXCEPT ![d] = Tail(@)]
    /\ UNCHANGED docs

\* The completion block at the head of the main queue of d, by kind.
Due(d, kind) == mainq[d] # <<>> /\ Head(mainq[d]).then.kind = kind
Block(d)  == Head(mainq[d]).then
Result(d) == Head(mainq[d]).res

\* Is the completion block b of a read still to run on d?
Awaited(d, b) ==
    \/ \E i \in DOMAIN gets[d] : gets[d][i].then = b
    \/ \E i \in DOMAIN mainq[d] : mainq[d][i].then = b

\* A touch handler on d issues the writes ws and the reads rs.
Issue(d, ws, rs) ==
    /\ queue' = [queue EXCEPT ![d] = @ \o ws]
    /\ gets'  = [gets  EXCEPT ![d] = @ \o rs]
    /\ UNCHANGED <<docs, mainq>>

\* The app is killed and started again, with the reads rs on launch.
Restart(d, rs) ==
    /\ queue' = [queue EXCEPT ![d] =
                   [i \in DOMAIN @ |-> [@[i] EXCEPT !.then = NoThen]]]
    /\ gets'  = [gets  EXCEPT ![d] = rs]
    /\ mainq' = [mainq EXCEPT ![d] = <<>>]
    /\ UNCHANGED docs

-----------------------------------------------------------------------------
\* Nothing of device d is in flight.
Quiet(d) == queue[d] = <<>> /\ gets[d] = <<>> /\ mainq[d] = <<>>

Quiescent == \A d \in Devices : Quiet(d)
=============================================================================
