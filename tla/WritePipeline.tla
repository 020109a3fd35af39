---------------------------- MODULE WritePipeline ----------------------------
(***************************************************************************)
(* How the Firestore SDK sends writes (Pods/FirebaseFirestore,             *)
(* Firestore/core/src): the mutation queue on disk (local/), SyncEngine    *)
(* with the completion blocks (core/), RemoteStore with the write pipeline *)
(* and the write stream over one gRPC call at a time (remote/).            *)
(*                                                                         *)
(* Everything of the SDK runs on one worker queue, so an action is one     *)
(* task of it: a call of the app, a timer, a gRPC completion, credentials  *)
(* that arrive, a change of account or of connectivity.  The synchronous   *)
(* calls between Stream, RemoteStore and SyncEngine are functions from one *)
(* RemoteStore to the next.  The server and the wire are external; a       *)
(* request is handled before its call ends or not at all.                  *)
(*                                                                         *)
(* Left out: stream tokens (recorded, never sent in the handshake),        *)
(* how long timers take, and the documents, which Firestore has.           *)
(***************************************************************************)
EXTENDS Integers, Sequences, SequencesExt, FiniteSets, FiniteSetsExt

CONSTANTS Users,             \* accounts that use the device
          Bad,               \* numbers of the writes the server refuses
          kMaxPendingWrites, \* limit of the pipeline
          MaxWrites,         \* bound: writes issued
          MaxFaults          \* bound: broken calls, changes of account or network, crashes

ASSUME PipelineAssumption == /\ kMaxPendingWrites \in Nat \ {0}
                             /\ MaxWrites \in Nat /\ MaxFaults \in Nat
                             /\ Bad \subseteq Nat

VARIABLES user,      \* SyncEngine.current_user_
          mq,        \* on disk: account -> its mutation batches, by batch id
          nextId,    \* MutationQueue.next_batch_id_
          callbacks, \* SyncEngine.mutation_callbacks_: account -> batch ids
          waiters,   \* SyncEngine.pending_writes_callbacks_
          remote,    \* RemoteStore and its write stream
          issued,    \* writes issued so far
          log,       \* external: what the server applied
          told,      \* the answers completion blocks were given
          faults     \* faults so far

vars == <<user, mq, nextId, callbacks, waiters, remote, issued, log, told, faults>>

-----------------------------------------------------------------------------
(***************************************************************************)
(* Status of an ended call.                                                *)
(***************************************************************************)
IsPermanentError(status) == status \in {"aborted", "denied"}
\* Variant with a bug: contention ends a write for good.
AbortedIsPermanent(status) == IsPermanentError(status)

IsPermanentWriteError(status) == IsPermanentError(status) /\ status # "aborted"

(***************************************************************************)
(* A gRPC call: requests waiting in the BufferedWriter, whether one is     *)
(* being written, whether Finish has been asked for; and, external, the    *)
(* requests the server has not handled, the responses not yet read and how *)
(* the call ended.                                                         *)
(***************************************************************************)
NoCall  == [buffer |-> <<>>, active |-> FALSE, finished |-> FALSE,
            wire |-> <<>>, resp |-> <<>>, status |-> "none"]
NewCall == [NoCall EXCEPT !.status = "running"]

Handshake == 0       \* the first request and its response; a write is its number

\* BufferedWriter: one request is written at a time.
EnqueueWrites(call, ms) ==
    LET b == call.buffer \o ms
    IN IF call.active \/ b = <<>> THEN [call EXCEPT !.buffer = b]
       ELSE [call EXCEPT !.active = TRUE, !.wire = Append(@, Head(b)), !.buffer = Tail(b)]

DequeueNextWrite(call) == EnqueueWrites([call EXCEPT !.active = FALSE], <<>>)

-----------------------------------------------------------------------------
(***************************************************************************)
(* RemoteStore and its write stream.  creds holds, for each request for    *)
(* credentials under way, the close count it was issued with.              *)
(***************************************************************************)
NewRemote == [network |-> FALSE, pipeline |-> <<>>, state |-> "Initial",
              handshake |-> FALSE, timers |-> {}, closeCount |-> 0,
              creds |-> {}, call |-> NoCall]

IsOpen(r)    == r.state \in {"Open", "Healthy"}
IsStarted(r) == r.state \in {"Starting", "Backoff"} \/ IsOpen(r)

RequestCredentials(r) == [r EXCEPT !.creds = @ \cup {r.closeCount}]

BackoffAndTryRestarting(r) == [r EXCEPT !.state = "Backoff", !.timers = @ \cup {"backoff"}]

Start(r) == IF r.state = "Error" THEN BackoffAndTryRestarting(r)
            ELSE RequestCredentials([r EXCEPT !.state = "Starting"])

InhibitBackoff(r) == [r EXCEPT !.state = "Initial"]

MarkIdle(r) == IF IsOpen(r) THEN [r EXCEPT !.timers = @ \cup {"idle"}] ELSE r

\* Stream::Write, once for each of ms.
SendAll(r, ms) ==
    IF ms = <<>> THEN r
    ELSE [r EXCEPT !.timers = @ \ {"idle"}, !.call = EnqueueWrites(@, ms)]

\* Variant with a bug: requests for credentials survive a close.
KeepsCloseCount(r, ok) ==
    [r EXCEPT !.timers = {}, !.call = NoCall,
              !.state = IF ok THEN "Initial" ELSE "Error"]

\* Stream::Close up to the call of NotifyStreamClose.
Closed(r, ok) ==
    [r EXCEPT !.timers = {}, !.closeCount = @ + 1, !.call = NoCall,
              !.state = IF ok THEN "Initial" ELSE "Error"]

Stop(r) == IF IsStarted(r) THEN [Closed(r, TRUE) EXCEPT !.handshake = FALSE] ELSE r

ShouldStartWriteStream(r) == r.network /\ ~IsStarted(r) /\ r.pipeline # <<>>

Restarted(r) == IF ShouldStartWriteStream(r) THEN Start(r) ELSE r

\* The batches of q the loop of FillWritePipeline adds: from the first one with
\* a batch id after the pipeline's last (GetNextMutationBatchAfterBatchId).
NextBatches(r, q) ==
    LET last == IF r.pipeline = <<>> THEN -1 ELSE Last(r.pipeline).id
        done == Cardinality({i \in DOMAIN q : q[i].id <= last})
        room == kMaxPendingWrites - Len(r.pipeline)
    IN IF ~r.network \/ room <= 0 THEN <<>>
       ELSE SubSeq(q, done + 1, Min({done + room, Len(q)}))

Ops(batches) == [i \in DOMAIN batches |-> batches[i].w]

\* Variant with a bug: writes are sent before the handshake is answered.
FillsBeforeHandshake(r, q) ==
    LET new    == NextBatches(r, q)
        filled == [r EXCEPT !.pipeline = @ \o new]
        sent   == IF IsOpen(r) THEN SendAll(filled, Ops(new)) ELSE filled
    IN Restarted(IF r.network /\ filled.pipeline = <<>> THEN MarkIdle(sent) ELSE sent)

FillWritePipeline(r, q) ==
    LET new    == NextBatches(r, q)
        filled == [r EXCEPT !.pipeline = @ \o new]
        sent   == IF IsOpen(r) /\ r.handshake THEN SendAll(filled, Ops(new)) ELSE filled
    IN Restarted(IF r.network /\ filled.pipeline = <<>> THEN MarkIdle(sent) ELSE sent)

EnableNetwork(r, q) == FillWritePipeline([r EXCEPT !.network = TRUE], q)

DisableNetwork(r) == [Stop([r EXCEPT !.network = FALSE]) EXCEPT !.pipeline = <<>>]

RestartNetwork(r, q) == EnableNetwork(InhibitBackoff(DisableNetwork(r)), q)

-----------------------------------------------------------------------------
\* LevelDbMutationQueue
Ids(q) == {q[i].id : i \in DOMAIN q}

\* Variant with a bug: only the current account's batches are looked at.
LoadsOwnBatchId(queues) == 1 + Max({0} \cup Ids(queues[user]))

LoadNextBatchId(queues) == 1 + Max({0} \cup UNION {Ids(queues[u]) : u \in Users})

AddMutationBatch(q, w) == Append(q, [id |-> nextId, w |-> w])

RemoveMutationBatch(q, id) == RemoveAt(q, SelectInSeq(q, LAMBDA b : b.id = id))

\* SyncEngine::NotifyUser: the completion block, if there still is one.
NotifyUser(batch, ok) ==
    IF batch.id \in callbacks[user]
    THEN Append(told, [w |-> batch.w, ok |-> ok]) ELSE told

\* The current account's batch is answered, leaving RemoteStore as r.
Handled(batch, ok, r) ==
    /\ told' = NotifyUser(batch, ok)
    /\ callbacks' = [callbacks EXCEPT ![user] = @ \ {batch.id}]
    /\ waiters' = {x \in waiters : x.id # batch.id}
    /\ mq' = [mq EXCEPT ![user] = RemoveMutationBatch(@, batch.id)]
    /\ remote' = r
    /\ UNCHANGED <<user, nextId, issued, log, faults>>

\* The worker queue is about to reject the oldest write of the pipeline.
Rejecting == /\ remote.call.finished /\ remote.handshake /\ remote.pipeline # <<>>
             /\ IsPermanentWriteError(remote.call.status)

\* Variant with a bug: after a refused write the stream waits for the next one.
WaitsAfterRefusal ==
    LET r == Closed(remote, FALSE)
    IN IF Rejecting
       THEN Handled(Head(r.pipeline), FALSE,
              [r EXCEPT !.pipeline = Tail(@), !.state = "Initial", !.handshake = FALSE])
       ELSE /\ remote' = [Restarted(r) EXCEPT !.handshake = FALSE]
            /\ UNCHANGED <<user, mq, nextId, callbacks, waiters, issued, log, told, faults>>

\* The write stream closed with an error: HandleWriteError or
\* HandleHandshakeError, the restart, and the reset of handshake_complete_.
OnWriteStreamClose ==
    LET r == Closed(remote, FALSE)
        batch == Head(r.pipeline)
    IN IF Rejecting
       THEN Handled(batch, FALSE,
              [Restarted(FillWritePipeline(
                   InhibitBackoff([r EXCEPT !.pipeline = Tail(@)]), mq'[user]))
               EXCEPT !.handshake = FALSE])
       ELSE /\ remote' = [Restarted(r) EXCEPT !.handshake = FALSE]
            /\ UNCHANGED <<user, mq, nextId, callbacks, waiters, issued, log, told, faults>>

-----------------------------------------------------------------------------
Init ==
    /\ user \in Users
    /\ mq = [u \in Users |-> <<>>]
    /\ nextId = 1
    /\ callbacks = [u \in Users |-> {}]
    /\ waiters = {}
    /\ remote = EnableNetwork(NewRemote, <<>>)
    /\ issued = 0
    /\ log = <<>>
    /\ told = <<>>
    /\ faults = 0

\* The app writes a document: LocalStore::WriteLocally, then FillWritePipeline.
WriteMutations ==
    /\ issued < MaxWrites
    /\ issued' = issued + 1
    /\ mq' = [mq EXCEPT ![user] = AddMutationBatch(@, issued')]
    /\ nextId' = nextId + 1
    /\ callbacks' = [callbacks EXCEPT ![user] = @ \cup {nextId}]
    /\ remote' = FillWritePipeline(remote, mq'[user])
    /\ UNCHANGED <<user, waiters, log, told, faults>>

\* waitForPendingWrites, with the writes it has to wait for.
RegisterPendingWritesCallback ==
    /\ mq[user] # <<>>
    /\ waiters' = waiters \cup {[id |-> Last(mq[user]).id, pending |-> ToSet(Ops(mq[user]))]}
    /\ UNCHANGED <<user, mq, nextId, callbacks, remote, issued, log, told, faults>>

Disturb == faults < MaxFaults /\ faults' = faults + 1

\* Sign-in, sign-out, or a new token for the same account.
HandleCredentialChange ==
    /\ Disturb
    /\ user' \in Users
    /\ waiters' = IF user' = user THEN waiters ELSE {}
    /\ nextId' = IF user' = user THEN nextId ELSE LoadNextBatchId(mq)
    /\ remote' = IF remote.network THEN RestartNetwork(remote, mq[user']) ELSE remote
    /\ UNCHANGED <<mq, callbacks, issued, log, told>>

\* The app turns the network off or on.
SwitchNetwork ==
    /\ Disturb
    /\ remote' = IF remote.network THEN DisableNetwork(remote)
                                   ELSE EnableNetwork(remote, mq[user])
    /\ UNCHANGED <<user, mq, nextId, callbacks, waiters, issued, log, told>>

\* Credentials arrive: the gRPC call is made and the handshake written.
ResumeStartWithCredentials(c) ==
    /\ remote' = IF c # remote.closeCount THEN [remote EXCEPT !.creds = @ \ {c}]
                 ELSE [SendAll([remote EXCEPT !.creds = @ \ {c}, !.state = "Open",
                                              !.call = NewCall], <<Handshake>>)
                       EXCEPT !.timers = @ \cup {"health"}]
    /\ UNCHANGED <<user, mq, nextId, callbacks, waiters, issued, log, told, faults>>

\* There are none to be had.
CredentialsFail(c) ==
    /\ Disturb
    /\ c = remote.closeCount
    /\ remote' = [Restarted(Closed([remote EXCEPT !.creds = @ \ {c}], FALSE)) EXCEPT !.handshake = FALSE]
    /\ UNCHANGED <<user, mq, nextId, callbacks, waiters, issued, log, told>>

\* The timer t of the write stream fires and leaves the stream as r.
Timer(t, r) ==
    /\ t \in remote.timers
    /\ remote' = [r EXCEPT !.timers = @ \ {t}]
    /\ UNCHANGED <<user, mq, nextId, callbacks, waiters, issued, log, told, faults>>

HealthCheck    == Timer("health", IF IsOpen(remote) THEN [remote EXCEPT !.state = "Healthy"] ELSE remote)
BackoffElapsed == Timer("backoff", Start([remote EXCEPT !.state = "Initial"]))
IdleTimeout    == Timer("idle", Stop(remote))

\* The pending Read brought a response: the first one ends the handshake and
\* the pipeline is sent, the next ones answer the oldest write.
Reading(call) == call.resp # <<>> /\ ~call.finished

OnWriteStreamHandshakeComplete ==
    /\ Reading(remote.call) /\ ~remote.handshake
    /\ remote' = SendAll([remote EXCEPT !.handshake = TRUE, !.call.resp = Tail(@)],
                         Ops(remote.pipeline))
    /\ UNCHANGED <<user, mq, nextId, callbacks, waiters, issued, log, told, faults>>

OnWriteStreamMutationResult ==
    /\ Reading(remote.call) /\ remote.handshake
    /\ LET batch == Head(remote.pipeline)
       IN Handled(batch, TRUE,
            FillWritePipeline([remote EXCEPT !.pipeline = Tail(@), !.call.resp = Tail(@)], mq'[user]))

OnRead == OnWriteStreamHandshakeComplete \/ OnWriteStreamMutationResult

\* The pending Write went out (its request is the last on the wire).
OnWrite ==
    /\ remote.call.active /\ ~remote.call.finished
    /\ remote.call.status = "running" \/ remote.call.wire = <<>>
    /\ remote' = [remote EXCEPT !.call = DequeueNextWrite(@)]
    /\ UNCHANGED <<user, mq, nextId, callbacks, waiters, issued, log, told, faults>>

\* The pending Write, or a Read after the last response, failed because the
\* call has ended: Finish is asked for and the other completion cancelled,
\* with the responses it would have brought.
OnOperationFailed ==
    /\ remote.call.status \notin {"none", "running"}
    /\ ~remote.call.finished
    /\ (remote.call.active /\ remote.call.wire # <<>>) \/ remote.call.resp = <<>>
    /\ remote' = [remote EXCEPT !.call.finished = TRUE]
    /\ UNCHANGED <<user, mq, nextId, callbacks, waiters, issued, log, told, faults>>

\* Finish brought the status of the call.
FinishAndNotify == /\ remote.call.finished
                   /\ OnWriteStreamClose

-----------------------------------------------------------------------------
\* External: the server takes the next request of the call.  A write it
\* refuses ends the call.
Serve ==
    /\ remote.call.status = "running"
    /\ remote.call.wire # <<>>
    /\ LET w == Head(remote.call.wire)
       IN IF w \in Bad
          THEN /\ remote' = [remote EXCEPT !.call.wire = Tail(@), !.call.status = "denied"]
               /\ UNCHANGED log
          ELSE /\ remote' = [remote EXCEPT !.call.wire = Tail(@), !.call.resp = Append(@, w)]
               /\ log' = IF w = Handshake THEN log ELSE Append(log, w)
    /\ UNCHANGED <<user, mq, nextId, callbacks, waiters, issued, told, faults>>

\* External: the call ends for a reason of its own, with the last responses
\* perhaps lost.  Only a handshake is denied without a refused write.
Break ==
    /\ Disturb
    /\ remote.call.status = "running"
    /\ \E status \in {"unavailable", "aborted"} \cup (IF remote.handshake THEN {} ELSE {"denied"}),
          k \in 0..Len(remote.call.resp) :
            /\ status = "denied" => remote.call.resp = <<>>
            /\ remote' = [remote EXCEPT !.call.status = status, !.call.resp = SubSeq(@, 1, k)]
    /\ UNCHANGED <<user, mq, nextId, callbacks, waiters, issued, log, told>>

\* External: the process dies and is started again with what is on disk.  It
\* may have told the app about the response it is reading and not yet have
\* removed the batch, or have removed a rejected batch and not told the app.
Crash ==
    /\ Disturb
    /\ \/ UNCHANGED <<mq, told>>
       \/ /\ Reading(remote.call) /\ remote.handshake
          /\ told' = NotifyUser(Head(remote.pipeline), TRUE)
          /\ UNCHANGED mq
       \/ /\ Rejecting
          /\ mq' = [mq EXCEPT ![user] = RemoveMutationBatch(@, Head(remote.pipeline).id)]
          /\ UNCHANGED told
    /\ callbacks' = [u \in Users |-> {}]
    /\ waiters' = {}
    /\ nextId' = LoadNextBatchId(mq')
    /\ remote' = EnableNetwork(NewRemote, mq'[user])
    /\ UNCHANGED <<user, issued, log>>

\* What happens without the app, the user or a fault.
Progress == \/ \E c \in remote.creds : ResumeStartWithCredentials(c)
            \/ HealthCheck \/ BackoffElapsed \/ IdleTimeout
            \/ OnRead \/ OnWrite \/ OnOperationFailed \/ FinishAndNotify
            \/ Serve

Next == \/ WriteMutations \/ RegisterPendingWritesCallback
        \/ HandleCredentialChange \/ SwitchNetwork
        \/ Progress
        \/ \E c \in remote.creds : CredentialsFail(c)
        \/ Break \/ Crash

\* Timers fire, credentials arrive, the server answers: each kind of task of
\* the worker queue gets its turn.
Fairness == /\ WF_vars(\E c \in remote.creds : ResumeStartWithCredentials(c))
            /\ WF_vars(BackoffElapsed)
            /\ WF_vars(OnRead) /\ WF_vars(OnWrite)
            /\ WF_vars(OnOperationFailed) /\ WF_vars(FinishAndNotify)
            /\ WF_vars(Serve)

Spec == Init /\ [][Next]_vars /\ Fairness

-----------------------------------------------------------------------------
(***************************************************************************)
(* The pipeline is the oldest part of the account's queue, as much of it   *)
(* as the limit allows and nothing while the network is off; batch ids     *)
(* grow along a queue and are never shared by two accounts, so that a      *)
(* completion block is never run for another write; and a call of          *)
(* waitForPendingWrites waits for the last batch it has to wait for.       *)
(* (FillWritePipeline, LoadNextBatchIdFromDb, RegisterPendingWrites.)      *)
(***************************************************************************)
PipelineInv ==
    /\ user \in Users
    /\ remote.state \in {"Initial", "Starting", "Open", "Healthy", "Backoff", "Error"}
    /\ remote.timers \subseteq {"idle", "backoff", "health"}
    /\ IsPrefix(remote.pipeline, mq[user])
    /\ Len(remote.pipeline) =
         IF remote.network THEN Min({kMaxPendingWrites, Len(mq[user])}) ELSE 0
    /\ \A u \in Users :
         /\ \A i, j \in DOMAIN mq[u] : i < j => mq[u][i].id < mq[u][j].id
         /\ \A v \in Users \ {u} : Ids(mq[u]) \cap Ids(mq[v]) = {}
         /\ \A id \in Ids(mq[u]) : 0 < id /\ id < nextId
         /\ callbacks[u] \subseteq Ids(mq[u])
    /\ \A x \in waiters : \E i \in DOMAIN mq[user] :
         /\ mq[user][i].id = x.id
         /\ x.pending \cap ToSet(Ops(mq[user])) = ToSet(Ops(SubSeq(mq[user], 1, i)))

(***************************************************************************)
(* Responses carry no name of their write: the oldest unread one is always *)
(* the answer to the oldest write of the pipeline, and while a call runs   *)
(* every write of the pipeline is on it exactly once, in order.            *)
(* (OnWriteStreamMutationResult takes the front of write_pipeline_.)       *)
(***************************************************************************)
ResponsesMatch ==
    LET call  == remote.call
        asked == IF remote.handshake THEN Ops(remote.pipeline) ELSE <<Handshake>>
    IN /\ IsOpen(remote) /\ ~call.finished => IsPrefix(call.resp, asked)
       /\ call.status = "running" => call.resp \o call.wire \o call.buffer = asked

(***************************************************************************)
(* No HARD_ASSERT on the way of a write can fail: credentials that are not *)
(* stale find the stream starting; backoff elapses only in backoff; an     *)
(* idle stream that is stopped has no writes; a response has a write; a    *)
(* handshake is not made twice; a batch that is rejected exists.           *)
(* (stream.cc:171 and 212, remote_store.cc:447 and 466,                    *)
(* write_stream.cc:74, local_store.cc:297.)                                *)
(***************************************************************************)
AssertionsHold ==
    /\ remote.closeCount \in remote.creds => remote.state = "Starting" /\ ~remote.handshake
    /\ "backoff" \in remote.timers <=> remote.state = "Backoff"
    /\ "idle" \in remote.timers => ~ShouldStartWriteStream(Stop(remote))
    /\ Reading(remote.call) /\ remote.handshake => remote.pipeline # <<>>
    /\ IsOpen(remote) <=> remote.call # NoCall
    /\ remote.pipeline # <<>> => Head(remote.pipeline).id \in Ids(mq[user])

(***************************************************************************)
(* The whole of it does what WriteQueue promises: writes are applied and   *)
(* answered in order, at most one answer each, and "done" only of what the *)
(* server applied, through broken calls, changes of account, the network   *)
(* going away and crashes.                                                 *)
(***************************************************************************)
Queue == INSTANCE WriteQueue WITH queue <- [u \in Users |-> Ops(mq[u])]

WritesAreQueued == Queue!Spec

(***************************************************************************)
(* As long as an account stays signed in and the network stays on, its     *)
(* queue is emptied, however calls break.  (Backoff, FillWritePipeline and *)
(* the restart in OnWriteStreamClose.)                                     *)
(***************************************************************************)
QueueDrains ==
    \A u \in Users : <>[](user = u /\ remote.network) => <>[](mq[u] = <<>>)
=============================================================================
