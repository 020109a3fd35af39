----------------------------- MODULE WatchClient -----------------------------
(***************************************************************************)
(* The listening side of the Firestore SDK (Pods/FirebaseFirestore,        *)
(* Firestore/core/src) as functions from one state c of the client to the  *)
(* next: listeners (EventManager, QueryListener), the view of a query and  *)
(* its limbo documents (View, SyncEngine), the cache (LocalStore), the     *)
(* online state (OnlineStateTracker), the watched targets (RemoteStore)    *)
(* and what has arrived for them since the last snapshot                   *)
(* (WatchChangeAggregator).  Listen has the state and the actions.         *)
(*                                                                         *)
(* One query is listened to; a document is "in" its result or "out" of it, *)
(* and contents are left out otherwise.  Local writes are WritePipeline's. *)
(***************************************************************************)
EXTENDS Integers, Sequences, SequencesExt, FiniteSets, FiniteSetsExt, Functions, TLC

CONSTANTS Keys,       \* documents
          Listeners,  \* listeners the app may add to the query
          Once,       \* those that are getDocuments: they go with their answer
          kMaxLimbo,  \* SyncEngine.max_concurrent_limbo_resolutions_
          NoDoc, None

Q == 0                \* target id of the query; limbo targets have higher ids

\* A HARD_ASSERT: what fails is remembered.
Assert_(c, holds, name) == IF holds THEN c ELSE [c EXCEPT !.failed = @ \cup {name}]

-----------------------------------------------------------------------------
(***************************************************************************)
(* QueryListener and EventManager.                                         *)
(***************************************************************************)
ShouldRaiseInitialEvent(l, snap, online) ==
    \/ ~snap.cached
    \/ /\ ~(l \in Once /\ online # "Offline")
       /\ snap.docs # {} \/ online = "Offline"

NoListener == [st |-> "off", snap |-> None, event |-> None]

\* Listener l gets its first event; a getDocuments is then removed.
RaiseInitialEvent(l, x, snap) ==
    [x EXCEPT !.snap = snap, !.event = snap, !.st = IF l \in Once THEN "leaving" ELSE "raised"]

\* Every listener is shown snap; changed says whether documents came or went.
OnViewSnapshots(c, snap, changed) ==
    [c EXCEPT !.last = snap,
       !.listeners = [l \in Listeners |->
          LET x == c.listeners[l]
          IN CASE x.st = "waiting" /\ ShouldRaiseInitialEvent(l, snap, c.online) ->
                      RaiseInitialEvent(l, x, snap)
               [] x.st = "waiting" /\ ~ShouldRaiseInitialEvent(l, snap, c.online) ->
                      [x EXCEPT !.snap = snap]
               [] x.st = "raised" -> [x EXCEPT !.snap = snap, !.event = IF changed THEN snap ELSE @]
               [] OTHER -> x]]

OnOnlineStateChanged(c, online) ==
    [c EXCEPT !.online = online,
       !.listeners = [l \in Listeners |->
          LET x == c.listeners[l]
          IN IF x.st = "waiting" /\ x.snap # None /\ ShouldRaiseInitialEvent(l, x.snap, online)
             THEN RaiseInitialEvent(l, x, x.snap) ELSE x]]

-----------------------------------------------------------------------------
(***************************************************************************)
(* View: the documents shown, those the server has confirmed, those in     *)
(* limbo (shown, not confirmed), and whether the server is up to date.     *)
(***************************************************************************)
NewView(docs, synced) ==
    [docs |-> docs, synced |-> synced, limbo |-> {}, current |-> FALSE, sync |-> "None"]

NoChange == [added |-> {}, modified |-> {}, removed |-> {}]

ApplyTargetChange(v, tc) ==
    [v EXCEPT !.synced = (@ \cup tc.added) \ tc.removed, !.current = tc.current]

UpdateLimboDocuments(v) ==
    IF v.current THEN [v EXCEPT !.limbo = v.docs \ v.synced] ELSE v

SyncState(v) == IF v.current /\ v.limbo = {} THEN "Synced" ELSE "Local"

Synced(v) == [v EXCEPT !.sync = SyncState(v)]

\* The listeners are shown the change from the view old to c's.
Emit(c, old) ==
    IF c.view.docs = old.docs /\ c.view.sync = old.sync THEN c
    ELSE OnViewSnapshots(c, [docs |-> c.view.docs, cached |-> c.view.sync = "Local"],
                         c.view.docs # old.docs)

ApplyOnlineStateChange(c, online) ==
    IF c.view # None /\ c.view.current /\ online = "Offline"
    THEN Emit([c EXCEPT !.view = Synced([@ EXCEPT !.current = FALSE])], c.view)
    ELSE c

-----------------------------------------------------------------------------
(***************************************************************************)
(* OnlineStateTracker.                                                     *)
(***************************************************************************)
kMaxWatchStreamFailures == 1

SetAndBroadcast(c, online) ==
    IF c.online = online THEN c
    ELSE OnOnlineStateChanged(ApplyOnlineStateChange(c, online), online)

\* Mutant: the timer goes on when the state is known.
KeepsTimer(c, online) == SetAndBroadcast([c EXCEPT !.failures = 0], online)

UpdateState(c, online) == SetAndBroadcast([c EXCEPT !.timer = FALSE, !.failures = 0], online)

HandleWatchStreamStart(c) ==
    IF c.failures # 0 THEN c
    ELSE [Assert_(SetAndBroadcast(c, "Unknown"), ~c.timer, "timer") EXCEPT !.timer = TRUE]

HandleWatchStreamFailure(c) ==
    IF c.online = "Online"
    THEN SetAndBroadcast(Assert_(c, c.failures = 0 /\ ~c.timer, "failure"), "Unknown")
    ELSE LET d == [c EXCEPT !.failures = Min({@ + 1, kMaxWatchStreamFailures})]
         IN IF d.failures < kMaxWatchStreamFailures THEN d
            ELSE SetAndBroadcast([d EXCEPT !.timer = FALSE], "Offline")

-----------------------------------------------------------------------------
(***************************************************************************)
(* WatchChangeAggregator, the part RemoteStore needs here: requests a      *)
(* target still waits for.                                                 *)
(***************************************************************************)
NewTargetState == [pending |-> 0, current |-> FALSE, changed |-> FALSE,
                   token |-> 0, change |-> NoChange]

NewAggregator == [states |-> <<>>, updates |-> <<>>, resets |-> {}]

EnsureTargetState(c, t) ==
    IF t \in DOMAIN c.agg.states THEN c
    ELSE [c EXCEPT !.agg.states = @ @@ (t :> NewTargetState)]

RemoveTarget(c, t) == [c EXCEPT !.agg.states = Restrict(@, DOMAIN @ \ {t})]

RecordPendingTargetRequest(c, t) ==
    [EnsureTargetState(c, t) EXCEPT !.agg.states[t].pending = @ + 1]

-----------------------------------------------------------------------------
(***************************************************************************)
(* RemoteStore: targets maps each watched target to the version its resume *)
(* token stands for, 0 without one.  Of the watch stream only what Stream  *)
(* tells RemoteStore is kept: not started, started, open, idle timer set.  *)
(***************************************************************************)
LimboKey(c, t) == CHOOSE k \in DOMAIN c.limbo : c.limbo[k].t = t
IsLimbo(c, t)  == \E k \in DOMAIN c.limbo : c.limbo[k].t = t

\* What a request for target t asks for: the query, or one document.
Subject(c, t) == IF t = Q THEN None ELSE LimboKey(c, t)

SendWatchRequest(c, t, token) ==
    [RecordPendingTargetRequest(c, t) EXCEPT !.idle = FALSE,
       !.requests = Append(@, [add |-> TRUE, t |-> t, token |-> token, of |-> Subject(c, t)])]

SendUnwatchRequest(c, t) ==
    [RecordPendingTargetRequest(c, t) EXCEPT !.idle = FALSE,
       !.requests = Append(@, [add |-> FALSE, t |-> t])]

ShouldStartWatchStream(c) == c.network /\ c.stream = "stopped" /\ c.targets # <<>>

StartWatchStream(c) ==
    HandleWatchStreamStart([c EXCEPT !.agg = NewAggregator, !.stream = "started"])

Listen(c, t, token) ==
    LET d == [c EXCEPT !.targets = @ @@ (t :> token)]
    IN CASE t \in DOMAIN c.targets    -> c
         [] ShouldStartWatchStream(d) -> StartWatchStream(d)
         [] d.stream = "open"         -> SendWatchRequest(d, t, token)
         [] OTHER                     -> d

StopListening(c, t) ==
    LET e == [c EXCEPT !.targets = Restrict(@, DOMAIN @ \ {t})]
        d == Assert_(e, t \in DOMAIN c.targets, "unwatch")
        s == IF d.stream = "open" THEN SendUnwatchRequest(d, t) ELSE d
    IN CASE s.targets # <<>>    -> s
         [] s.stream = "open"   -> [s EXCEPT !.idle = TRUE]
         [] s.network           -> UpdateState(s, "Unknown")
         [] OTHER               -> s

\* The watch stream ends, in good order or not.
StopWatchStream(c) ==
    IF c.stream = "stopped" THEN c
    ELSE LET d == [c EXCEPT !.stream = "stopped", !.idle = FALSE, !.agg = NewAggregator,
                            !.requests = <<>>]
         IN UpdateState(Assert_(d, ~ShouldStartWatchStream(d), "needed"), "Unknown")

OnWatchStreamClose(c) ==
    LET d == [c EXCEPT !.stream = "stopped", !.idle = FALSE, !.agg = NewAggregator,
                       !.requests = <<>>]
    IN IF ShouldStartWatchStream(d) THEN StartWatchStream(HandleWatchStreamFailure(d))
       ELSE UpdateState(d, "Unknown")

EnableNetwork(c) ==
    LET d == [c EXCEPT !.network = TRUE]
    IN IF ShouldStartWatchStream(d) THEN StartWatchStream(d) ELSE UpdateState(d, "Unknown")

\* Mutant: without the network the state is unknown.
GoesUnknown(c) == UpdateState(StopWatchStream([c EXCEPT !.network = FALSE]), "Unknown")

DisableNetwork(c) == UpdateState(StopWatchStream([c EXCEPT !.network = FALSE]), "Offline")

RestartNetwork(c) ==
    EnableNetwork(UpdateState(StopWatchStream([c EXCEPT !.network = FALSE]), "Unknown"))

-----------------------------------------------------------------------------
(***************************************************************************)
(* SyncEngine: a document in limbo gets a target of its own, kMaxLimbo of  *)
(* them at a time, the others wait in a queue.                             *)
(***************************************************************************)
PumpOne(c) ==
    IF c.limboQueue = <<>> \/ Cardinality(DOMAIN c.limbo) >= kMaxLimbo THEN c
    ELSE LET k == Head(c.limboQueue)
             d == [c EXCEPT !.limboQueue = Tail(@), !.nextId = @ + 1,
                            !.limbo = @ @@ (k :> [t |-> c.nextId, received |-> FALSE])]
         IN Listen(d, c.nextId, 0)

PumpEnqueuedLimboResolutions(c) == FoldLeft(LAMBDA d, k : PumpOne(d), c, c.limboQueue)

TrackLimboChange(c, k) ==
    IF k \in DOMAIN c.limbo \/ k \in ToSet(c.limboQueue) THEN c
    ELSE PumpEnqueuedLimboResolutions([c EXCEPT !.limboQueue = Append(@, k)])

\* Mutant: a lookup that ends starts no other.
StartsNoOther(c, k) ==
    LET d == [c EXCEPT !.limboQueue = SelectSeq(@, LAMBDA j : j # k)]
    IN IF k \notin DOMAIN c.limbo THEN d
       ELSE [StopListening(d, d.limbo[k].t) EXCEPT !.limbo = Restrict(@, DOMAIN @ \ {k})]

RemoveLimboTarget(c, k) ==
    LET d == [c EXCEPT !.limboQueue = SelectSeq(@, LAMBDA j : j # k)]
    IN IF k \notin DOMAIN c.limbo THEN d
       ELSE PumpEnqueuedLimboResolutions(
              [StopListening(d, d.limbo[k].t) EXCEPT !.limbo = Restrict(@, DOMAIN @ \ {k})])

\* The limbo documents change from ks to c's view's.
UpdateTrackedLimboDocuments(c, ks) ==
    LET gone == FoldSet(LAMBDA k, d : RemoveLimboTarget(d, k), c, ks \ c.view.limbo)
    IN FoldSet(LAMBDA k, d : TrackLimboChange(d, k), gone, c.view.limbo \ ks)

GetRemoteKeys(c, t) ==
    CASE IsLimbo(c, t) /\ c.limbo[LimboKey(c, t)].received -> {LimboKey(c, t)}
      [] t = Q /\ c.view # None                           -> c.view.synced
      [] OTHER                                            -> {}

\* The query's documents in the cache.
ExecuteQuery(c) == {k \in Keys : c.cache[k].val = "in"}

\* The view becomes v, then limbo targets are adjusted and listeners told.
ApplyChanges(c, v) ==
    LET w == Synced(UpdateLimboDocuments(v))
    IN Emit(UpdateTrackedLimboDocuments([c EXCEPT !.view = w], c.view.limbo), c.view)

SyncEngineListen(c) ==
    LET d == Listen([c EXCEPT !.local = c.disk.token], Q, c.disk.token)
    IN ApplyChanges([d EXCEPT !.view = NewView({}, {})], NewView(ExecuteQuery(d), d.disk.keys))

\* Mutant: the lookups for the query go on without it.
KeepsLookups(c, ks) == c

\* The query's target is gone: forget its limbo documents.
RemoveAndCleanupTarget(c, ks) == FoldSet(LAMBDA k, d : RemoveLimboTarget(d, k), c, ks)

SyncEngineStopListening(c) ==
    RemoveAndCleanupTarget(
        StopListening([c EXCEPT !.view = None, !.last = None, !.disk.token = c.local], Q),
        c.view.limbo)

-----------------------------------------------------------------------------
(***************************************************************************)
(* WatchChangeAggregator: what the server sends about a target that still  *)
(* waits for responses, or is no longer watched, is ignored.               *)
(***************************************************************************)
IsActiveTarget(c, t) ==
    /\ t \in DOMAIN c.targets
    /\ t \in DOMAIN c.agg.states => c.agg.states[t].pending = 0

\* TargetState::AddDocumentChange and RemoveDocumentChange.
Changed(s, k, kind) ==
    [s EXCEPT !.changed = TRUE,
       !.change = [x \in DOMAIN @ |-> IF x = kind THEN @[x] \cup {k} ELSE @[x] \ {k}]]

Updated(c, k, doc) ==
    IF doc = None THEN c ELSE [c EXCEPT !.agg.updates = (k :> doc) @@ @]

AddDocumentToTarget(c, t, k, doc) ==
    IF ~IsActiveTarget(c, t) THEN c
    ELSE LET kind == IF k \in GetRemoteKeys(c, t) THEN "modified" ELSE "added"
         IN Updated([EnsureTargetState(c, t) EXCEPT
                       !.agg.states[t] = Changed(@, k, kind)], k, doc)

RemoveDocumentFromTarget(c, t, k, doc) ==
    IF ~IsActiveTarget(c, t) THEN c
    ELSE LET kind == IF k \in GetRemoteKeys(c, t) THEN "removed" ELSE "none"
         IN Updated([EnsureTargetState(c, t) EXCEPT
                       !.agg.states[t] = Changed(@, k, kind)], k, doc)

HandleDocumentChange(c, m) ==
    LET add(d, t) == IF m.doc.val = NoDoc THEN RemoveDocumentFromTarget(d, t, m.k, m.doc)
                                          ELSE AddDocumentToTarget(d, t, m.k, m.doc)
        d1 == FoldSet(LAMBDA t, d : add(d, t), c, m.upd)
    IN FoldSet(LAMBDA t, d : RemoveDocumentFromTarget(d, t, m.k, m.doc), d1, m.rem)

\* Mutant: the documents the target had are not removed.
ForgetsNothing(c, t) == [EnsureTargetState(c, t) EXCEPT !.agg.states[t] = NewTargetState]

ResetTarget(c, t) ==
    LET d == Assert_(c, t \in DOMAIN c.agg.states /\ c.agg.states[t].pending = 0, "reset")
    IN FoldSet(LAMBDA k, e : RemoveDocumentFromTarget(e, t, k, None),
               [EnsureTargetState(d, t) EXCEPT !.agg.states[t] = NewTargetState],
               GetRemoteKeys(c, t))

HandleExistenceFilter(c, t, count) ==
    LET s == EnsureTargetState(c, t).agg.states[t]
        size == Cardinality(GetRemoteKeys(c, t)) + Cardinality(s.change.added)
                  - Cardinality(s.change.removed)
    IN CASE ~IsActiveTarget(c, t) -> c
         [] IsActiveTarget(c, t) /\ t # Q ->
              IF count # 0 THEN c
              ELSE RemoveDocumentFromTarget(c, t, LimboKey(c, t), [val |-> NoDoc, ver |-> 0])
         [] IsActiveTarget(c, t) /\ t = Q ->
              IF size = count THEN c
              ELSE [ResetTarget(EnsureTargetState(c, t), t) EXCEPT !.agg.resets = @ \cup {t}]

\* The response to a request has arrived.
RecordTargetResponse(c, t) == [EnsureTargetState(c, t) EXCEPT !.agg.states[t].pending = @ - 1]

HandleTargetChange(c, m) ==
    LET t == m.t
        d == EnsureTargetState(c, t)
        r == RecordTargetResponse(c, t)
    IN CASE m.type = "Added" ->
              IF r.agg.states[t].pending # 0 THEN r
              ELSE [r EXCEPT !.agg.states[t].changed = FALSE, !.agg.states[t].change = NoChange]
         [] m.type = "Removed" -> IF r.agg.states[t].pending # 0 THEN r ELSE RemoveTarget(r, t)
         [] m.type = "Current" ->
              IF ~IsActiveTarget(d, t) THEN d
              ELSE [d EXCEPT !.agg.states[t].current = TRUE, !.agg.states[t].changed = TRUE]
         [] m.type = "Reset" -> IF IsActiveTarget(d, t) THEN ResetTarget(d, t) ELSE d

\* A change without target ids carries the resume token of all active targets.
UpdateResumeTokens(c, version) ==
    [c EXCEPT !.agg.states = [t \in DOMAIN @ |->
        IF IsActiveTarget(c, t) THEN [@[t] EXCEPT !.changed = TRUE, !.token = version] ELSE @[t]]]

\* A document target that is current and has no document: it does not exist.
SynthesizeDelete(c, t, version) ==
    LET k == LimboKey(c, t)
    IN IF /\ IsActiveTarget(c, t) /\ IsLimbo(c, t) /\ c.agg.states[t].current
          /\ k \notin DOMAIN c.agg.updates /\ k \notin GetRemoteKeys(c, t)
       THEN RemoveDocumentFromTarget(c, t, k, [val |-> NoDoc, ver |-> version]) ELSE c

-----------------------------------------------------------------------------
(***************************************************************************)
(* LocalStore: the cache takes a newer document; one the server no longer  *)
(* lets us see, or that an existence filter denies, is dropped.            *)
(***************************************************************************)
PopulateDocumentChanges(cache, updates) ==
    [k \in Keys |->
        IF k \notin DOMAIN updates THEN cache[k]
        ELSE CASE updates[k].ver = 0 -> [val |-> NoDoc, ver |-> 0]
               [] updates[k].ver > cache[k].ver -> updates[k]
               [] OTHER -> cache[k]]

ShouldPersistTargetData(old, change) == old = 0 \/ change.added \cup change.modified \cup change.removed # {}

\* The event for the target changes changes and the documents updates.
SyncEngineApplyRemoteEvent(c, changes, updates, resets, version) ==
    LET lim(r, k) == IF r.t \notin DOMAIN changes THEN r
                     ELSE [r EXCEPT !.received = (@ \/ k \in changes[r.t].added) /\ k \notin changes[r.t].removed]
        sound == \A k \in DOMAIN c.limbo : c.limbo[k].t \in DOMAIN changes =>
                   (changes[c.limbo[k].t].modified \cup changes[c.limbo[k].t].removed # {} => c.limbo[k].received)
        s  == Assert_(Assert_(c, sound, "limbo"), version = 0 \/ version >= c.disk.snapshot, "reverted")
        a  == IF version = 0 THEN s ELSE [s EXCEPT !.disk.snapshot = version]
        b  == [a EXCEPT !.limbo = [k \in DOMAIN @ |-> lim(@[k], k)],
                        !.cache = PopulateDocumentChanges(@, updates)]
        tc == changes[Q]
        token == CASE Q \in resets                    -> 0
                   [] Q \notin resets /\ tc.token # 0 -> tc.token
                   [] OTHER                           -> c.local
        e  == IF Q \notin DOMAIN changes \/ c.view = None THEN b
              ELSE [b EXCEPT !.disk.keys = (@ \ tc.removed) \cup tc.added, !.local = token,
                     !.disk.token = IF ShouldPersistTargetData(c.local, tc) THEN token ELSE @]
    IN IF e.view = None THEN e
       ELSE LET v == [e.view EXCEPT !.docs = ExecuteQuery(e)]
            IN IF Q \notin DOMAIN changes THEN ApplyChanges(e, v)
               ELSE ApplyChanges(Assert_(e, tc.modified \subseteq v.synced, "modified"),
                                 ApplyTargetChange(v, tc))

\* RemoteStore::RaiseWatchSnapshot with CreateRemoteEvent.
RaiseWatchSnapshot(c, version) ==
    LET s       == FoldSet(LAMBDA t, d : SynthesizeDelete(d, t, version), c, DOMAIN c.agg.states)
        ts      == {t \in DOMAIN s.agg.states : IsActiveTarget(s, t) /\ s.agg.states[t].changed}
        changes == [t \in ts |-> s.agg.states[t].change @@
                      [current |-> s.agg.states[t].current, token |-> s.agg.states[t].token]]
        resets  == s.agg.resets \cap DOMAIN s.targets
        d == [s EXCEPT !.agg.updates = <<>>, !.agg.resets = {},
                !.agg.states = [t \in DOMAIN @ |->
                   IF t \in ts THEN [@[t] EXCEPT !.changed = FALSE, !.change = NoChange] ELSE @[t]],
                !.targets = [t \in DOMAIN @ |->
                   CASE t \in resets -> 0
                     [] t \in ts \ resets /\ s.agg.states[t].token # 0 -> s.agg.states[t].token
                     [] OTHER -> @[t]]]
        again(e, t) == SendWatchRequest(SendUnwatchRequest(e, t), t, 0)
    IN SyncEngineApplyRemoteEvent(FoldSet(LAMBDA t, e : again(e, t), d, resets),
                                  changes, s.agg.updates, s.agg.resets, version)

\* The server rejected target t: a limbo document is taken for deleted, the
\* query's listeners get the error and are gone.
ProcessTargetError(c, t) ==
    LET d == RemoveTarget([c EXCEPT !.targets = Restrict(@, DOMAIN @ \ {t})], t)
        k == LimboKey(c, t)
    IN CASE t \notin DOMAIN c.targets -> c
         [] t \in DOMAIN c.targets /\ IsLimbo(c, t) ->
              SyncEngineApplyRemoteEvent(
                 PumpEnqueuedLimboResolutions([d EXCEPT !.limbo = Restrict(@, DOMAIN @ \ {k})]),
                 <<>>, k :> [val |-> NoDoc, ver |-> 0], {}, 0)
         [] t \in DOMAIN c.targets /\ t = Q ->
              RemoveAndCleanupTarget(
                 [d EXCEPT !.view = None, !.last = None, !.disk.token = c.local,
                    !.listeners = [l \in Listeners |-> NoListener]],
                 c.view.limbo)

OnWatchStreamChange(c, m) ==
    LET d == UpdateState(c, "Online")
    IN CASE m.type = "Error"    -> ProcessTargetError(d, m.t)
         [] m.type = "Doc"      -> HandleDocumentChange(d, m)
         [] m.type = "Filter"   -> HandleExistenceFilter(d, m.t, m.count)
         [] m.type = "Snapshot" -> IF m.ver < d.disk.snapshot THEN UpdateResumeTokens(d, m.ver)
                                   ELSE RaiseWatchSnapshot(UpdateResumeTokens(d, m.ver), m.ver)
         [] OTHER               -> HandleTargetChange(d, m)

-----------------------------------------------------------------------------
\* EventManager::AddQueryListener and RemoveQueryListener.
AddQueryListener(c, l) ==
    LET x == [st |-> "waiting", snap |-> None, event |-> None]
        y == CASE c.last = None -> x
               [] c.last # None /\ ShouldRaiseInitialEvent(l, c.last, c.online) -> RaiseInitialEvent(l, x, c.last)
               [] OTHER -> [x EXCEPT !.snap = c.last]
        d == [c EXCEPT !.listeners[l] = y]
    IN IF c.view = None THEN SyncEngineListen(d) ELSE d

Listening(c) == {l \in Listeners : c.listeners[l].st \in {"waiting", "raised", "leaving"}}

RemoveQueryListener(c, l) ==
    LET d == [c EXCEPT !.listeners[l] = NoListener]
    IN IF Listening(d) = {} /\ c.view # None THEN SyncEngineStopListening(d) ELSE d

NewClient(cache, disk) ==
    [network |-> TRUE, stream |-> "stopped", idle |-> FALSE, requests |-> <<>>,
     targets |-> <<>>, agg |-> NewAggregator,
     online |-> "Unknown", timer |-> FALSE, failures |-> 0,
     view |-> None, last |-> None, limbo |-> <<>>, limboQueue |-> <<>>, nextId |-> 1,
     cache |-> cache, disk |-> disk, local |-> 0,
     listeners |-> [l \in Listeners |-> NoListener],
     failed |-> {}]
=============================================================================
