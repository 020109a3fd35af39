------------------------------- MODULE Listen -------------------------------
(***************************************************************************)
(* The app listens to a query through the Firestore SDK (WatchClient)      *)
(* while the server's documents change and the call between the two        *)
(* breaks, is stopped or dies with the process.                            *)
(*                                                                         *)
(* The server is external: it handles the requests of a call in order, and *)
(* what it sends on the call arrives in order or, when the call ends, not  *)
(* at all.  A target with a resume token is sent what changed since, where *)
(* the documents that left the result may be replaced by their number (an  *)
(* existence filter).                                                      *)
(***************************************************************************)
EXTENDS WatchClient

CONSTANTS Pasts,       \* what may have happened before: <<documents deleted,
                       \* whether (1) or not (0) the app has read all before that>>
          MaxChanges,  \* bound: changes of a document at the server
          MaxFaults,   \* bound: broken calls, network switches, crashes, errors
          Hasty        \* may the query be listened to again before the snapshot
                       \* of an existence filter that did not match?

VARIABLES client,   \* the SDK
          hist,     \* server: its documents at each version, the last is now
          watched,  \* server: the targets of the call, each with its subject
          msgs,     \* sent on the call and not yet read by the client
          faults,
          added     \* the listeners added so far: each is, once
vars == <<client, hist, watched, msgs, faults, added>>

-----------------------------------------------------------------------------
(***************************************************************************)
(* The server.                                                             *)
(***************************************************************************)
Vals == {"in", "out", NoDoc}
Now == Len(hist)
Docs(v) == IF v = 0 THEN [k \in Keys |-> NoDoc] ELSE hist[v]
Result(v) == {k \in Keys : Docs(v)[k] = "in"}

\* The version of the last change to k.
VersionOf(k) == Max({v \in 1..Now : Docs(v)[k] # Docs(v - 1)[k]} \cup {1})
Doc(k) == [val |-> Docs(Now)[k], ver |-> VersionOf(k)]

Target(type, t) == [type |-> type, t |-> t]
DocChange(k, doc, upd, rem) == [type |-> "Doc", k |-> k, doc |-> doc, upd |-> upd, rem |-> rem]
Snapshot(v) == [type |-> "Snapshot", ver |-> v]

\* The subject of target r is sent: what changed since its token, how many
\* documents there are, current, a snapshot.  The documents quiet left since,
\* untold; counted says whether and where the number comes.
AddTarget(r, quiet, counted) ==
    LET fresh  == IF r.of # None THEN {r.of} \ {k \in Keys : Docs(Now)[k] = NoDoc}
                  ELSE {k \in Result(Now) : r.token = 0 \/ VersionOf(k) > r.token}
        left   == IF r.of = None /\ r.token # 0 THEN (Result(r.token) \ Result(Now)) \ quiet ELSE {}
        told   == SetToSeq({DocChange(k, Doc(k), {r.t}, {}) : k \in fresh}
                              \cup {DocChange(k, Doc(k), {}, {r.t}) : k \in left})
        count  == IF r.of = None THEN Cardinality(Result(Now)) ELSE Cardinality(fresh)
        filter == <<[type |-> "Filter", t |-> r.t, count |-> count]>>
    IN <<Target("Added", r.t)>> \o told
          \o (IF counted = "before" THEN filter ELSE <<>>) \o <<Target("Current", r.t)>>
          \o (IF counted = "after" THEN filter ELSE <<>>) \o <<Snapshot(Now)>>

Serve ==
    /\ client.requests # <<>>
    /\ LET r == Head(client.requests)
       IN \/ /\ r.add
             /\ \E quiet \in {{}, IF r.of = None THEN Result(r.token) \ Result(Now) ELSE {}} :
                \E counted \in CASE quiet # {}                    -> {"before", "after"}
                                [] quiet = {} /\ r.of = None      -> {"no"}
                                [] OTHER                          -> {"no", "before"} :
                   msgs' = msgs \o AddTarget(r, quiet, counted)
             /\ watched' = (r.t :> r.of) @@ watched
          \/ /\ ~r.add
             /\ msgs' = Append(msgs, Target("Removed", r.t))
             /\ watched' = Restrict(watched, DOMAIN watched \ {r.t})
    /\ client' = [client EXCEPT !.requests = Tail(@)]
    /\ UNCHANGED <<hist, faults, added>>

\* Document k becomes val.  A document that left the result is sent with its
\* contents or (bare) just as removed.
Change(k, val, bare) ==
    /\ Now < 2 + MaxChanges
    /\ Docs(Now)[k] # val
    /\ hist' = Append(hist, [Docs(Now) EXCEPT ![k] = val])
    /\ LET upd == {t \in DOMAIN watched : IF watched[t] = None THEN val = "in"
                                          ELSE watched[t] = k /\ val # NoDoc}
           rem == {t \in DOMAIN watched : IF watched[t] = None THEN Docs(Now)[k] = "in" /\ val # "in"
                                          ELSE watched[t] = k /\ val = NoDoc}
           doc == IF bare THEN None ELSE [val |-> val, ver |-> Now + 1]
       IN /\ bare => val = "out" /\ upd = {} /\ rem # {}
          /\ msgs' = IF DOMAIN watched = {} THEN msgs
                     ELSE msgs \o (IF upd \cup rem = {} THEN <<>>
                                   ELSE <<DocChange(k, doc, upd, rem)>>) \o <<Snapshot(Now + 1)>>
    /\ UNCHANGED <<client, watched, faults, added>>

\* The server starts a target over.
Reset ==
    /\ faults < MaxFaults /\ faults' = faults + 1
    /\ Q \in DOMAIN watched
    /\ msgs' = Append(msgs, Target("Reset", Q)) \o
               Tail(AddTarget([of |-> None, t |-> Q, token |-> 0], {}, "no"))
    /\ UNCHANGED <<client, hist, watched, added>>

\* The server ends a target with an error.
Reject(t) ==
    /\ faults < MaxFaults /\ faults' = faults + 1
    /\ t \in DOMAIN watched
    /\ watched' = Restrict(watched, DOMAIN watched \ {t})
    /\ msgs' = Append(msgs, Target("Error", t))
    /\ UNCHANGED <<client, hist, added>>

-----------------------------------------------------------------------------
(***************************************************************************)
(* The client.  A step that ends the call loses what is on it.             *)
(***************************************************************************)
Becomes(c) ==
    /\ client' = c
    /\ IF c.stream # "open" THEN watched' = <<>> /\ msgs' = <<>> ELSE UNCHANGED <<watched, msgs>>

AddListener(l) ==
    /\ l \notin added /\ added' = added \cup {l}
    /\ client.agg.resets = {} \/ Hasty
    /\ Becomes(AddQueryListener(client, l))
    /\ UNCHANGED <<hist, faults>>

RemoveListener(l) ==
    /\ client.listeners[l].st \in {"waiting", "raised"} /\ l \notin Once
    /\ Becomes(RemoveQueryListener(client, l))
    /\ UNCHANGED <<hist, faults, added>>

\* A getDocuments removes its listener once it has its answer.
Answered(l) ==
    /\ client.listeners[l].st = "leaving"
    /\ Becomes(RemoveQueryListener(client, l))
    /\ UNCHANGED <<hist, faults, added>>

OnWatchStreamOpen ==
    /\ client.stream = "started"
    /\ \E ts \in SetToSeqs(DOMAIN client.targets) :
          client' = FoldLeft(LAMBDA c, t : SendWatchRequest(c, t, c.targets[t]),
                             [client EXCEPT !.stream = "open"], ts)
    /\ UNCHANGED <<hist, watched, msgs, faults, added>>

Deliver ==
    /\ msgs # <<>>
    /\ client' = OnWatchStreamChange(client, Head(msgs))
    /\ msgs' = Tail(msgs)
    /\ UNCHANGED <<hist, watched, faults, added>>

IdleTimeout ==
    /\ client.stream = "open" /\ client.idle
    /\ Becomes(StopWatchStream(client))
    /\ UNCHANGED <<hist, faults, added>>

OnlineTimeout ==
    /\ client.timer
    /\ LET c == Assert_(client, client.online = "Unknown", "timed out")
       IN Becomes(SetAndBroadcast([c EXCEPT !.timer = FALSE], "Offline"))
    /\ UNCHANGED <<hist, faults, added>>

Break ==
    /\ client.stream # "stopped"
    /\ client' = OnWatchStreamClose(client)
    /\ watched' = <<>> /\ msgs' = <<>>
    /\ faults < MaxFaults /\ faults' = faults + 1
    /\ UNCHANGED <<hist, added>>

\* The app switches the network, or the account or connectivity changes.
SwitchNetwork ==
    /\ \/ ~client.network /\ Becomes(EnableNetwork(client)) /\ UNCHANGED faults
       \/ /\ client.network /\ Becomes(DisableNetwork(client))
          /\ faults < MaxFaults /\ faults' = faults + 1
    /\ UNCHANGED <<hist, added>>

HandleConnectivityChange ==
    /\ client.network
    /\ faults < MaxFaults /\ faults' = faults + 1
    /\ client' = RestartNetwork(client)
    /\ watched' = <<>> /\ msgs' = <<>>
    /\ UNCHANGED <<hist, added>>

Crash ==
    /\ faults < MaxFaults /\ faults' = faults + 1
    /\ Becomes(NewClient(client.cache, client.disk))
    /\ UNCHANGED <<hist, added>>

Init ==
    /\ \E past \in Pasts :
          /\ hist = <<[k \in Keys |-> "in"], [k \in Keys |-> IF k \in past[1] THEN NoDoc ELSE "in"]>>
          /\ client = NewClient([k \in Keys |-> [val |-> Docs(past[2])[k], ver |-> past[2]]],
                                [keys |-> {}, token |-> 0, snapshot |-> past[2]])
    /\ watched = <<>> /\ msgs = <<>> /\ faults = 0 /\ added = {}

Next ==
    \/ Serve \/ \E k \in Keys, val \in Vals, bare \in BOOLEAN : Change(k, val, bare)
    \/ Reset \/ \E t \in DOMAIN watched : Reject(t)
    \/ \E l \in Listeners : AddListener(l) \/ RemoveListener(l) \/ Answered(l)
    \/ OnWatchStreamOpen \/ Deliver \/ IdleTimeout \/ OnlineTimeout \/ Break
    \/ SwitchNetwork \/ HandleConnectivityChange \/ Crash

\* The server answers, calls are opened and read, a timer fires, and a listener
\* that has its answer is removed.  The last two conjuncts are weak fairness of
\* Deliver and Answered with their guards written out for ENABLED.
Fairness ==
    /\ WF_vars(Serve) /\ WF_vars(OnWatchStreamOpen) /\ WF_vars(OnlineTimeout)
    /\ []<>(msgs = <<>>) \/ []<><<Deliver>>_vars
    /\ \A l \in Once :
          []<>(client.listeners[l].st # "leaving") \/ []<><<Answered(l)>>_vars

Spec == Init /\ [][Next]_vars /\ Fairness

-----------------------------------------------------------------------------
View == client.view

\* A view shown as the server's (not "from cache") is the query's result at
\* the version of the target's last snapshot, whatever was ignored, reset,
\* resumed or cached before (View::ApplyChanges, WatchChangeAggregator).
SyncedIsServer ==
    View # None /\ View.sync = "Synced" => View.docs = Result(client.targets[Q])

\* No HARD_ASSERT of the listening side fails.
ListenAssertions == client.failed = {}

\* Every document shown in limbo is being looked up or waits for it, none is
\* that is not in limbo, at most kMaxLimbo are at a time, and RemoteStore
\* watches just their targets and the query's
\* (SyncEngine::UpdateTrackedLimboDocuments, HandleRejectedListen).
LimboTracked ==
    LET tracked == DOMAIN client.limbo \cup ToSet(client.limboQueue)
        lookups == {client.limbo[k].t : k \in DOMAIN client.limbo}
    IN /\ Cardinality(DOMAIN client.limbo) <= kMaxLimbo
       /\ View = None => tracked = {} /\ client.targets = <<>>
       /\ View # None => /\ tracked \subseteq View.limbo
                        /\ View.limbo \cap View.docs \subseteq tracked
                        /\ DOMAIN client.targets = {Q} \cup lookups

\* A listener that stays is shown the server's result in the end.
ListenerInformed ==
    \A l \in Listeners \ Once :
       <>[](client.listeners[l].st \in {"waiting", "raised"} /\ client.network)
          => <>[](client.listeners[l].event # None /\ client.listeners[l].event.docs = Result(Now))

\* A getDocuments is answered in the end: by the server or, when it is taken
\* to be offline, from the cache (OnlineStateTracker, QueryListener).
GetAnswered ==
    \A l \in Once : client.listeners[l].st = "waiting" ~> client.listeners[l].st # "waiting"
=============================================================================
