----------------------------- MODULE WriteQueue -----------------------------
(***************************************************************************)
(* What the Firestore SDK promises about writes, whatever happens to the   *)
(* network, the account and the app: every account has a queue of writes   *)
(* on disk; the server applies a queued write only once the ones before it *)
(* have been applied, perhaps again after that; the writes are answered    *)
(* and leave the queue in the order they were issued, each answer reaches  *)
(* the app at most once, and none says "done" of a write the server has    *)
(* not applied.                                                            *)
(***************************************************************************)
EXTENDS Integers, Sequences, SequencesExt

CONSTANTS Users,      \* accounts that use the device
          Bad         \* the writes the server refuses

VARIABLES issued,     \* number of writes issued; a write is named by its number
          queue,      \* account -> its writes not yet answered, oldest first
          log,        \* what the server applied, oldest first
          told        \* answers given to the app, oldest first

vars == <<issued, queue, log, told>>

Init == /\ issued = 0
        /\ queue = [u \in Users |-> <<>>]
        /\ log = <<>>
        /\ told = <<>>

Issue(u) == /\ issued' = issued + 1
            /\ queue' = [queue EXCEPT ![u] = Append(@, issued')]
            /\ UNCHANGED <<log, told>>

Apply(u) == /\ \E i \in DOMAIN queue[u] :
                 /\ queue[u][i] \notin Bad
                 /\ \A j \in 1..(i - 1) : queue[u][j] \in ToSet(log)
                 /\ log' = Append(log, queue[u][i])
            /\ UNCHANGED <<issued, queue, told>>

(***************************************************************************)
(* The answers the oldest write of u can get.  A refusal means that some   *)
(* queued write was refused.  It need not be this one: HandleWriteError    *)
(* rejects the front of the pipeline (remote_store.cc:525), and a call     *)
(* that fails while it is written to loses the answers not yet read.       *)
(***************************************************************************)
Verdicts(u) == {v \in BOOLEAN : IF v THEN Head(queue[u]) \in ToSet(log)
                                     ELSE ToSet(queue[u]) \cap Bad # {}}

\* The app hears v of write w, for the first time.
Tell(w, v) == /\ \A i \in DOMAIN told : told[i].w # w
              /\ told' = Append(told, [w |-> w, ok |-> v])

\* The oldest write of u is answered; its completion block may be gone.
Answer(u) == /\ queue[u] # <<>>
             /\ \E v \in Verdicts(u) : UNCHANGED told \/ Tell(Head(queue[u]), v)
             /\ queue' = [queue EXCEPT ![u] = Tail(@)]
             /\ UNCHANGED <<issued, log>>

\* The app is killed after hearing the answer and before the queue on disk
\* has forgotten the write.
ToldAndKilled(u) == /\ queue[u] # <<>>
                    /\ \E v \in Verdicts(u) : Tell(Head(queue[u]), v)
                    /\ UNCHANGED <<issued, queue, log>>

Next == \E u \in Users : Issue(u) \/ Apply(u) \/ Answer(u) \/ ToldAndKilled(u)

Spec == Init /\ [][Next]_vars
=============================================================================
