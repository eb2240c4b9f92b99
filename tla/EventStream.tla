---------------------------- MODULE EventStream ----------------------------
(***************************************************************************)
(* What the runner promises the SSE endpoints, with the queue, the tasks   *)
(* and the handles left out.  A run publishes numbered items; a stream     *)
(* attached to the run is handed items in increasing order, and an item    *)
(* goes to at most one stream.  An item may vanish undelivered only once   *)
(* the run has been disturbed: cancelled, abandoned by a client that went  *)
(* away in the middle of a read, or caught by the shutdown.                *)
(***************************************************************************)
EXTENDS Naturals, Sequences

CONSTANTS RunIds,   \* the runs
          Streams,  \* the SSE connections; a reconnection is another stream
          NoRun     \* the source of a stream that is not attached yet

VARIABLES published,  \* number of items the run has produced
          avail,      \* produced, neither delivered nor lost
          src,        \* the run a stream reads
          got,        \* the items a stream was handed, in order
          disturbed   \* runs whose items may be lost from now on

vars == <<published, avail, src, got, disturbed>>

Init ==
    /\ published = [r \in RunIds |-> 0]
    /\ avail = [r \in RunIds |-> {}]
    /\ src = [s \in Streams |-> NoRun]
    /\ got = [s \in Streams |-> <<>>]
    /\ disturbed = {}

Publish(r) ==
    /\ published' = [published EXCEPT ![r] = @ + 1]
    /\ avail' = [avail EXCEPT ![r] = @ \cup {published[r] + 1}]
    /\ UNCHANGED <<src, got, disturbed>>

Attach(s, r) ==
    /\ src[s] = NoRun
    /\ src' = [src EXCEPT ![s] = r]
    /\ UNCHANGED <<published, avail, got, disturbed>>

Deliver(s, n) ==
    /\ src[s] # NoRun
    /\ n \in avail[src[s]]
    /\ \A k \in DOMAIN got[s] : got[s][k] < n
    /\ got' = [got EXCEPT ![s] = Append(@, n)]
    /\ avail' = [avail EXCEPT ![src[s]] = @ \ {n}]
    /\ UNCHANGED <<published, src, disturbed>>

\* Runs become disturbed, and disturbed runs may lose items.
Disturb ==
    /\ disturbed \subseteq disturbed'
    /\ disturbed' \subseteq RunIds
    /\ \A r \in RunIds : /\ avail'[r] \subseteq avail[r]
                         /\ avail'[r] # avail[r] => r \in disturbed'
    /\ DOMAIN avail' = RunIds
    /\ UNCHANGED <<published, src, got>>

Next ==
    \/ \E r \in RunIds : Publish(r)
    \/ \E s \in Streams, r \in RunIds : Attach(s, r)
    \/ \E s \in Streams : src[s] # NoRun /\ \E n \in avail[src[s]] : Deliver(s, n)
    \/ Disturb

Spec == Init /\ [][Next]_vars
=============================================================================
