------------------------------ MODULE Outbound ------------------------------
(***************************************************************************)
(* Outbound connections: the supervisor that decides whom to dial, one     *)
(* worker thread per peer, the gate that limits initial synchronizations,  *)
(* and the channel by which workers report to the supervisor.              *)
(*                                                                         *)
(* runtime/src/node/p2p.rs: SyncGate, start_peer_supervisor,               *)
(* select_outbound_candidates; chain_sync.rs: reconnect_delay_for_error.   *)
(*                                                                         *)
(* Time passes in ticks; retry holds the ticks left.  An event taken by    *)
(* recv_timeout is the first the next round handles, so it stays at the    *)
(* head of the channel here.                                               *)
(***************************************************************************)
EXTENDS Naturals, Sequences, FiniteSets, Functions

CONSTANTS
  Peer,
  Configured,   \* the peers of the command line, in order
  Discovered,   \* the peers the store can hold, in the order it lists them
  MaxOutbound,  \* MAX_OUTBOUND_CONNECTIONS
  MaxDials,     \* MAX_CONCURRENT_DIALS
  MaxSync,      \* MAX_CONCURRENT_SYNC_SESSIONS
  Reconnect,    \* RECONNECT_INTERVAL, in ticks
  MaxBackoff,   \* the 300 seconds of reconnect_delay_for_error
  Cooldown,     \* INVALID_POW_COOLDOWN
  MaxFailures   \* bound on the count of consecutive failures

ASSUME OutboundAssumption ==
  /\ IsFiniteSet(Peer) /\ Configured \in Seq(Peer) /\ Discovered \in Seq(Peer)
  /\ MaxOutbound \in Nat /\ MaxDials \in Nat /\ MaxSync \in Nat \ {0}
  /\ Reconnect \in Nat /\ MaxBackoff \in Nat /\ Cooldown \in Nat
  /\ MaxFailures \in Nat \ {0}

VARIABLES
  active,    \* peers that have a worker, as the supervisor knows it
  retry,     \* for peers tried before: consecutive failures and ticks to wait
  dialing,   \* dials the supervisor believes to be under way
  events,    \* the channel from the workers
  worker,    \* the thread of each peer
  permits,   \* SyncGate.active
  listed,    \* peers PeerStore::addresses returns
  last       \* history: the failures each peer's last worker reported

outboundVars == <<active, retry, dialing, events, worker, permits, listed, last>>

Idle == [phase |-> "none", failures |-> 0]

Phases == {"none", "gate", "waiting", "dial", "sync", "abort", "failed", "gossip"}

In(phases) == {p \in Peer : worker[p].phase \in phases}

OutboundInit ==
  /\ active = {} /\ retry = <<>> /\ dialing = 0 /\ events = <<>>
  /\ worker = [p \in Peer |-> Idle] /\ permits = 0
  /\ listed = {} /\ last = [p \in Peer |-> 0]

-----------------------------------------------------------------------------
(* The supervisor. *)
AtMost(n, limit) == IF n < limit THEN n ELSE limit

Monus(a, b) == IF a < b THEN 0 ELSE a - b

Dialed(p) == [peer |-> p, done |-> FALSE, failures |-> 0, delay |-> 0]

Ended(p, failures, delay) ==
  [peer |-> p, done |-> TRUE, failures |-> failures, delay |-> delay]

WithRetry(p, failures, delay) ==
  [q \in DOMAIN retry \cup {p} |->
     IF q = p THEN [failures |-> failures, wait |-> delay] ELSE retry[q]]

DrainTwice ==
  /\ events # <<>>
  /\ dialing' = dialing - 1
  /\ IF Head(events).done
     THEN /\ active' = active \ {Head(events).peer}
          /\ retry' = WithRetry(Head(events).peer, Head(events).failures, Head(events).delay)
     ELSE UNCHANGED <<active, retry>>
  /\ events' = Tail(events)
  /\ UNCHANGED <<worker, permits, listed, last>>

(* One event of the channel. *)
Drain ==
  /\ events # <<>>
  /\ IF Head(events).done
     THEN /\ active' = active \ {Head(events).peer}
          /\ retry' = WithRetry(Head(events).peer, Head(events).failures, Head(events).delay)
          /\ UNCHANGED dialing
     ELSE /\ dialing' = dialing - 1
          /\ UNCHANGED <<active, retry>>
  /\ events' = Tail(events)
  /\ UNCHANGED <<worker, permits, listed, last>>

(* Configured peers come before discovered ones. *)
Order == Configured \o Discovered

(* The places in the order whose peer is configured or listed now. *)
Candidates == {i \in DOMAIN Order : i <= Len(Configured) \/ Order[i] \in listed}

ForgetsExpired(entries) ==
  [p \in {p \in DOMAIN entries : p \in active \/ entries[p].wait > 0} |-> entries[p]]

(* Entries are kept for active peers, candidates and peers in backoff. *)
Retained(entries) ==
  [p \in {p \in DOMAIN entries :
            p \in active \/ (\E i \in Candidates : Order[i] = p) \/ entries[p].wait > 0}
     |-> entries[p]]

Slots == AtMost(Monus(MaxOutbound, Cardinality(active)), Monus(MaxDials, dialing))

Cooling(p) == p \in DOMAIN retry /\ retry[p].wait > 0

EligibleOnce(p) == p \notin active /\ p \notin DOMAIN retry

Eligible(p) == p \notin active /\ ~ Cooling(p)

(* The first candidates without a worker and out of backoff, each once. *)
Fresh ==
  {i \in Candidates : /\ Eligible(Order[i])
                      /\ \A j \in Candidates : j < i => Order[j] # Order[i]}

Taken == {i \in Fresh : Cardinality({j \in Fresh : j < i}) < Slots}

Selected == {Order[i] : i \in Taken}

FailuresIn(entries, p) == IF p \in DOMAIN entries THEN entries[p].failures ELSE 0

(* The rest of a round, once the channel is empty. *)
Select ==
  /\ events = <<>>
  /\ retry' = Retained(retry)
  /\ active' = active \cup Selected
  /\ dialing' = dialing + Cardinality(Selected)
  /\ worker' = [p \in Peer |->
       IF p \in Selected
       THEN [phase |-> "gate", failures |-> FailuresIn(Retained(retry), p)]
       ELSE worker[p]]
  /\ UNCHANGED <<events, permits, listed, last>>

-----------------------------------------------------------------------------
(* SyncGate::acquire by a worker: the lock is taken, or retaken after a     *)
(* wait.                                                                    *)
Acquire(p) ==
  /\ worker[p].phase = "gate" /\ permits < MaxSync
  /\ permits' = permits + 1
  /\ worker' = [worker EXCEPT ![p].phase = "dial"]
  /\ UNCHANGED <<active, retry, dialing, events, listed, last>>

AwaitPermit(p) ==
  /\ worker[p].phase = "gate" /\ permits >= MaxSync
  /\ worker' = [worker EXCEPT ![p].phase = "waiting"]
  /\ UNCHANGED <<active, retry, dialing, events, permits, listed, last>>

(* A condition variable may wake a thread that nobody notified. *)
WakeSpuriously(p) ==
  /\ worker[p].phase = "waiting"
  /\ worker' = [worker EXCEPT ![p].phase = "gate"]
  /\ UNCHANGED <<active, retry, dialing, events, permits, listed, last>>

(* dial_peer_database_with_policy, reported whatever its result. *)
Dial(p, ok) ==
  /\ worker[p].phase = "dial"
  /\ events' = Append(events, Dialed(p))
  /\ worker' = [worker EXCEPT ![p].phase = IF ok THEN "sync" ELSE "abort"]
  /\ UNCHANGED <<active, retry, dialing, permits, listed, last>>

NotifyNobody(w) == {w}

(* notify_one *)
NotifyOne(w) ==
  LET waiting == {q \in Peer : w[q].phase = "waiting"}
  IN  IF waiting = {} THEN {w} ELSE {[w EXCEPT ![q].phase = "gate"] : q \in waiting}

(* SyncPermit::drop, when the synchronization or a failed dial ends. *)
Release(p, next) ==
  /\ \/ worker[p].phase = "sync" /\ next \in {"gossip", "failed"}
     \/ worker[p].phase = "abort" /\ next = "failed"
  /\ permits' = Monus(permits, 1)
  /\ worker' \in NotifyOne([worker EXCEPT ![p].phase = next,
                              ![p].failures = IF next = "gossip" THEN 0 ELSE @])
  /\ UNCHANGED <<active, retry, dialing, events, listed, last>>

(* reconnect_delay_for_error without its jitter *)
Backoff(failures) == AtMost(Reconnect * 2 ^ (failures - 1), MaxBackoff)

Report(p, failures, delay) ==
  /\ events' = Append(events, Ended(p, failures, delay))
  /\ worker' = [worker EXCEPT ![p] = Idle]
  /\ last' = [last EXCEPT ![p] = failures]
  /\ UNCHANGED <<active, retry, dialing, permits>>

(* The session ended well, or asks for a new one at once. *)
Complete(p, delay) ==
  /\ worker[p].phase = "gossip" /\ delay \in {0, Reconnect}
  /\ Report(p, worker[p].failures, delay)
  /\ UNCHANGED listed

(* Dial, synchronization or session failed; the store is told. *)
FailPeer(p, malicious) ==
  /\ worker[p].phase \in {"failed", "gossip"}
  /\ LET failures == AtMost(worker[p].failures + 1, MaxFailures)
     IN  Report(p, failures, IF malicious THEN Cooldown ELSE Backoff(failures))
  /\ listed' = listed \ {p}

-----------------------------------------------------------------------------
(* Discovery, or the end of a cooldown of the store. *)
List(p) ==
  /\ p \in Range(Discovered) \ listed
  /\ listed' = listed \cup {p}
  /\ UNCHANGED <<active, retry, dialing, events, worker, permits, last>>

Tick ==
  /\ \E p \in DOMAIN retry : retry[p].wait > 0
  /\ retry' = [p \in DOMAIN retry |-> [retry[p] EXCEPT !.wait = Monus(@, 1)]]
  /\ UNCHANGED <<active, dialing, events, worker, permits, listed, last>>

WorkerStep(p) ==
  \/ Acquire(p) \/ AwaitPermit(p)
  \/ \E ok \in BOOLEAN : Dial(p, ok)
  \/ \E next \in {"gossip", "failed"} : Release(p, next)
  \/ worker[p].phase = "failed" /\ \E malicious \in BOOLEAN : FailPeer(p, malicious)

OutboundNext ==
  \/ Drain \/ Select \/ Tick
  \/ \E p \in Peer :
       \/ WorkerStep(p) \/ WakeSpuriously(p) \/ List(p)
       \/ \E delay \in {0, Reconnect} : Complete(p, delay)
       \/ \E malicious \in BOOLEAN : worker[p].phase = "gossip" /\ FailPeer(p, malicious)

(* The supervisor loops and workers run; only a session may last forever.   *)
(* Dial and synchronization have time limits on every read and write.       *)
OutboundFairness ==
  /\ WF_outboundVars(Drain) /\ WF_outboundVars(Select) /\ WF_outboundVars(Tick)
  /\ \A p \in Peer : WF_outboundVars(WorkerStep(p))

OutboundSpec == OutboundInit /\ [][OutboundNext]_outboundVars /\ OutboundFairness

-----------------------------------------------------------------------------
Sent(p, done) == \E i \in DOMAIN events : events[i].peer = p /\ events[i].done = done

Undialed == In({"gate", "waiting", "dial"})

(* The counter from which new dials are granted is the number of workers    *)
(* that have not dialed plus the reports not yet handled: it never runs     *)
(* below zero (dialing -= 1) and never leaks a slot.                        *)
DialingExact ==
  dialing = Cardinality(Undialed) + Cardinality({p \in Peer : Sent(p, FALSE)})

(* The supervisor knows exactly the peers whose worker runs or whose end is *)
(* not yet handled, so a peer never has two workers; and the limits on      *)
(* workers and on dials hold (docs/IPV6_DDNS.md).                           *)
WorkersBounded ==
  /\ active = {p \in Peer : worker[p].phase # "none" \/ Sent(p, TRUE)}
  /\ \A p \in Peer : worker[p].phase # "none" => ~ Sent(p, TRUE)
  /\ Cardinality(active) <= MaxOutbound
  /\ dialing <= MaxDials

(* The gate counts exactly the workers that hold a permit, at most MaxSync, *)
(* across failed dials and failed synchronizations.                         *)
PermitsExact ==
  /\ permits = Cardinality(In({"dial", "sync", "abort"}))
  /\ permits <= MaxSync

(* While a worker waits at the gate, every permit is held or a worker is    *)
(* about to look for one: no wake-up is lost.                               *)
NoLostWakeup ==
  In({"waiting"}) # {} => permits + Cardinality(In({"gate"})) >= MaxSync

(* The failures that set the backoff of a configured peer are those of its  *)
(* last worker, however many rounds of the supervisor lie between.          *)
BackoffRemembered ==
  \A p \in Range(Configured) :
    /\ p \notin active => FailuresIn(retry, p) = last[p]
    /\ p \in Undialed => worker[p].failures = last[p]

(* The first configured peer is dialed again after every end of its worker, *)
(* unless all slots are in use, whatever the discovered peers do.           *)
ConfiguredDialed ==
  \A p \in {Configured[1]} :
    p \notin active ~> (p \in active \/ Cardinality(active) = MaxOutbound)
=============================================================================
