------------------------- MODULE ConcurrencyProofs --------------------------
(* Proofs about threads that share state.                                   *)
(*                                                                          *)
(* Outbound, for any peers and limits: the counters of the supervisor and   *)
(* of the synchronization gate are exact, no worker sleeps beside a free    *)
(* permit, and backoff is remembered (OutboundInv, BackoffInv).             *)
(* Indexes, for any chains, blocks and readers: a block is refused, or an   *)
(* answer wrong, only after a rebuild from another branch or a race         *)
(* (IndexInv).                                                              *)
EXTENDS Outbound, Indexes, FiniteSetTheorems, TLAPS

(* What a worker reports to the supervisor. *)
Event == [peer : Peer, done : BOOLEAN, failures : Nat, delay : Int]

(* The channel holds at most one report of each kind of a peer. *)
Unique(q) ==
  \A i, j \in DOMAIN q : q[i].peer = q[j].peer /\ q[i].done = q[j].done => i = j

(* A report of a peer is in the channel. *)
SentIn(q, p, done) == \E i \in DOMAIN q : q[i].peer = p /\ q[i].done = done

(* The types of the supervisor's state. *)
OutboundTyped ==
  /\ active \subseteq Peer
  /\ DOMAIN retry \subseteq Peer
  /\ \A p \in DOMAIN retry : retry[p] \in [failures : Nat, wait : Int]
  /\ dialing \in Nat /\ permits \in Nat
  /\ events \in Seq(Event)
  /\ worker \in [Peer -> [phase : Phases, failures : Nat]]

(* What makes the counters inductive: reports come once, and a worker whose *)
(* dial is reported has dialed.                                             *)
Reports ==
  /\ Unique(events)
  /\ \A p \in Peer : Sent(p, FALSE) => worker[p].phase \notin {"gate", "waiting", "dial"}

(* The inductive invariant of the counters. *)
OutboundInv ==
  /\ OutboundTyped /\ Reports
  /\ DialingExact /\ WorkersBounded /\ PermitsExact /\ NoLostWakeup

-----------------------------------------------------------------------------
(* Taking the first report leaves the others. *)
LEMMA TakeReport ==
  ASSUME NEW q \in Seq(Event), q # <<>>, Unique(q)
  PROVE  /\ Tail(q) \in Seq(Event) /\ Unique(Tail(q)) /\ Head(q) \in Event
         /\ \A p \in Peer, d \in BOOLEAN :
              SentIn(Tail(q), p, d) <=>
                SentIn(q, p, d) /\ ~ (Head(q).peer = p /\ Head(q).done = d)
         /\ SentIn(q, Head(q).peer, Head(q).done)
<1>1. Len(q) \in Nat /\ Len(q) > 0 /\ DOMAIN q = 1 .. Len(q)
  OBVIOUS
<1>2. /\ Tail(q) \in Seq(Event) /\ DOMAIN Tail(q) = 1 .. Len(q) - 1
      /\ \A i \in DOMAIN Tail(q) : Tail(q)[i] = q[i + 1]
  BY <1>1
<1>3. Head(q) = q[1] /\ 1 \in DOMAIN q /\ Head(q) \in Event
  BY <1>1
<1>4. Unique(Tail(q))
  BY <1>1, <1>2 DEF Unique
<1>5. ASSUME NEW p \in Peer, NEW d \in BOOLEAN
      PROVE  SentIn(Tail(q), p, d) <=>
               SentIn(q, p, d) /\ ~ (Head(q).peer = p /\ Head(q).done = d)
  <2>1. ASSUME SentIn(Tail(q), p, d)
        PROVE  SentIn(q, p, d) /\ ~ (Head(q).peer = p /\ Head(q).done = d)
    <3>1. PICK i \in DOMAIN Tail(q) : Tail(q)[i].peer = p /\ Tail(q)[i].done = d
      BY <2>1, Zenon DEF SentIn
    <3>2. i + 1 \in DOMAIN q /\ i + 1 # 1 /\ q[i + 1].peer = p /\ q[i + 1].done = d
      BY <3>1, <1>1, <1>2
    <3> QED
      BY <3>2, <1>3, Zenon DEF SentIn, Unique
  <2>2. ASSUME SentIn(q, p, d), ~ (Head(q).peer = p /\ Head(q).done = d)
        PROVE  SentIn(Tail(q), p, d)
    <3>1. PICK i \in DOMAIN q : q[i].peer = p /\ q[i].done = d
      BY <2>2, Zenon DEF SentIn
    <3>2. i # 1
      BY <3>1, <2>2, <1>3, Zenon
    <3>3. i - 1 \in DOMAIN Tail(q) /\ Tail(q)[i - 1] = q[i]
      BY <3>2, <1>1, <1>2
    <3> QED
      BY <3>1, <3>3, Zenon DEF SentIn
  <2> QED
    BY <2>1, <2>2, Zenon
<1> QED
  BY <1>2, <1>3, <1>4, <1>5, Zenon DEF SentIn

(* A report sent is the only one of its kind if there was none before. *)
LEMMA SendReport ==
  ASSUME NEW q \in Seq(Event), NEW e \in Event, Unique(q),
         ~ SentIn(q, e.peer, e.done)
  PROVE  /\ Append(q, e) \in Seq(Event) /\ Unique(Append(q, e))
         /\ \A p \in Peer, d \in BOOLEAN :
              SentIn(Append(q, e), p, d) <=> SentIn(q, p, d) \/ (e.peer = p /\ e.done = d)
<1> DEFINE r == Append(q, e)
<1>1. /\ r \in Seq(Event) /\ Len(q) \in Nat /\ DOMAIN q = 1 .. Len(q)
      /\ DOMAIN r = 1 .. Len(q) + 1
      /\ \A i \in DOMAIN q : r[i] = q[i]
      /\ r[Len(q) + 1] = e
  OBVIOUS
<1> HIDE DEF r
<1>2. \A i \in DOMAIN r : i \in DOMAIN q \/ i = Len(q) + 1
  BY <1>1
<1>3. Unique(r)
  BY <1>1, <1>2 DEF Unique, SentIn
<1>4. Len(q) + 1 \in DOMAIN r /\ \A i \in DOMAIN q : i \in DOMAIN r
  BY <1>1
<1>5. ASSUME NEW p \in Peer, NEW d \in BOOLEAN
      PROVE  SentIn(r, p, d) <=> SentIn(q, p, d) \/ (e.peer = p /\ e.done = d)
  BY <1>1, <1>2, <1>4, Zenon DEF SentIn
<1> QED
  BY <1>1, <1>3, <1>5, Zenon DEF r

(* Sets of peers are finite, so that one more or one less is one in number. *)
LEMMA Count ==
  ASSUME NEW S \in SUBSET Peer
  PROVE  /\ IsFiniteSet(S) /\ Cardinality(S) \in Nat
         /\ \A p \in Peer \ S : Cardinality(S \cup {p}) = Cardinality(S) + 1
         /\ \A p \in S : Cardinality(S \ {p}) = Cardinality(S) - 1
         /\ S # {} => Cardinality(S) >= 1
<1>1. IsFiniteSet(S)
  BY OutboundAssumption, FS_Subset, Zenon
<1>2. Cardinality(S) \in Nat
  BY <1>1, FS_CardinalityType, Zenon
<1>3. ASSUME NEW p \in Peer \ S PROVE Cardinality(S \cup {p}) = Cardinality(S) + 1
  BY <1>1, FS_AddElement, Zenon
<1>4. ASSUME NEW p \in S PROVE Cardinality(S \ {p}) = Cardinality(S) - 1
  BY <1>1, FS_RemoveElement, Zenon
<1>5. S # {} => Cardinality(S) >= 1
  BY <1>1, <1>2, FS_EmptySet
<1> QED
  BY <1>1, <1>2, <1>3, <1>4, <1>5, Zenon

-----------------------------------------------------------------------------
(* select_outbound_candidates takes peers without a worker, no more than    *)
(* there are free slots.                                                    *)
LEMMA Selection ==
  ASSUME OutboundTyped
  PROVE  /\ Selected \subseteq Peer \ active
         /\ Slots \in Nat /\ Cardinality(Selected) <= Slots
<1>1. /\ Order \in Seq(Peer) /\ Len(Order) \in Nat /\ DOMAIN Order = 1 .. Len(Order)
  BY OutboundAssumption DEF Order
<1>2. Fresh \subseteq 1 .. Len(Order)
  BY <1>1, Zenon DEF Fresh, Candidates
<1>3. Selected \subseteq Peer \ active
  <2>1. Taken \subseteq Fresh
    BY Zenon DEF Taken
  <2>2. \A i \in Fresh : Order[i] \in Peer /\ Order[i] \notin active
    BY <1>1, <1>2 DEF Fresh, Eligible
  <2> QED
    BY <2>1, <2>2, Zenon DEF Selected
<1>4. Slots \in Nat
  <2>1. Cardinality(active) \in Nat
    BY Count, Zenon DEF OutboundTyped
  <2> QED
    BY <2>1, OutboundAssumption DEF Slots, AtMost, Monus, OutboundTyped
<1> DEFINE Before(i) == {j \in Fresh : j < i}
           f == [i \in Taken |-> Cardinality(Before(i))]
<1>5. IsFiniteSet(Fresh)
  <2>1. IsFiniteSet(1 .. Len(Order))
    BY <1>1, FS_Interval
  <2> QED
    BY <1>2, <2>1, FS_Subset, Zenon
<1>6. \A i : IsFiniteSet(Before(i)) /\ Cardinality(Before(i)) \in Nat
  <2> TAKE i
  <2>1. Before(i) \subseteq Fresh
    BY Zenon
  <2> QED
    BY <2>1, <1>5, FS_Subset, FS_CardinalityType, Zenon
<1>7. ASSUME NEW i \in Fresh, NEW k \in Fresh, i < k
      PROVE  Cardinality(Before(i)) # Cardinality(Before(k))
  <2>1. Before(i) \subseteq Before(k) /\ i \in Before(k) /\ i \notin Before(i)
    <3>1. \A j \in Fresh : j \in Int
      BY <1>1, <1>2
    <3> QED
      BY <3>1, <1>7
  <2>2. Before(i) # Before(k)
    BY <2>1, Zenon
  <2> HIDE DEF Before
  <2> QED
    BY <2>1, <2>2, <1>6, FS_Subset, Zenon
<1>8. Cardinality(Taken) <= Slots
  <2>1. f \in [Taken -> 0 .. Slots - 1]
    BY <1>4, <1>6 DEF Taken
  <2>2. \A i, k \in Taken : f[i] = f[k] => i = k
    <3> SUFFICES ASSUME NEW i \in Taken, NEW k \in Taken, i # k PROVE f[i] # f[k]
      BY Zenon
    <3>1. i \in Fresh /\ k \in Fresh /\ (i < k \/ k < i)
      BY <1>2 DEF Taken
    <3>2. f[i] = Cardinality(Before(i)) /\ f[k] = Cardinality(Before(k))
      BY Zenon
    <3> QED
      BY <3>1, <3>2, <1>7, Zenon
  <2>3. f \in Injection(Taken, 0 .. Slots - 1)
    BY <2>1, <2>2, Zenon DEF Injection, IsInjective
  <2>4. IsFiniteSet(0 .. Slots - 1) /\ Cardinality(0 .. Slots - 1) = Slots
    BY <1>4, FS_Interval
  <2> HIDE DEF f
  <2> QED
    BY <2>3, <2>4, FS_Injection
<1>9. Cardinality(Selected) <= Cardinality(Taken)
  <2> DEFINE g == [i \in Taken |-> Order[i]]
  <2>1. g \in Surjection(Taken, Selected)
    BY Zenon DEF Selected, Surjection
  <2>2. IsFiniteSet(Taken)
    BY <1>5, FS_Subset, Zenon DEF Taken
  <2> HIDE DEF g
  <2> QED
    BY <2>1, <2>2, FS_Surjection, Zenon
<1>10. Cardinality(Selected) \in Nat /\ Cardinality(Taken) \in Nat
  <2>1. IsFiniteSet(Taken)
    BY <1>5, FS_Subset, Zenon DEF Taken
  <2> QED
    BY <2>1, <1>3, Count, FS_CardinalityType, Zenon
<1> QED
  BY <1>3, <1>4, <1>8, <1>9, <1>10, SMTT(30)

-----------------------------------------------------------------------------
(* A worker, those in given phases, and the phases before the end of a dial *)
(* and with a permit.                                                       *)
Worker == [phase : Phases, failures : Nat]

(* Workers in some phases, those before a session and those with a permit. *)
Users(w, phases) == {p \in Peer : w[p].phase \in phases}

Early == {"gate", "waiting", "dial"}

Holding == {"dial", "sync", "abort"}

(* One worker that changes its phase changes the number of workers in a set *)
(* of phases by one, if it enters or leaves the set.                        *)
LEMMA WorkerMoves ==
  ASSUME NEW w \in [Peer -> Worker], NEW v \in [Peer -> Worker], NEW p \in Peer, NEW X,
         \A q \in Peer \ {p} : v[q].phase = w[q].phase
  PROVE  /\ Cardinality(Users(w, X)) \in Nat
         /\ w[p].phase \in X /\ v[p].phase \in X => Users(v, X) = Users(w, X)
         /\ w[p].phase \notin X /\ v[p].phase \notin X => Users(v, X) = Users(w, X)
         /\ w[p].phase \in X /\ v[p].phase \notin X =>
              Cardinality(Users(v, X)) = Cardinality(Users(w, X)) - 1
         /\ w[p].phase \notin X /\ v[p].phase \in X =>
              Cardinality(Users(v, X)) = Cardinality(Users(w, X)) + 1
<1>1. Users(w, X) \in SUBSET Peer
  BY Zenon DEF Users
<1>2. Cardinality(Users(w, X)) \in Nat
  BY <1>1, Count, Zenon
<1>3. w[p].phase \in X /\ v[p].phase \in X => Users(v, X) = Users(w, X)
  BY DEF Users
<1>4. w[p].phase \notin X /\ v[p].phase \notin X => Users(v, X) = Users(w, X)
  BY DEF Users
<1>5. ASSUME w[p].phase \in X, v[p].phase \notin X
      PROVE  Cardinality(Users(v, X)) = Cardinality(Users(w, X)) - 1
  <2>1. Users(v, X) = Users(w, X) \ {p} /\ p \in Users(w, X)
    BY <1>5 DEF Users
  <2> QED
    BY <2>1, <1>1, Count, Zenon
<1>6. ASSUME w[p].phase \notin X, v[p].phase \in X
      PROVE  Cardinality(Users(v, X)) = Cardinality(Users(w, X)) + 1
  <2>1. Users(v, X) = Users(w, X) \cup {p} /\ p \in Peer \ Users(w, X)
    BY <1>6 DEF Users
  <2> QED
    BY <2>1, <1>1, Count, Zenon
<1> QED
  BY <1>2, <1>3, <1>4, <1>5, <1>6, Zenon

(* A step of workers that keeps who runs and who has yet to dial leaves the *)
(* supervisor's counts right.                                               *)
LEMMA SupervisorKept ==
  ASSUME OutboundInv, events' = events, active' = active, dialing' = dialing, retry' = retry,
         worker' \in [Peer -> Worker], permits' \in Nat,
         \A q \in Peer : /\ worker'[q].phase = "none" <=> worker[q].phase = "none"
                         /\ worker'[q].phase \in Early <=> worker[q].phase \in Early
  PROVE  OutboundTyped' /\ Reports' /\ DialingExact' /\ WorkersBounded'
<1>1. OutboundTyped'
  BY Zenon DEF OutboundInv, OutboundTyped, Worker
<1>2. \A q \in Peer, d \in BOOLEAN : Sent(q, d)' = Sent(q, d)
  BY Zenon DEF Sent
<1>3. Reports'
  BY <1>2, Zenon DEF OutboundInv, Reports, Early, Unique
<1>4. DialingExact'
  <2>1. Undialed' = Undialed
    BY Zenon DEF Undialed, In, Early
  <2>2. {q \in Peer : Sent(q, FALSE)}' = {q \in Peer : Sent(q, FALSE)}
    BY <1>2, Zenon
  <2> QED
    BY <2>1, <2>2, Zenon DEF OutboundInv, DialingExact
<1>5. WorkersBounded'
  BY <1>2, Zenon DEF OutboundInv, WorkersBounded
<1> QED
  BY <1>1, <1>3, <1>4, <1>5, Zenon

(* A step that moves no worker at the gate leaves the gate's counts right. *)
LEMMA GateKept ==
  ASSUME OutboundInv, permits' = permits,
         \A X \in {Holding, {"gate"}, {"waiting"}} : Users(worker', X) = Users(worker, X)
  PROVE  PermitsExact' /\ NoLostWakeup'
<1>1. \A X : In(X) = Users(worker, X) /\ In(X)' = Users(worker', X)
  BY Zenon DEF In, Users
<1>2. In({"dial", "sync", "abort"})' = In({"dial", "sync", "abort"})
  BY <1>1, Zenon DEF Holding
<1>3. In({"gate"})' = In({"gate"}) /\ In({"waiting"})' = In({"waiting"})
  BY <1>1, Zenon
<1> QED
  BY <1>2, <1>3, Zenon DEF OutboundInv, PermitsExact, NoLostWakeup

-----------------------------------------------------------------------------
(* SyncGate::acquire with a permit free. *)
LEMMA AcquireInv ==
  ASSUME OutboundInv, NEW p \in Peer, Acquire(p)
  PROVE  OutboundInv'
<1>1. worker \in [Peer -> Worker] /\ permits \in Nat
  BY Zenon DEF OutboundInv, OutboundTyped, Worker
<1>2. /\ worker' \in [Peer -> Worker] /\ worker[p].phase = "gate" /\ worker'[p].phase = "dial"
      /\ \A q \in Peer \ {p} : worker'[q] = worker[q]
  BY <1>1, Zenon DEF Acquire, Worker, Phases
<1>3. OutboundTyped' /\ Reports' /\ DialingExact' /\ WorkersBounded'
  BY <1>1, <1>2, SupervisorKept, SMTT(30) DEF Acquire, Early
<1>4. /\ Cardinality(Users(worker', Holding)) = Cardinality(Users(worker, Holding)) + 1
      /\ Cardinality(Users(worker', {"gate"})) = Cardinality(Users(worker, {"gate"})) - 1
      /\ Cardinality(Users(worker, {"gate"})) \in Nat
      /\ Users(worker', {"waiting"}) = Users(worker, {"waiting"})
  BY <1>1, <1>2, WorkerMoves, SMT, SMTT(30) DEF Holding
<1>5. PermitsExact'
  BY <1>1, <1>4, OutboundAssumption, SMTT(30), SMTT(60) DEF OutboundInv, PermitsExact, In, Users, Holding, Acquire
<1>6. NoLostWakeup'
  BY <1>1, <1>4, OutboundAssumption, SMTT(30), SMTT(60) DEF OutboundInv, NoLostWakeup, In, Users, Acquire
<1> QED
  BY <1>3, <1>5, <1>6, Zenon DEF OutboundInv

(* SyncGate::acquire with every permit taken. *)
LEMMA WaitInv ==
  ASSUME OutboundInv, NEW p \in Peer, AwaitPermit(p)
  PROVE  OutboundInv'
<1>1. worker \in [Peer -> Worker] /\ permits \in Nat
  BY Zenon DEF OutboundInv, OutboundTyped, Worker
<1>2. /\ worker' \in [Peer -> Worker] /\ worker[p].phase = "gate"
      /\ worker'[p].phase = "waiting" /\ \A q \in Peer \ {p} : worker'[q] = worker[q]
  BY <1>1, Zenon DEF AwaitPermit, Worker, Phases
<1>3. OutboundTyped' /\ Reports' /\ DialingExact' /\ WorkersBounded'
  BY <1>1, <1>2, SupervisorKept, Zenon DEF AwaitPermit, Early
<1>4. /\ Users(worker', Holding) = Users(worker, Holding)
      /\ Cardinality(Users(worker', {"gate"})) = Cardinality(Users(worker, {"gate"})) - 1
      /\ Cardinality(Users(worker', {"gate"})) \in Nat
  BY <1>1, <1>2, WorkerMoves DEF Holding
<1>5. PermitsExact'
  BY <1>4, Zenon DEF OutboundInv, PermitsExact, In, Users, Holding, AwaitPermit
<1>6. NoLostWakeup'
  BY <1>1, <1>4, OutboundAssumption, SMT, SMTT(30) DEF NoLostWakeup, In, Users, AwaitPermit
<1> QED
  BY <1>3, <1>5, <1>6, Zenon DEF OutboundInv

(* A wake-up of the condition variable that nobody asked for. *)
LEMMA WakeInv ==
  ASSUME OutboundInv, NEW p \in Peer, WakeSpuriously(p)
  PROVE  OutboundInv'
<1>1. worker \in [Peer -> Worker] /\ permits \in Nat
  BY Zenon DEF OutboundInv, OutboundTyped, Worker
<1>2. /\ worker' \in [Peer -> Worker] /\ worker[p].phase = "waiting"
      /\ worker'[p].phase = "gate" /\ \A q \in Peer \ {p} : worker'[q] = worker[q]
  BY <1>1, Zenon DEF WakeSpuriously, Worker, Phases
<1>3. OutboundTyped' /\ Reports' /\ DialingExact' /\ WorkersBounded'
  BY <1>1, <1>2, SupervisorKept, Zenon DEF WakeSpuriously, Early
<1>4. /\ Users(worker', Holding) = Users(worker, Holding)
      /\ Cardinality(Users(worker', {"gate"})) = Cardinality(Users(worker, {"gate"})) + 1
      /\ Cardinality(Users(worker, {"gate"})) \in Nat
  BY <1>1, <1>2, WorkerMoves DEF Holding
<1>5. PermitsExact'
  BY <1>4, Zenon DEF OutboundInv, PermitsExact, In, Users, Holding, WakeSpuriously
<1>6. permits + Cardinality(In({"gate"})) >= MaxSync
  BY <1>1, <1>2, Zenon DEF OutboundInv, NoLostWakeup, In
<1>7. NoLostWakeup'
  BY <1>1, <1>4, <1>6, OutboundAssumption, SMTT(30), SMTT(60) DEF NoLostWakeup, In, Users, WakeSpuriously
<1> QED
  BY <1>3, <1>5, <1>7, Zenon DEF OutboundInv

(* SyncPermit::drop hands its permit to the worker it wakes. *)
LEMMA ReleaseInv ==
  ASSUME OutboundInv, NEW p \in Peer, NEW next \in {"gossip", "failed"}, Release(p, next)
  PROVE  OutboundInv'
<1> DEFINE freed == [worker EXCEPT ![p].phase = next,
                               ![p].failures = IF next = "gossip" THEN 0 ELSE @]
<1>1. worker \in [Peer -> Worker] /\ permits \in Nat
  BY Zenon DEF OutboundInv, OutboundTyped, Worker
<1>2. /\ freed \in [Peer -> Worker] /\ worker[p].phase \in {"sync", "abort"}
      /\ freed[p].phase = next /\ \A q \in Peer \ {p} : freed[q] = worker[q]
  BY <1>1 DEF Release, Worker, Phases
<1>3. worker' \in NotifyOne(freed)
  BY Zenon DEF Release
<1>4. PICK w \in [Peer -> Worker] : w = freed
  BY <1>2, Zenon
<1>5. /\ worker[p].phase \in {"sync", "abort"}
      /\ w[p].phase = next /\ \A q \in Peer \ {p} : w[q] = worker[q]
  BY <1>2, <1>4, Zenon
<1>6. worker' \in NotifyOne(w)
  BY <1>3, <1>4, Zenon
<1> HIDE DEF freed
<1>7. /\ Cardinality(Users(w, Holding)) = Cardinality(Users(worker, Holding)) - 1
      /\ Cardinality(Users(worker, Holding)) \in Nat
      /\ Users(w, {"gate"}) = Users(worker, {"gate"})
      /\ Users(w, {"waiting"}) = Users(worker, {"waiting"})
      /\ Cardinality(Users(worker, {"gate"})) \in Nat
  BY <1>1, <1>5, WorkerMoves DEF Holding
<1>8. permits = Cardinality(Users(worker, Holding)) /\ permits <= MaxSync
  BY Zenon DEF OutboundInv, PermitsExact, In, Users, Holding
<1>9. Cardinality(Users(w, Holding)) \in Nat
  BY <1>5, WorkerMoves, Zenon
<1>10. permits' = Cardinality(Users(w, Holding)) /\ permits' = permits - 1 /\ permits' \in Nat
  BY <1>1, <1>7, <1>8, <1>9, SMTT(30) DEF Release, Monus
<1>11. CASE Users(w, {"waiting"}) = {}
  <2>1. worker' = w
    BY <1>6, <1>11, Zenon DEF NotifyOne, Users
  <2>2. OutboundTyped' /\ Reports' /\ DialingExact' /\ WorkersBounded'
    BY <1>1, <1>5, <1>10, <2>1, SupervisorKept, Zenon DEF Release, Early
  <2>3. PermitsExact'
    <3>1. In({"dial", "sync", "abort"})' = Users(w, Holding)
      BY <2>1, Zenon DEF In, Users, Holding
    <3>2. permits' <= MaxSync
      BY <1>1, <1>8, <1>10, OutboundAssumption, SMTT(30)
    <3>3. permits' = Cardinality(In({"dial", "sync", "abort"})')
      BY <1>10, <3>1, Zenon
    <3> QED
      BY <3>2, <3>3, Zenon DEF PermitsExact
  <2>4. NoLostWakeup'
    BY <1>11, <2>1, Zenon DEF NoLostWakeup, In, Users
  <2> QED
    BY <2>2, <2>3, <2>4, Zenon DEF OutboundInv
<1>12. CASE Users(w, {"waiting"}) # {}
  <2>1. PICK q \in Peer : w[q].phase = "waiting" /\ worker' = [w EXCEPT ![q].phase = "gate"]
    BY <1>6, <1>12, Zenon DEF NotifyOne, Users
  <2>2. /\ worker' \in [Peer -> Worker] /\ worker'[q].phase = "gate"
        /\ \A r \in Peer \ {q} : worker'[r] = w[r]
    BY <1>5, <2>1, Zenon DEF Worker, Phases
  <2>3. q # p
    BY <1>5, <2>1, Zenon
  <2>4. OutboundTyped' /\ Reports' /\ DialingExact' /\ WorkersBounded'
    <3>1. \A r \in Peer : /\ worker'[r].phase = "none" <=> worker[r].phase = "none"
                          /\ worker'[r].phase \in Early <=> worker[r].phase \in Early
      BY <1>5, <2>1, <2>2, <2>3, ZenonT(40) DEF Early
    <3> QED
      BY <1>10, <2>2, <3>1, SupervisorKept, Zenon DEF Release
  <2>5. /\ Users(worker', Holding) = Users(w, Holding)
        /\ Cardinality(Users(worker', {"gate"})) = Cardinality(Users(w, {"gate"})) + 1
    <3>1. \A r \in Peer \ {q} : worker'[r].phase = w[r].phase
      BY <2>2, Zenon
    <3>2. w \in [Peer -> Worker] /\ worker' \in [Peer -> Worker]
      BY <1>5, <2>2, Zenon
    <3>3. Users(worker', Holding) = Users(w, Holding)
      BY <2>1, <2>2, <3>1, Zenon DEF Holding, Users
    <3>4. Cardinality(Users(worker', {"gate"})) = Cardinality(Users(w, {"gate"})) + 1
      <4>1. w[q].phase \notin {"gate"} /\ worker'[q].phase \in {"gate"}
        BY <2>1, <2>2, Zenon
      <4> QED
        BY <3>1, <3>2, <4>1, WorkerMoves, SMTT(30)
    <3> QED
      BY <3>3, <3>4, Zenon
  <2>6. PermitsExact'
    <3>1. In({"dial", "sync", "abort"})' = Users(w, Holding)
      BY <2>5, Zenon DEF In, Users, Holding
    <3>2. permits' <= MaxSync
      BY <1>1, <1>8, <1>10, OutboundAssumption, SMTT(30)
    <3>3. permits' = Cardinality(In({"dial", "sync", "abort"})')
      BY <1>10, <3>1, Zenon
    <3> QED
      BY <3>2, <3>3, Zenon DEF PermitsExact
  <2>7. permits + Cardinality(Users(worker, {"gate"})) >= MaxSync
    BY <1>7, <1>12, Zenon DEF OutboundInv, NoLostWakeup, In, Users
  <2>8. NoLostWakeup'
    <3>1. In({"gate"})' = Users(worker', {"gate"})
      BY Zenon DEF In, Users
    <3> QED
      BY <1>1, <1>7, <1>10, <2>5, <2>7, <3>1, OutboundAssumption, SMTT(30), SMTT(60) DEF NoLostWakeup
  <2> QED
    BY <2>4, <2>6, <2>8, Zenon DEF OutboundInv
<1> QED
  BY <1>11, <1>12, Zenon

-----------------------------------------------------------------------------
(* The supervisor takes the report of a dial, or of the end of a worker. *)
LEMMA DrainInv ==
  ASSUME OutboundInv, Drain
  PROVE  OutboundInv'
<1> DEFINE h == Head(events)
           Dials == {p \in Peer : Sent(p, FALSE)}
<1>1. /\ events \in Seq(Event) /\ events # <<>> /\ Unique(events)
      /\ events' = Tail(events) /\ worker' = worker /\ permits' = permits
  BY Zenon DEF OutboundInv, OutboundTyped, Reports, Drain
<1>2. /\ events' \in Seq(Event) /\ Unique(events') /\ h \in Event
      /\ \A p \in Peer, d \in BOOLEAN :
           Sent(p, d)' <=> Sent(p, d) /\ ~ (h.peer = p /\ h.done = d)
      /\ Sent(h.peer, h.done)
  BY <1>1, TakeReport, SMTT(30), SMTT(60) DEF Sent, SentIn
<1>3. h.peer \in Peer /\ h.done \in BOOLEAN /\ h.failures \in Nat /\ h.delay \in Int
  BY <1>2, Zenon DEF Event
<1>4. PermitsExact' /\ NoLostWakeup'
  BY <1>1, GateKept, Zenon
<1>5. Reports'
  BY <1>1, <1>2, Zenon DEF OutboundInv, Reports
<1>6. Undialed' = Undialed
  BY <1>1, Zenon DEF Undialed, In
<1>7. Cardinality(Undialed) \in Nat /\ Dials \subseteq Peer
  BY Count, Zenon DEF Undialed, In
<1>8. CASE h.done = TRUE
  <2>1. /\ active' = active \ {h.peer} /\ dialing' = dialing
        /\ retry' = WithRetry(h.peer, h.failures, h.delay)
    BY <1>8, Zenon DEF Drain
  <2>2. /\ DOMAIN retry' \subseteq Peer
        /\ \A p \in DOMAIN retry' : retry'[p] \in [failures : Nat, wait : Int]
    BY <1>3, <2>1, Zenon DEF OutboundInv, OutboundTyped, WithRetry
  <2>3. OutboundTyped'
    BY <1>1, <1>2, <2>1, <2>2, Zenon DEF OutboundInv, OutboundTyped
  <2>4. Dials' = Dials
    BY <1>2, <1>8, Zenon
  <2>5. DialingExact'
    BY <1>6, <2>1, <2>4, Zenon DEF OutboundInv, DialingExact
  <2>6. active' = {p \in Peer : worker'[p].phase # "none" \/ Sent(p, TRUE)'}
    BY <1>1, <1>2, <1>3, <1>8, <2>1, Zenon DEF OutboundInv, WorkersBounded
  <2>7. Cardinality(active') <= Cardinality(active) /\ Cardinality(active') \in Nat
    <3>1. IsFiniteSet(active) /\ active' \subseteq active /\ active' \subseteq Peer
      BY <2>1, Count, Zenon DEF OutboundInv, OutboundTyped
    <3> QED
      BY <3>1, Count, FS_Subset, Zenon
  <2>8. WorkersBounded'
    <3>1. Cardinality(active) \in Nat
      BY Count, Zenon DEF OutboundInv, OutboundTyped
    <3>2. Cardinality(active') <= MaxOutbound /\ dialing' <= MaxDials
      BY <2>1, <2>7, <3>1, OutboundAssumption, SMTT(30), SMTT(60) DEF OutboundInv, WorkersBounded
    <3> QED
      BY <1>1, <1>2, <2>6, <3>2, Zenon DEF OutboundInv, WorkersBounded
  <2> QED
    BY <1>4, <1>5, <2>3, <2>5, <2>8, Zenon DEF OutboundInv
<1>9. CASE h.done = FALSE
  <2>1. active' = active /\ dialing' = dialing - 1 /\ retry' = retry
    BY <1>9, Zenon DEF Drain
  <2>2. Dials' = Dials \ {h.peer} /\ h.peer \in Dials
    BY <1>2, <1>3, <1>9, Zenon
  <2>3. Cardinality(Dials') = Cardinality(Dials) - 1 /\ Cardinality(Dials) \in Nat
    BY <1>7, <2>2, Count, Zenon
  <2>4. dialing = Cardinality(Undialed) + Cardinality(Dials)
    BY Zenon DEF OutboundInv, DialingExact
  <2>5. Cardinality(Dials) >= 1
    BY <1>7, <2>2, Count, Zenon
  <2>6. dialing' \in Nat /\ dialing' = Cardinality(Undialed) + Cardinality(Dials')
    BY <1>7, <2>1, <2>3, <2>4, <2>5
  <2>7. OutboundTyped'
    BY <1>1, <1>2, <2>1, <2>6, Zenon DEF OutboundInv, OutboundTyped
  <2>8. DialingExact'
    BY <1>6, <2>6, Zenon DEF DialingExact
  <2>9. WorkersBounded'
    <3>1. \A p \in Peer : Sent(p, TRUE)' <=> Sent(p, TRUE)
      BY <1>2, <1>9, Zenon
    <3>2. dialing' <= MaxDials
      BY <2>1, <2>6, OutboundAssumption DEF OutboundInv, OutboundTyped, WorkersBounded
    <3> QED
      BY <1>1, <2>1, <3>1, <3>2, Zenon DEF OutboundInv, WorkersBounded
  <2> QED
    BY <1>4, <1>5, <2>7, <2>8, <2>9, Zenon DEF OutboundInv
<1> QED
  BY <1>3, <1>8, <1>9, Zenon

(* A round of the supervisor starts the workers of the peers selected. *)
LEMMA SelectInv ==
  ASSUME OutboundInv, Select
  PROVE  OutboundInv'
<1>1. worker \in [Peer -> Worker] /\ active \subseteq Peer /\ dialing \in Nat
  BY Zenon DEF OutboundInv, OutboundTyped, Worker
<1>2. /\ Selected \subseteq Peer \ active /\ Slots \in Nat
      /\ Cardinality(Selected) <= Slots
  BY Selection, Zenon DEF OutboundInv
<1>3. Cardinality(Selected) \in Nat /\ Cardinality(active) \in Nat
  BY <1>1, <1>2, Count, Zenon
<1>4. \A p \in Peer : FailuresIn(Retained(retry), p) \in Nat
  BY Zenon DEF FailuresIn, Retained, OutboundInv, OutboundTyped
<1>5. /\ worker' \in [Peer -> Worker]
      /\ \A p \in Selected : worker'[p].phase = "gate" /\ worker[p].phase = "none"
      /\ \A p \in Peer \ Selected : worker'[p] = worker[p]
  <2>1. \A p \in Selected : worker[p].phase = "none"
    BY <1>2, Zenon DEF OutboundInv, WorkersBounded
  <2> QED
    BY <1>1, <1>2, <1>4, <2>1, Zenon DEF Select, Worker, Phases
<1>6. events = <<>> /\ events' = <<>> /\ permits' = permits
  BY Zenon DEF Select
<1>7. \A p \in Peer, d \in BOOLEAN : ~ Sent(p, d) /\ ~ Sent(p, d)'
  BY <1>6 DEF Sent
<1>8. OutboundTyped'
  <2>1. active' \subseteq Peer /\ dialing' \in Nat
    BY <1>1, <1>2, <1>3, SMTT(30) DEF Select
  <2>2. /\ DOMAIN retry' \subseteq Peer
        /\ \A p \in DOMAIN retry' : retry'[p] \in [failures : Nat, wait : Int]
    BY Zenon DEF Select, Retained, OutboundInv, OutboundTyped
  <2> QED
    BY <1>5, <1>6, <2>1, <2>2, Zenon DEF OutboundInv, OutboundTyped, Worker
<1>9. Reports'
  <2>1. Unique(events')
    BY <1>6 DEF Unique
  <2>2. \A p \in Peer : ~ Sent(p, FALSE)'
    BY <1>7, Zenon
  <2> QED
    BY <2>1, <2>2, Zenon DEF Reports
<1>10. /\ Cardinality(active') = Cardinality(active) + Cardinality(Selected)
       /\ dialing' = dialing + Cardinality(Selected)
  <2>1. active \cap Selected = {} /\ IsFiniteSet(active) /\ IsFiniteSet(Selected)
    BY <1>1, <1>2, Count, Zenon
  <2> QED
    BY <1>3, <2>1, FS_Union, FS_EmptySet DEF Select
<1>11. DialingExact'
  <2>1. Undialed' = Undialed \cup Selected /\ Undialed \cap Selected = {}
    BY <1>2, <1>5, Zenon DEF Undialed, In
  <2>2. IsFiniteSet(Undialed) /\ IsFiniteSet(Selected) /\ Cardinality(Undialed) \in Nat
    BY <1>2, Count, Zenon DEF Undialed, In
  <2>3. Cardinality(Undialed') = Cardinality(Undialed) + Cardinality(Selected)
    <3>1. Cardinality(Undialed \cup Selected) =
            Cardinality(Undialed) + Cardinality(Selected) - Cardinality(Undialed \cap Selected)
      BY <2>2, FS_Union, Zenon
    <3>2. Cardinality(Undialed \cap Selected) = 0
      BY <2>1, FS_EmptySet, Zenon
    <3> QED
      BY <1>3, <2>1, <2>2, <3>1, <3>2, SMTT(30)
  <2>4. {p \in Peer : Sent(p, FALSE)} = {} /\ {p \in Peer : Sent(p, FALSE)'} = {}
    BY <1>7, Zenon
  <2>5. dialing = Cardinality(Undialed)
    <3>1. dialing = Cardinality(Undialed) + Cardinality({p \in Peer : Sent(p, FALSE)})
      BY Zenon DEF OutboundInv, DialingExact
    <3>2. Cardinality({p \in Peer : Sent(p, FALSE)}) = 0
      BY <2>4, FS_EmptySet, Zenon
    <3> QED
      BY <2>2, <3>1, <3>2
  <2>6. dialing' = Cardinality(Undialed') + 0
    BY <1>3, <1>10, <2>2, <2>3, <2>5
  <2>7. Cardinality({p \in Peer : Sent(p, FALSE)'}) = 0
    BY <2>4, FS_EmptySet, Zenon
  <2> QED
    BY <2>6, <2>7, Zenon DEF DialingExact
<1>12. WorkersBounded'
  <2>1. active' = {p \in Peer : worker'[p].phase # "none" \/ Sent(p, TRUE)'}
    BY <1>1, <1>2, <1>5, <1>7, Zenon DEF Select, OutboundInv, WorkersBounded
  <2>2. Cardinality(active) <= MaxOutbound /\ dialing <= MaxDials
    BY Zenon DEF OutboundInv, WorkersBounded
  <2>3. Cardinality(active') <= MaxOutbound /\ dialing' <= MaxDials
    BY <1>1, <1>2, <1>3, <1>10, <2>2, OutboundAssumption, SMTT(30), SMTT(60) DEF Slots, AtMost, Monus
  <2> QED
    BY <1>7, <2>1, <2>3, Zenon DEF WorkersBounded
<1>13. PermitsExact'
  <2>1. In({"dial", "sync", "abort"})' = In({"dial", "sync", "abort"})
    BY <1>5, Zenon DEF In
  <2> QED
    BY <1>6, <2>1, Zenon DEF OutboundInv, PermitsExact
<1>14. NoLostWakeup'
  <2>1. In({"waiting"})' = In({"waiting"}) /\ In({"gate"}) \subseteq In({"gate"})'
    BY <1>5, Zenon DEF In
  <2>2. In({"gate"})' \subseteq Peer
    BY Zenon DEF In
  <2>3. IsFiniteSet(In({"gate"})') /\ Cardinality(In({"gate"})') \in Nat
    BY <2>2, Count, Zenon
  <2>4. Cardinality(In({"gate"})) <= Cardinality(In({"gate"})') /\ Cardinality(In({"gate"})) \in Nat
    BY <2>1, <2>3, FS_Subset, FS_CardinalityType, Zenon
  <2> QED
    BY <1>6, <2>1, <2>3, <2>4, OutboundAssumption, SMTT(30) DEF OutboundInv, OutboundTyped, NoLostWakeup
<1> QED
  BY <1>8, <1>9, <1>11, <1>12, <1>13, <1>14, Zenon DEF OutboundInv

-----------------------------------------------------------------------------
(* The dial is over, well or not, and reported while the permit is kept. *)
LEMMA DialInv ==
  ASSUME OutboundInv, NEW p \in Peer, NEW ok \in BOOLEAN, Dial(p, ok)
  PROVE  OutboundInv'
<1> DEFINE Dials == {q \in Peer : Sent(q, FALSE)}
<1>1. worker \in [Peer -> Worker] /\ events \in Seq(Event) /\ Unique(events)
  BY Zenon DEF OutboundInv, OutboundTyped, Worker, Reports
<1>2. /\ worker' \in [Peer -> Worker] /\ worker[p].phase = "dial"
      /\ worker'[p].phase \in {"sync", "abort"} /\ \A q \in Peer \ {p} : worker'[q] = worker[q]
  BY <1>1 DEF Dial, Worker, Phases
<1>3. /\ Dialed(p) \in Event /\ Dialed(p).peer = p /\ Dialed(p).done = FALSE
      /\ events' = Append(events, Dialed(p))
  BY DEF Dial, Dialed, Event
<1>4. ~ SentIn(events, p, FALSE)
  BY <1>2, Zenon DEF OutboundInv, Reports, Sent, SentIn
<1>5. /\ events' \in Seq(Event) /\ Unique(events')
      /\ \A q \in Peer, d \in BOOLEAN :
           SentIn(events', q, d) <=> SentIn(events, q, d) \/ (p = q /\ FALSE = d)
  <2> DEFINE e == Dialed(p)
  <2>1. e \in Event /\ e.peer = p /\ e.done = FALSE /\ events' = Append(events, e)
    BY <1>3, Zenon
  <2> HIDE DEF e
  <2>2. ~ SentIn(events, e.peer, e.done)
    BY <1>4, <2>1, Zenon
  <2>3. /\ Append(events, e) \in Seq(Event) /\ Unique(Append(events, e))
        /\ \A q \in Peer, d \in BOOLEAN :
             SentIn(Append(events, e), q, d) <=>
               SentIn(events, q, d) \/ (e.peer = q /\ e.done = d)
    BY <1>1, <2>1, <2>2, SendReport, Zenon
  <2> QED
    BY <2>1, <2>3, Zenon
<1>6. \A q \in Peer, d \in BOOLEAN : Sent(q, d)' <=> Sent(q, d) \/ (p = q /\ d = FALSE)
  BY <1>5 DEF Sent, SentIn
<1>7. OutboundTyped'
  BY <1>2, <1>5, Zenon DEF OutboundInv, OutboundTyped, Worker, Dial
<1>8. Reports'
  BY <1>2, <1>5, <1>6, Zenon DEF OutboundInv, Reports
<1>9. DialingExact'
  <2>1. /\ Cardinality(Users(worker', Early)) = Cardinality(Users(worker, Early)) - 1
        /\ Cardinality(Users(worker, Early)) \in Nat
    BY <1>1, <1>2, WorkerMoves, SMTT(30), SMTT(60) DEF Early
  <2>2. Undialed = Users(worker, Early) /\ Undialed' = Users(worker', Early)
    BY Zenon DEF Undialed, In, Users, Early
  <2>3. Dials' = Dials \cup {p} /\ p \in Peer \ Dials
    <3>1. ~ Sent(p, FALSE)
      BY <1>4, Zenon DEF Sent, SentIn
    <3> QED
      BY <1>6, <3>1, Zenon
  <2>4. Cardinality(Dials') = Cardinality(Dials) + 1 /\ Cardinality(Dials) \in Nat
    BY <2>3, Count, Zenon
  <2>5. dialing = Cardinality(Users(worker, Early)) + Cardinality(Dials)
    BY <2>2, Zenon DEF OutboundInv, DialingExact
  <2>6. dialing' = Cardinality(Users(worker', Early)) + Cardinality(Dials')
    BY <2>1, <2>4, <2>5 DEF Dial
  <2> QED
    BY <2>2, <2>6, Zenon DEF DialingExact
<1>10. WorkersBounded'
  <2>1. \A q \in Peer : /\ Sent(q, TRUE)' <=> Sent(q, TRUE)
                        /\ worker'[q].phase = "none" <=> worker[q].phase = "none"
    BY <1>2, <1>6, Zenon
  <2> QED
    BY <2>1, Zenon DEF OutboundInv, WorkersBounded, Dial
<1>11. PermitsExact' /\ NoLostWakeup'
  <2>1. /\ Users(worker', Holding) = Users(worker, Holding)
        /\ Users(worker', {"gate"}) = Users(worker, {"gate"})
        /\ Users(worker', {"waiting"}) = Users(worker, {"waiting"})
    BY <1>1, <1>2, WorkerMoves, SMTT(30) DEF Holding
  <2> QED
    BY <2>1, GateKept, Zenon DEF Dial
<1> QED
  BY <1>7, <1>8, <1>9, <1>10, <1>11, Zenon DEF OutboundInv

(* A worker that holds no permit ends with its one report. *)
LEMMA ReportInv ==
  ASSUME OutboundInv, NEW p \in Peer, NEW failures \in Nat, NEW delay \in Int,
         worker[p].phase \in {"failed", "gossip"}, Report(p, failures, delay)
  PROVE  OutboundInv'
<1>1. worker \in [Peer -> Worker] /\ events \in Seq(Event) /\ Unique(events)
  BY Zenon DEF OutboundInv, OutboundTyped, Worker, Reports
<1>2. /\ worker' \in [Peer -> Worker] /\ worker'[p].phase = "none"
      /\ \A q \in Peer \ {p} : worker'[q] = worker[q]
  BY <1>1, Zenon DEF Report, Worker, Phases, Idle
<1>3. /\ Ended(p, failures, delay) \in Event
      /\ Ended(p, failures, delay).peer = p /\ Ended(p, failures, delay).done = TRUE
      /\ events' = Append(events, Ended(p, failures, delay))
  BY Zenon DEF Report, Ended, Event
<1>4. ~ SentIn(events, p, TRUE)
  BY Zenon DEF OutboundInv, WorkersBounded, Sent, SentIn
<1>5. /\ events' \in Seq(Event) /\ Unique(events')
      /\ \A q \in Peer, d \in BOOLEAN :
           SentIn(events', q, d) <=> SentIn(events, q, d) \/ (p = q /\ TRUE = d)
  <2> DEFINE e == Ended(p, failures, delay)
  <2>1. e \in Event /\ e.peer = p /\ e.done = TRUE /\ events' = Append(events, e)
    BY <1>3, Zenon
  <2> HIDE DEF e
  <2>2. ~ SentIn(events, e.peer, e.done)
    BY <1>4, <2>1, Zenon
  <2>3. /\ Append(events, e) \in Seq(Event) /\ Unique(Append(events, e))
        /\ \A q \in Peer, d \in BOOLEAN :
             SentIn(Append(events, e), q, d) <=>
               SentIn(events, q, d) \/ (e.peer = q /\ e.done = d)
    BY <1>1, <2>1, <2>2, SendReport, Zenon
  <2> QED
    BY <2>1, <2>3, Zenon
<1>6. \A q \in Peer, d \in BOOLEAN : Sent(q, d)' <=> Sent(q, d) \/ (p = q /\ d = TRUE)
  BY <1>5 DEF Sent, SentIn
<1>7. OutboundTyped'
  BY <1>2, <1>5, Zenon DEF OutboundInv, OutboundTyped, Worker, Report
<1>8. Reports'
  BY <1>2, <1>5, <1>6, Zenon DEF OutboundInv, Reports
<1>9. DialingExact'
  <2>1. Undialed' = Undialed
    BY <1>2, Zenon DEF Undialed, In
  <2>2. {q \in Peer : Sent(q, FALSE)}' = {q \in Peer : Sent(q, FALSE)}
    BY <1>6, Zenon
  <2> QED
    BY <2>1, <2>2, Zenon DEF OutboundInv, DialingExact, Report
<1>10. WorkersBounded'
  <2>1. active' = {q \in Peer : worker'[q].phase # "none" \/ Sent(q, TRUE)'}
    BY <1>2, <1>6, Zenon DEF OutboundInv, WorkersBounded, Report
  <2>2. \A q \in Peer : worker'[q].phase # "none" => ~ Sent(q, TRUE)'
    BY <1>2, <1>6, Zenon DEF OutboundInv, WorkersBounded
  <2> QED
    BY <2>1, <2>2, Zenon DEF OutboundInv, WorkersBounded, Report
<1>11. PermitsExact' /\ NoLostWakeup'
  <2>1. /\ Users(worker', Holding) = Users(worker, Holding)
        /\ Users(worker', {"gate"}) = Users(worker, {"gate"})
        /\ Users(worker', {"waiting"}) = Users(worker, {"waiting"})
    BY <1>2, Zenon DEF Users, Holding
  <2> QED
    BY <2>1, GateKept, Zenon DEF Report
<1> QED
  BY <1>7, <1>8, <1>9, <1>10, <1>11, Zenon DEF OutboundInv

(* A session that completes, and a dial or session that fails. *)
LEMMA EndInv ==
  ASSUME OutboundInv, NEW p \in Peer,
         \/ \E delay \in {0, Reconnect} : Complete(p, delay)
         \/ \E malicious \in BOOLEAN : FailPeer(p, malicious)
  PROVE  OutboundInv'
<1>1. worker[p].failures \in Nat
  BY Zenon DEF OutboundInv, OutboundTyped
<1>2. CASE \E delay \in {0, Reconnect} : Complete(p, delay)
  BY <1>1, <1>2, ReportInv, OutboundAssumption, SMTT(30) DEF Complete
<1>3. ASSUME NEW malicious \in BOOLEAN, FailPeer(p, malicious)
      PROVE  OutboundInv'
  <2> DEFINE failures == AtMost(worker[p].failures + 1, MaxFailures)
             delay == IF malicious THEN Cooldown ELSE Backoff(failures)
  <2>1. failures \in Nat
    BY <1>1, OutboundAssumption, SMTT(30) DEF AtMost
  <2>2. Backoff(failures) \in Int
    <3>1. 2 ^ (failures - 1) \in Int
      BY <2>1
    <3> QED
      BY <3>1, OutboundAssumption, SMTT(30) DEF Backoff, AtMost
  <2>3. delay \in Int
    BY <2>2, OutboundAssumption, SMTT(30)
  <2>4. worker[p].phase \in {"failed", "gossip"} /\ Report(p, failures, delay)
    BY <1>3, Zenon DEF FailPeer
  <2> HIDE DEF failures, delay
  <2> QED
    BY <2>1, <2>3, <2>4, ReportInv, Zenon
<1> QED
  BY <1>2, <1>3, Zenon

(* Time and discovery change nothing the counters depend on. *)
LEMMA OtherInv ==
  ASSUME OutboundInv, Tick \/ (\E p \in Peer : List(p)) \/ UNCHANGED outboundVars
  PROVE  OutboundInv'
<1>1. /\ active' = active /\ dialing' = dialing /\ events' = events
      /\ worker' = worker /\ permits' = permits
  BY Zenon DEF Tick, List, outboundVars
<1>2. /\ DOMAIN retry' \subseteq Peer
      /\ \A p \in DOMAIN retry' : retry'[p] \in [failures : Nat, wait : Int]
  <2>1. CASE Tick
    <3>1. retry' = [p \in DOMAIN retry |-> [retry[p] EXCEPT !.wait = Monus(@, 1)]]
      BY <2>1, Zenon DEF Tick
    <3>2. \A n \in Int : Monus(n, 1) \in Int
      BY DEF Monus
    <3> QED
      BY <3>1, <3>2, Zenon DEF OutboundInv, OutboundTyped
  <2>2. CASE retry' = retry
    BY <2>2, Zenon DEF OutboundInv, OutboundTyped
  <2> QED
    BY <2>1, <2>2, Zenon DEF List, outboundVars
<1>3. OutboundTyped'
  BY <1>1, <1>2, Zenon DEF OutboundInv, OutboundTyped
<1>4. \A q \in Peer, d \in BOOLEAN : Sent(q, d)' <=> Sent(q, d)
  BY <1>1, Zenon DEF Sent
<1>5. Reports'
  BY <1>1, <1>4, Zenon DEF OutboundInv, Reports, Unique
<1>6. DialingExact'
  <2>1. Undialed' = Undialed
    BY <1>1, Zenon DEF Undialed, In
  <2>2. {q \in Peer : Sent(q, FALSE)}' = {q \in Peer : Sent(q, FALSE)}
    BY <1>4, Zenon
  <2> QED
    BY <1>1, <2>1, <2>2, Zenon DEF OutboundInv, DialingExact
<1>7. WorkersBounded'
  BY <1>1, <1>4, Zenon DEF OutboundInv, WorkersBounded
<1>8. PermitsExact' /\ NoLostWakeup'
  BY <1>1, GateKept, Zenon
<1> QED
  BY <1>3, <1>5, <1>6, <1>7, <1>8, Zenon DEF OutboundInv

(* The node starts with no worker, no report and every permit free. *)
LEMMA OutboundInitially ==
  OutboundInit => OutboundInv
<1> SUFFICES ASSUME OutboundInit PROVE OutboundInv
  BY Zenon
<1>1. OutboundTyped
  BY DEF OutboundInit, OutboundTyped, Idle, Phases
<1>2. \A p \in Peer, d \in BOOLEAN : ~ Sent(p, d)
  BY DEF OutboundInit, Sent
<1>3. \A p \in Peer : worker[p].phase = "none"
  BY Zenon DEF OutboundInit, Idle
<1>4. Reports
  <2>1. Unique(events)
    BY DEF OutboundInit, Unique
  <2> QED
    BY <1>2, <2>1, Zenon DEF Reports
<1>5. DialingExact
  <2>1. Undialed = {} /\ {p \in Peer : Sent(p, FALSE)} = {}
    BY <1>2, <1>3, Zenon DEF Undialed, In
  <2>2. /\ Cardinality(Undialed) = 0
        /\ Cardinality({p \in Peer : Sent(p, FALSE)}) = 0
    BY <2>1, FS_EmptySet, Zenon
  <2>3. dialing = 0
    BY Zenon DEF OutboundInit
  <2> QED
    BY <2>2, <2>3 DEF DialingExact
<1>6. WorkersBounded
  <2>1. {p \in Peer : worker[p].phase # "none" \/ Sent(p, TRUE)} = {}
    BY <1>2, <1>3, Zenon
  <2>2. active = {} /\ dialing = 0
    BY Zenon DEF OutboundInit
  <2>3. Cardinality(active) = 0
    BY <2>2, FS_EmptySet, Zenon
  <2>4. Cardinality(active) <= MaxOutbound /\ dialing <= MaxDials
    BY <2>2, <2>3, OutboundAssumption
  <2> QED
    BY <1>2, <2>1, <2>2, <2>4, Zenon DEF WorkersBounded
<1>7. PermitsExact
  <2>1. In({"dial", "sync", "abort"}) = {}
    BY <1>3, Zenon DEF In
  <2>2. Cardinality(In({"dial", "sync", "abort"})) = 0 /\ permits = 0
    BY <2>1, FS_EmptySet, Zenon DEF OutboundInit
  <2> QED
    BY <2>2, OutboundAssumption DEF PermitsExact
<1>8. NoLostWakeup
  BY <1>3, Zenon DEF NoLostWakeup, In
<1> QED
  BY <1>1, <1>4, <1>5, <1>6, <1>7, <1>8, Zenon DEF OutboundInv

(* Every step of supervisor, workers and time keeps the counters right. *)
LEMMA OutboundStep ==
  OutboundInv /\ [OutboundNext]_outboundVars => OutboundInv'
<1> SUFFICES ASSUME OutboundInv, [OutboundNext]_outboundVars PROVE OutboundInv'
  BY Zenon
<1>1. CASE Drain
  BY <1>1, DrainInv, Zenon
<1>2. CASE Select
  BY <1>2, SelectInv, Zenon
<1>3. CASE Tick \/ (\E p \in Peer : List(p)) \/ UNCHANGED outboundVars
  BY <1>3, OtherInv, Zenon
<1>4. ASSUME NEW p \in Peer,
             \/ WorkerStep(p) \/ WakeSpuriously(p)
             \/ \E delay \in {0, Reconnect} : Complete(p, delay)
             \/ \E malicious \in BOOLEAN : worker[p].phase = "gossip" /\ FailPeer(p, malicious)
      PROVE  OutboundInv'
  BY <1>4, AcquireInv, WaitInv, WakeInv, DialInv, ReleaseInv, EndInv, Zenon DEF WorkerStep
<1> QED
  BY <1>1, <1>2, <1>3, <1>4, Zenon DEF OutboundNext

(* The counters are right in every reachable state. *)
LEMMA OutboundInvariance ==
  OutboundSpec => []OutboundInv
<1> QED
  BY OutboundInitially, OutboundStep, PTL DEF OutboundSpec

-----------------------------------------------------------------------------
(* What makes BackoffRemembered inductive: a report on its way carries the  *)
(* failures of the peer's last worker.                                      *)
BackoffInv ==
  /\ DOMAIN last = Peer
  /\ \A i \in DOMAIN events : events[i].done => events[i].failures = last[events[i].peer]
  /\ BackoffRemembered

(* A configured peer is a peer and, as a candidate, never forgotten. *)
LEMMA ConfiguredKept ==
  ASSUME NEW p \in Range(Configured)
  PROVE  p \in Peer /\ FailuresIn(Retained(retry), p) = FailuresIn(retry, p)
<1>1. PICK i \in 1 .. Len(Configured) : Configured[i] = p
  BY OutboundAssumption DEF Range
<1>2. i \in Candidates /\ Order[i] = p
  BY <1>1, OutboundAssumption DEF Candidates, Order
<1>3. p \in Peer
  BY <1>1, OutboundAssumption
<1> QED
  BY <1>2, <1>3, Zenon DEF FailuresIn, Retained

(* A step of workers that tells the supervisor nothing and resets no count  *)
(* of a worker yet to dial.                                                 *)
LEMMA BackoffKept ==
  ASSUME BackoffInv, active' = active, retry' = retry, last' = last,
         events' = events, \A q \in Peer : worker'[q].phase \in Early =>
           worker[q].phase \in Early /\ worker'[q].failures = worker[q].failures
  PROVE  BackoffInv'
<1>1. \A q \in Undialed' : q \in Undialed /\ worker'[q].failures = worker[q].failures
  BY Zenon DEF Undialed, In, Early
<1> QED
  BY <1>1, Zenon DEF BackoffInv, BackoffRemembered

(* The supervisor takes a report: the count it enters is the last one. *)
LEMMA DrainBackoff ==
  ASSUME OutboundInv, BackoffInv, Drain
  PROVE  BackoffInv'
<1>1. /\ events \in Seq(Event) /\ events # <<>> /\ events' = Tail(events)
      /\ UNCHANGED <<worker, last>>
  BY Zenon DEF OutboundInv, OutboundTyped, Drain
<1>2. /\ 1 \in DOMAIN events /\ Head(events) = events[1]
      /\ \A i \in DOMAIN events' : i + 1 \in DOMAIN events /\ events'[i] = events[i + 1]
  BY <1>1
<1>3. \A i \in DOMAIN events' : events'[i].done => events'[i].failures = last'[events'[i].peer]
  BY <1>1, <1>2 DEF BackoffInv
<1>4. Undialed' = Undialed
  BY <1>1, Zenon DEF Undialed, In
<1>5. \A p \in Range(Configured) : p \notin active' => FailuresIn(retry', p) = last[p]
  <2>1. CASE ~ Head(events).done
    BY <2>1, Zenon DEF Drain, BackoffInv, BackoffRemembered
  <2>2. CASE Head(events).done
    <3>1. /\ active' = active \ {Head(events).peer}
          /\ retry' = WithRetry(Head(events).peer, Head(events).failures, Head(events).delay)
      BY <2>2, Zenon DEF Drain
    <3>2. Head(events).failures = last[Head(events).peer]
      BY <1>2, <2>2, Zenon DEF BackoffInv
    <3> QED
      BY <3>1, <3>2, Zenon DEF FailuresIn, WithRetry, BackoffInv, BackoffRemembered
  <2> QED
    BY <2>1, <2>2, Zenon
<1> QED
  BY <1>1, <1>3, <1>4, <1>5, Zenon DEF BackoffInv, BackoffRemembered

(* A new worker starts with the count of its peer's entry. *)
LEMMA SelectBackoff ==
  ASSUME OutboundInv, BackoffInv, Select
  PROVE  BackoffInv'
<1>1. /\ events' = events /\ last' = last /\ retry' = Retained(retry)
      /\ active' = active \cup Selected
  BY Zenon DEF Select
<1>2. Selected \subseteq Peer \ active
  BY Selection, Zenon DEF OutboundInv
<1>3. ASSUME NEW p \in Range(Configured), p \in Undialed'
      PROVE  worker'[p].failures = last[p]
  <2>1. p \in Peer /\ FailuresIn(Retained(retry), p) = FailuresIn(retry, p)
    BY ConfiguredKept, Zenon
  <2>2. CASE p \in Selected
    BY <1>2, <2>1, <2>2, Zenon DEF Select, BackoffInv, BackoffRemembered
  <2>3. CASE p \notin Selected
    <3>1. worker'[p] = worker[p]
      BY <2>1, <2>3, Zenon DEF Select
    <3>2. p \in Undialed
      BY <1>3, <2>1, <3>1, Zenon DEF Undialed, In
    <3> QED
      BY <3>1, <3>2, Zenon DEF BackoffInv, BackoffRemembered
  <2> QED
    BY <2>2, <2>3, Zenon
<1>4. \A p \in Range(Configured) : p \notin active' => FailuresIn(retry', p) = last[p]
  BY <1>1, ConfiguredKept, Zenon DEF BackoffInv, BackoffRemembered
<1> QED
  BY <1>1, <1>3, <1>4, Zenon DEF BackoffInv, BackoffRemembered

(* A worker ends: its report is the only one of its end, and its peer stays *)
(* active until the report is taken.                                        *)
LEMMA ReportBackoff ==
  ASSUME OutboundInv, BackoffInv, NEW p \in Peer, NEW failures, NEW delay,
         worker[p].phase \in {"failed", "gossip"}, Report(p, failures, delay)
  PROVE  BackoffInv'
<1>1. /\ events \in Seq(Event) /\ worker \in [Peer -> Worker]
      /\ p \in active /\ ~ Sent(p, TRUE)
  BY Zenon DEF OutboundInv, OutboundTyped, Worker, WorkersBounded
<1>2. /\ active' = active /\ retry' = retry /\ DOMAIN last' = Peer
      /\ last'[p] = failures /\ \A q \in Peer \ {p} : last'[q] = last[q]
      /\ worker'[p] = Idle /\ \A q \in Peer \ {p} : worker'[q] = worker[q]
  BY <1>1, Zenon DEF Report, BackoffInv
<1>3. /\ events' = Append(events, Ended(p, failures, delay))
      /\ \A i \in DOMAIN events' : \/ i \in DOMAIN events /\ events'[i] = events[i]
                                   \/ events'[i] = Ended(p, failures, delay)
  BY <1>1 DEF Report
<1>4. \A i \in DOMAIN events' : events'[i].done => events'[i].failures = last'[events'[i].peer]
  <2> SUFFICES ASSUME NEW i \in DOMAIN events', events'[i].done
               PROVE  events'[i].failures = last'[events'[i].peer]
    BY Zenon
  <2>1. CASE i \in DOMAIN events /\ events'[i] = events[i]
    <3>1. events[i].peer \in Peer /\ events[i].done = TRUE
      <4>1. events[i] \in Event
        BY <1>1, <2>1
      <4>2. events[i].peer \in Peer /\ events[i].done \in BOOLEAN
        BY <4>1, Zenon DEF Event
      <4> QED
        BY <2>1, <4>2, Zenon
    <3>2. events[i].peer # p
      BY <1>1, <2>1, <3>1, Zenon DEF Sent
    <3> QED
      BY <1>2, <2>1, <3>1, <3>2 DEF BackoffInv
  <2>2. CASE events'[i] = Ended(p, failures, delay)
    BY <1>2, <2>2 DEF Ended
  <2> QED
    BY <1>3, <2>1, <2>2, Zenon
<1>5. \A q \in Undialed' : q \in Undialed /\ q # p /\ worker'[q] = worker[q]
  <2>1. \A q \in Undialed' : q \in Peer /\ worker'[q].phase \in {"gate", "waiting", "dial"}
    BY Zenon DEF Undialed, In
  <2>2. worker'[p].phase = "none"
    BY <1>2 DEF Idle
  <2> QED
    BY <1>2, <2>1, <2>2, Zenon DEF Undialed, In
<1>6. \A q \in Range(Configured) : q \in Peer
  BY ConfiguredKept, Zenon
<1>7. BackoffRemembered'
  BY <1>1, <1>2, <1>5, <1>6, Zenon DEF BackoffInv, BackoffRemembered
<1> QED
  BY <1>2, <1>4, <1>7, Zenon DEF BackoffInv

(* Every step keeps the counts. *)
LEMMA NextBackoff ==
  OutboundInv /\ BackoffInv /\ [OutboundNext]_outboundVars => BackoffInv'
<1> SUFFICES ASSUME OutboundInv, BackoffInv, [OutboundNext]_outboundVars PROVE BackoffInv'
  BY Zenon
<1>1. worker \in [Peer -> Worker]
  BY Zenon DEF OutboundInv, OutboundTyped, Worker
<1>2. CASE Drain
  BY <1>2, DrainBackoff, Zenon
<1>3. CASE Select
  BY <1>3, SelectBackoff, Zenon
<1>4. CASE Tick
  <2>1. UNCHANGED <<active, events, worker, last>>
    BY <1>4, Zenon DEF Tick
  <2>2. \A p \in DOMAIN retry : retry[p] \in [failures : Nat, wait : Int]
    BY Zenon DEF OutboundInv, OutboundTyped
  <2>3. \A p : FailuresIn(retry', p) = FailuresIn(retry, p)
    BY <1>4, <2>2, Zenon DEF Tick, FailuresIn
  <2>4. Undialed' = Undialed
    BY <2>1, Zenon DEF Undialed, In
  <2> QED
    BY <2>1, <2>3, <2>4, Zenon DEF BackoffInv, BackoffRemembered
<1>5. ASSUME NEW p \in Peer, Acquire(p) \/ AwaitPermit(p) \/ WakeSpuriously(p)
      PROVE  BackoffInv'
  BY <1>1, <1>5, BackoffKept DEF Acquire, AwaitPermit, WakeSpuriously, Worker, Early
<1>6. ASSUME NEW p \in Peer, NEW next, Release(p, next)
      PROVE  BackoffInv'
  <2> DEFINE w == [worker EXCEPT ![p].phase = next,
                                 ![p].failures = IF next = "gossip" THEN 0 ELSE @]
  <2>1. /\ next \in {"gossip", "failed"} /\ w[p].phase = next
        /\ DOMAIN w = Peer /\ \A q \in Peer \ {p} : w[q] = worker[q]
    BY <1>1, <1>6, Zenon DEF Release, Worker
  <2>2. \/ worker' = w
        \/ \E q \in Peer : w[q].phase = "waiting" /\ worker' = [w EXCEPT ![q].phase = "gate"]
    BY <1>6, Zenon DEF Release, NotifyOne
  <2>3. UNCHANGED <<active, retry, events, last>>
    BY <1>6, Zenon DEF Release
  <2> HIDE DEF w
  <2>4. ASSUME NEW q \in Peer, worker'[q].phase \in Early
        PROVE  worker[q].phase \in Early /\ worker'[q].failures = worker[q].failures
    <3>1. w[q].phase \in Early /\ worker'[q].failures = w[q].failures
      BY <1>1, <2>1, <2>2, <2>4, SMTT(30) DEF Early, Worker
    <3>2. q # p
      BY <2>1, <3>1, Zenon DEF Early
    <3> QED
      BY <2>1, <3>1, <3>2, Zenon
  <2> QED
    BY <2>3, <2>4, BackoffKept, Zenon
<1>7. ASSUME NEW p \in Peer, NEW ok \in BOOLEAN, Dial(p, ok)
      PROVE  BackoffInv'
  <2>1. /\ active' = active /\ retry' = retry /\ last' = last
        /\ events' = Append(events, Dialed(p)) /\ events \in Seq(Event)
    BY <1>7, Zenon DEF Dial, OutboundInv, OutboundTyped
  <2>2. \A q \in Undialed' : q \in Undialed /\ worker'[q].failures = worker[q].failures
    BY <1>1, <1>7, Zenon DEF Dial, Undialed, In, Worker
  <2>3. \A i \in DOMAIN events' : events'[i].done => i \in DOMAIN events /\ events'[i] = events[i]
    BY <2>1 DEF Dialed
  <2> QED
    BY <2>1, <2>2, <2>3 DEF BackoffInv, BackoffRemembered
<1>8. ASSUME NEW p \in Peer,
             \/ \E delay \in {0, Reconnect} : Complete(p, delay)
             \/ \E malicious \in BOOLEAN : FailPeer(p, malicious)
      PROVE  BackoffInv'
  <2>1. CASE \E delay \in {0, Reconnect} : Complete(p, delay)
    BY <2>1, ReportBackoff DEF Complete
  <2>2. CASE \E malicious \in BOOLEAN : FailPeer(p, malicious)
    <3>1. /\ worker[p].phase \in {"failed", "gossip"}
          /\ \E failures, delay : Report(p, failures, delay)
      BY <2>2, Zenon DEF FailPeer
    <3> QED
      BY <3>1, ReportBackoff
  <2> QED
    BY <1>8, <2>1, <2>2, Zenon
<1>9. CASE (\E p \in Peer : List(p)) \/ UNCHANGED outboundVars
  BY <1>9, BackoffKept, Zenon DEF List, outboundVars
<1> QED
  BY <1>2, <1>3, <1>4, <1>5, <1>6, <1>7, <1>8, <1>9, ZenonT(40) DEF OutboundNext, WorkerStep

-----------------------------------------------------------------------------
(* dialing -= 1 never underflows and no dial slot leaks: the supervisor's   *)
(* counter is the workers yet to dial plus the reports yet to be handled.   *)
THEOREM DialsCounted ==
  OutboundSpec => []DialingExact
<1>1. OutboundInv => DialingExact
  BY Zenon DEF OutboundInv
<1> QED
  BY <1>1, OutboundInvariance, PTL

(* No peer ever has two workers, and start_peer_supervisor keeps to         *)
(* MAX_OUTBOUND_CONNECTIONS and MAX_CONCURRENT_DIALS, for any limits.       *)
THEOREM OneWorkerPerPeer ==
  OutboundSpec => []WorkersBounded
<1>1. OutboundInv => WorkersBounded
  BY Zenon DEF OutboundInv
<1> QED
  BY <1>1, OutboundInvariance, PTL

(* SyncGate.active is the number of permits held, whatever fails.           *)
THEOREM GateCounts ==
  OutboundSpec => []PermitsExact
<1>1. OutboundInv => PermitsExact
  BY Zenon DEF OutboundInv
<1> QED
  BY <1>1, OutboundInvariance, PTL

(* notify_one on the drop of each permit is enough: no worker sleeps while  *)
(* a permit is free and nobody is on the way to take it.                    *)
THEOREM GateWakes ==
  OutboundSpec => []NoLostWakeup
<1>1. OutboundInv => NoLostWakeup
  BY Zenon DEF OutboundInv
<1> QED
  BY <1>1, OutboundInvariance, PTL

(* A configured peer's backoff grows with each failure and is reset by each *)
(* success, however many rounds of the supervisor, selections and drained   *)
(* reports lie between: retain never drops its entry.                       *)
THEOREM BackoffIsKept ==
  OutboundSpec => []BackoffRemembered
<1>1. OutboundInit => BackoffInv
  <2> SUFFICES ASSUME OutboundInit PROVE BackoffInv
    BY Zenon
  <2>1. DOMAIN last = Peer /\ events = <<>>
    BY Zenon DEF OutboundInit
  <2>2. \A p \in Range(Configured) : FailuresIn(retry, p) = last[p]
    BY ConfiguredKept DEF OutboundInit, FailuresIn
  <2>3. Undialed = {}
    BY Zenon DEF OutboundInit, Undialed, In, Idle
  <2> QED
    BY <2>1, <2>2, <2>3 DEF BackoffInv, BackoffRemembered
<1>2. BackoffInv => BackoffRemembered
  BY Zenon DEF BackoffInv
<1> QED
  BY <1>1, <1>2, NextBackoff, OutboundInvariance, PTL DEF OutboundSpec
-----------------------------------------------------------------------------
(* The operations of a chain. *)
OpsOf(c) == UNION {Range(Content[c[k]]) : k \in DOMAIN c}

(* The indexes have everything of a chain, each at its place. *)
Describes(d) ==
  /\ \A key \in DOMAIN Entries(d) :
       key \in DOMAIN index.entries /\ index.entries[key] = Entries(d)[key]
  /\ \A op \in DOMAIN Coins(d) :
       op \in DOMAIN index.coins /\ index.coins[op] = Coins(d)[op]

(* Indexes that were never built have only what was appended since; the     *)
(* others have all of the chain they name, and besides it at most blocks    *)
(* that were appended to the stored chain later.                            *)
IndexOK ==
  \/ index.tip = <<>> /\ DOMAIN index.coins \subseteq OpsOf(stored)
  \/ \E d \in Chain :
       /\ index.tip = Tip(d) /\ Describes(d)
       /\ DOMAIN index.coins \subseteq OpsOf(d) \cup OpsOf(stored)

(* What a reader may rely on that nobody disturbed since its check.         *)
ReaderOK(q) ==
  /\ q.pc # "idle" => q.ledger \in Chain
  /\ q.undisturbed /\ ~ mixed =>
       /\ q.pc = "lookup" => index.tip = Tip(q.ledger)
       /\ q.pc = "fetch" =>
            /\ ~ q.coin
            /\ q.want \in DOMAIN Entries(q.ledger) => q.found = Entries(q.ledger)[q.want]

(* The type of a reader. *)
ReaderState ==
  [pc : {"idle", "check", "lookup", "rebuild", "fetch", "answered"},
   ledger : Chain \cup {<<>>}, want : Wanted \cup {None}, coin : BOOLEAN,
   found : Seq(Nat), undisturbed : BOOLEAN]

(* The types of the tables. *)
IndexShape ==
  /\ index = [tip |-> index.tip, origins |-> index.origins, programs |-> index.programs,
              entries |-> index.entries, coins |-> index.coins, activities |-> index.activities]
  /\ \A key \in DOMAIN index.entries : index.entries[key] \in Seq(Nat)
  /\ \A op \in DOMAIN index.coins : index.coins[op] \in Nat

(* The inductive invariant: unless an append took the tables of another     *)
(* branch to be complete, they describe one chain.                          *)
IndexInv ==
  /\ stored \in Chain /\ cache \in Chain /\ mixed \in BOOLEAN
  /\ IndexShape
  /\ reader \in [Reader -> ReaderState]
  /\ \A r \in Reader : ReaderOK(reader[r])
  /\ mixed \/ IndexOK
  /\ WrongOnlyByRace

-----------------------------------------------------------------------------
(* A step that changes at most the published ledger keeps the invariant: it *)
(* speaks of that ledger only as a chain.                                   *)
LEMMA TablesUntouched ==
  ASSUME IndexInv, cache' \in Chain, stored' = stored, index' = index, reader' = reader,
         mixed' = mixed
  PROVE  IndexInv'
<1>1. stored' \in Chain /\ mixed' \in BOOLEAN /\ reader' \in [Reader -> ReaderState]
  BY Zenon DEF IndexInv
<1>2. IndexShape'
  BY Zenon DEF IndexInv, IndexShape
<1>3. \A r \in Reader : ReaderOK(reader[r])'
  <2>1. \A r \in Reader : ReaderOK(reader[r])
    BY Zenon DEF IndexInv
  <2>2. ASSUME NEW r \in Reader PROVE ReaderOK(reader[r])'
    <3>1. ReaderOK(reader[r])
      BY <2>1, <2>2, Zenon
    <3>2. QED
      BY <3>1 DEF ReaderOK
  <2>3. QED
    BY <2>2, Zenon
<1>4. mixed' \/ IndexOK'
  <2>1. SUFFICES ASSUME IndexOK PROVE IndexOK'
    BY Zenon DEF IndexInv
  <2>2. CASE index.tip = <<>> /\ DOMAIN index.coins \subseteq OpsOf(stored)
    BY <2>2, Zenon DEF IndexOK, OpsOf
  <2>3. ASSUME NEW d \in Chain, index.tip = Tip(d), Describes(d),
               DOMAIN index.coins \subseteq OpsOf(d) \cup OpsOf(stored)
        PROVE  IndexOK'
    <3>1. Describes(d)'
      BY <2>3, Zenon DEF Describes
    <3>2. index'.tip = Tip(d) /\ DOMAIN index'.coins \subseteq OpsOf(d) \cup OpsOf(stored)'
      BY <2>3, Zenon DEF OpsOf
    <3>3. QED
      BY <3>1, <3>2, Zenon DEF IndexOK
  <2>4. QED
    BY <2>1, <2>2, <2>3, Zenon DEF IndexOK
<1>5. WrongOnlyByRace'
  BY Zenon DEF IndexInv, WrongOnlyByRace
<1>6. QED
  BY <1>1, <1>2, <1>3, <1>4, <1>5, Zenon DEF IndexInv

(* A chain is a nonempty sequence of blocks. *)
LEMMA ChainShape ==
  ASSUME NEW c \in Chain
  PROVE  /\ c \in Seq(IndexedBlock) /\ Len(c) \in Nat \ {0} /\ DOMAIN c = 1 .. Len(c)
         /\ \A k \in DOMAIN c : c[k] \in IndexedBlock /\ Content[c[k]] \in Seq(Operation)
<1>1. c \in Seq(IndexedBlock) /\ c # <<>> /\ Content \in [IndexedBlock -> Seq(Operation)]
  BY IndexesAssumption, Zenon
<1>2. QED
  BY <1>1

(* The operations of a block of a chain are no blocks. *)
LEMMA ContentIsOperations ==
  ASSUME NEW c \in Chain, NEW k \in DOMAIN c
  PROVE  \A op \in Range(Content[c[k]]) : op \in Operation /\ op \notin IndexedBlock
<1>1. Content[c[k]] \in Seq(Operation)
  BY ChainShape, Zenon
<1>2. QED
  BY <1>1, IndexesAssumption DEF Range

(* A chain that ends in a block of another is the part of it up to there. *)
LEMMA EndsIn ==
  ASSUME NEW c \in Chain, NEW d \in Chain, NEW k \in DOMAIN c, Last(d) = c[k]
  PROVE  d = SubSeq(c, 1, k) /\ Len(d) = k
<1>1. c \in Seq(IndexedBlock) /\ k \in 1 .. Len(c)
  BY ChainShape, Zenon
<1>2. SubSeq(c, 1, k) \in Chain
  BY <1>1, IndexesAssumption, Zenon
<1>3. Len(SubSeq(c, 1, k)) = k /\ SubSeq(c, 1, k)[k] = c[k]
  BY <1>1
<1>4. Last(SubSeq(c, 1, k)) = Last(d)
  BY <1>3, Zenon DEF Last
<1>5. QED
  BY <1>2, <1>3, <1>4, IndexesAssumption, Zenon

(* A block is in a chain once, and so is an operation. *)
LEMMA KeyOnce ==
  ASSUME NEW c \in Chain, NEW i \in DOMAIN c, NEW k \in DOMAIN c, NEW key,
         key \in KeysOf(c[i]), key \in KeysOf(c[k])
  PROVE  i = k
<1>1. c \in Seq(IndexedBlock) /\ i \in 1 .. Len(c) /\ k \in 1 .. Len(c) /\ c[i] \in IndexedBlock /\ c[k] \in IndexedBlock
  BY ChainShape, Zenon
<1>2. CASE key \in IndexedBlock
  <2>1. key = c[i] /\ key = c[k]
    BY <1>2, ContentIsOperations, Zenon DEF KeysOf
  <2>2. PICK d \in Chain : d = SubSeq(c, 1, i)
    BY <1>1, IndexesAssumption, Zenon
  <2>3. Len(SubSeq(c, 1, i)) = i /\ SubSeq(c, 1, i)[i] = c[i]
    BY <1>1
  <2>4. Last(d) = c[k] /\ Len(d) = i
    BY <2>1, <2>2, <2>3, Zenon DEF Last
  <2>5. QED
    BY <2>4, EndsIn, Zenon
<1>3. CASE key \notin IndexedBlock
  <2>1. key \in Range(Content[c[i]]) /\ key \in Range(Content[c[k]])
    BY <1>1, <1>3, Zenon DEF KeysOf
  <2>2. QED
    BY <2>1, IndexesAssumption, Zenon
<1>4. QED
  BY <1>2, <1>3, Zenon

(* Where the indexes of a chain have what is in its k-th block. *)
LEMMA EntryAt ==
  ASSUME NEW c \in Chain, NEW k \in DOMAIN c
  PROVE  /\ \A key \in KeysOf(c[k]) : key \in DOMAIN Entries(c)
                                   /\ Entries(c)[key] = <<k - 1, PlaceIn(c[k], key)>>
         /\ \A op \in Range(Content[c[k]]) : op \in DOMAIN Coins(c) /\ Coins(c)[op] = k - 1
<1>1. ASSUME NEW key \in KeysOf(c[k])
      PROVE  At(c, key) = k
  BY <1>1, KeyOnce, Zenon DEF At
<1>2. ASSUME NEW key \in KeysOf(c[k])
      PROVE  key \in DOMAIN Entries(c) /\ Entries(c)[key] = <<k - 1, PlaceIn(c[k], key)>>
  BY <1>1, <1>2, Zenon DEF Entries, BlockEntries
<1>3. ASSUME NEW op \in Range(Content[c[k]])
      PROVE  op \in DOMAIN Coins(c) /\ Coins(c)[op] = k - 1
  <2>1. op \in KeysOf(c[k])
    BY <1>3, Zenon DEF KeysOf
  <2>2. QED
    BY <1>1, <1>3, <2>1, Zenon DEF Coins, BlockCoins
<1>4. QED
  BY <1>2, <1>3, Zenon

(* The keys of the indexes of a chain. *)
LEMMA KeysOfChain ==
  ASSUME NEW c \in Chain
  PROVE  /\ \A key : key \in DOMAIN Entries(c) <=> \E k \in DOMAIN c : key \in KeysOf(c[k])
         /\ \A op : op \in OpsOf(c) <=> \E k \in DOMAIN c : op \in Range(Content[c[k]])
         /\ DOMAIN Coins(c) = OpsOf(c)
         /\ OpsOf(c) \subseteq DOMAIN Entries(c)
<1>1. DOMAIN Entries(c) = UNION {KeysOf(c[k]) : k \in DOMAIN c}
  BY Zenon DEF Entries
<1>2. DOMAIN Coins(c) = OpsOf(c)
  BY Zenon DEF Coins, OpsOf
<1>3. \A op : op \in OpsOf(c) <=> \E k \in DOMAIN c : op \in Range(Content[c[k]])
  BY Zenon DEF OpsOf
<1>4. \A key : key \in DOMAIN Entries(c) <=> \E k \in DOMAIN c : key \in KeysOf(c[k])
  BY <1>1, Zenon
<1>5. OpsOf(c) \subseteq DOMAIN Entries(c)
  BY <1>3, <1>4, Zenon DEF KeysOf
<1>6. QED
  BY <1>2, <1>3, <1>4, <1>5, Zenon

(* A place in a block is a number. *)
LEMMA PlaceIsNumber ==
  ASSUME NEW c \in Chain, NEW k \in DOMAIN c, NEW key \in KeysOf(c[k])
  PROVE  PlaceIn(c[k], key) \in Nat
<1>1. Content[c[k]] \in Seq(Operation)
  BY ChainShape, Zenon
<1>2. QED
  BY <1>1 DEF PlaceIn, KeysOf, Range

-----------------------------------------------------------------------------
(* The indexes of a chain hold places and heights. *)
LEMMA EntriesArePlaces ==
  ASSUME NEW c \in Chain
  PROVE  /\ \A key \in DOMAIN Entries(c) : Entries(c)[key] \in Seq(Nat)
         /\ \A op \in DOMAIN Coins(c) : Coins(c)[op] \in Nat
<1>1. \A key \in DOMAIN Entries(c) : Entries(c)[key] \in Seq(Nat)
  <2> SUFFICES ASSUME NEW key \in DOMAIN Entries(c) PROVE Entries(c)[key] \in Seq(Nat)
    BY Zenon
  <2>1. PICK k \in DOMAIN c : key \in KeysOf(c[k])
    BY KeysOfChain, Zenon
  <2>2. k - 1 \in Nat /\ PlaceIn(c[k], key) \in Nat
    BY <2>1, ChainShape, PlaceIsNumber
  <2>3. Entries(c)[key] = <<k - 1, PlaceIn(c[k], key)>>
    BY <2>1, EntryAt, Zenon
  <2>4. \A m, n \in Nat : <<m, n>> \in Seq(Nat)
    OBVIOUS
  <2>5. QED
    BY <2>2, <2>3, <2>4, Zenon
<1>2. \A op \in DOMAIN Coins(c) : Coins(c)[op] \in Nat
  <2> SUFFICES ASSUME NEW op \in DOMAIN Coins(c) PROVE Coins(c)[op] \in Nat
    BY Zenon
  <2>1. PICK k \in DOMAIN c : op \in Range(Content[c[k]])
    BY KeysOfChain, Zenon DEF OpsOf
  <2>2. QED
    BY <2>1, EntryAt, ChainShape
<1>3. QED
  BY <1>1, <1>2, Zenon

(* Every chain is described by the indexes rebuilt from it. *)
LEMMA RebuiltDescribes ==
  ASSUME NEW c \in Chain, index' = Rebuilt(c)
  PROVE  /\ index'.tip = Tip(c) /\ Describes(c)'
         /\ DOMAIN index'.coins = OpsOf(c) /\ IndexShape'
<1>1. /\ index'.tip = Tip(c) /\ index'.entries = Entries(c) /\ index'.coins = Coins(c)
      /\ index' = [tip |-> index'.tip, origins |-> index'.origins, programs |-> index'.programs,
                   entries |-> index'.entries, coins |-> index'.coins, activities |-> index'.activities]
  BY Zenon DEF Rebuilt
<1>2. QED
  BY <1>1, EntriesArePlaces, KeysOfChain, Zenon DEF Describes, IndexShape

(* Readers that someone else's write disturbs have nothing to rely on. *)
LEMMA Disturbed ==
  ASSUME IndexInv, NEW others \in SUBSET Reader,
         NEW now \in [Reader -> ReaderState], \A r \in others : now[r] = Disturb(others)[r]
  PROVE  \A r \in others : /\ reader[r].pc = "idle" => now[r] = reader[r]
                           /\ reader[r].pc # "idle" => now[r].pc # "idle" /\ ~ now[r].undisturbed
                           /\ now[r].ledger = reader[r].ledger /\ now[r].pc = reader[r].pc
BY Zenon DEF Disturb, IndexInv, ReaderState

(* A disturbed reader has its type. *)
LEMMA DisturbType ==
  ASSUME IndexInv, NEW others
  PROVE  Disturb(others) \in [Reader -> ReaderState]
BY ZenonT(40) DEF Disturb, IndexInv, ReaderState

(* What is true of all readers when everyone but one has been disturbed. *)
LEMMA ReadersAfterWrite ==
  ASSUME IndexInv, NEW others \in SUBSET Reader, reader' \in [Reader -> ReaderState],
         \A r \in others : reader'[r] = Disturb(others)[r],
         \A r \in Reader \ others : reader'[r].pc = "lookup" /\ reader'[r].ledger \in Chain
                                    /\ index'.tip = Tip(reader'[r].ledger)
  PROVE  (\A r \in Reader : ReaderOK(reader[r]))' /\ WrongOnlyByRace'
<1>1. \A r \in others : /\ reader[r].pc = "idle" => reader'[r] = reader[r]
                        /\ reader[r].pc # "idle" => reader'[r].pc # "idle" /\ ~ reader'[r].undisturbed
                        /\ reader'[r].ledger = reader[r].ledger /\ reader'[r].pc = reader[r].pc
  BY Disturbed, Zenon
<1>2. ASSUME NEW r \in Reader
      PROVE  ReaderOK(reader[r])'
  <2>1. CASE r \in others
    BY <1>1, <2>1, Zenon DEF IndexInv, ReaderOK
  <2>2. CASE r \notin others
    BY <2>2, Zenon DEF ReaderOK
  <2>3. QED
    BY <2>1, <2>2, Zenon
<1>3. \A r \in Reader : ~ (reader'[r].pc = "answered" /\ reader'[r].undisturbed)
  BY <1>1, Zenon
<1>4. QED
  BY <1>2, <1>3, Zenon DEF WrongOnlyByRace

-----------------------------------------------------------------------------
(* A chain extended by one block. *)
LEMMA ExtensionShape ==
  ASSUME NEW c \in Chain, NEW d \in Extensions(c)
  PROVE  /\ d \in Chain /\ Len(d) = Len(c) + 1 /\ Len(d) \in DOMAIN d /\ Last(d) = d[Len(d)]
         /\ Len(c) \in Nat \ {0}
         /\ \A k \in DOMAIN c : k \in DOMAIN d /\ d[k] = c[k]
         /\ \A k \in DOMAIN d : k # Len(d) => k \in DOMAIN c
         /\ OpsOf(d) = OpsOf(c) \cup Range(Content[Last(d)])
         /\ OpsOf(c) \cap Range(Content[Last(d)]) = {}
<1>1. d \in Chain /\ Len(d) = Len(c) + 1 /\ SubSeq(d, 1, Len(d) - 1) = c
  BY Zenon DEF Extensions, Front
<1>2. /\ d \in Seq(IndexedBlock) /\ Len(c) \in Nat \ {0} /\ Len(d) \in Nat
      /\ DOMAIN d = 1 .. Len(d) /\ DOMAIN c = 1 .. Len(c)
  BY <1>1, ChainShape, Zenon
<1>3. \A k \in 1 .. Len(d) - 1 : SubSeq(d, 1, Len(d) - 1)[k] = d[k]
  BY <1>1, <1>2, SMTT(30)
<1>4. /\ \A k \in DOMAIN c : k \in DOMAIN d /\ d[k] = c[k]
      /\ \A k \in DOMAIN d : k # Len(d) => k \in DOMAIN c
      /\ Len(d) \in DOMAIN d
  BY <1>1, <1>2, <1>3, SMTT(30)
<1>5. OpsOf(d) = OpsOf(c) \cup Range(Content[d[Len(d)]])
  <2>1. ASSUME NEW op \in OpsOf(d) PROVE op \in OpsOf(c) \/ op \in Range(Content[d[Len(d)]])
    <3>1. PICK k \in DOMAIN d : op \in Range(Content[d[k]])
      BY <1>1, <2>1, KeysOfChain, Zenon
    <3>2. QED
      BY <1>4, <3>1, KeysOfChain, Zenon
  <2>2. ASSUME NEW op \in OpsOf(c) PROVE op \in OpsOf(d)
    <3>1. PICK k \in DOMAIN c : op \in Range(Content[c[k]])
      BY <2>2, KeysOfChain, Zenon
    <3>2. k \in DOMAIN d /\ op \in Range(Content[d[k]])
      BY <1>4, <3>1, Zenon
    <3>3. QED
      BY <1>1, <3>2, KeysOfChain, Zenon
  <2>3. ASSUME NEW op \in Range(Content[d[Len(d)]]) PROVE op \in OpsOf(d)
    BY <1>1, <1>4, <2>3, KeysOfChain, Zenon
  <2>4. QED
    BY <2>1, <2>2, <2>3, Zenon
<1>6. OpsOf(c) \cap Range(Content[d[Len(d)]]) = {}
  <2>1. \A k \in DOMAIN c : k # Len(d)
    BY <1>1, <1>2
  <2>2. \A k \in DOMAIN c : Range(Content[d[k]]) \cap Range(Content[d[Len(d)]]) = {}
    BY <1>1, <1>4, <2>1, IndexesAssumption, Zenon
  <2>3. QED
    BY <1>4, <2>2, KeysOfChain, Zenon
<1>7. QED
  BY <1>1, <1>2, <1>4, <1>5, <1>6, Zenon DEF Last

(* The indexes stand in the way of no block of their own branch. *)
LEMMA NotRefused ==
  ASSUME IndexInv
  PROVE  RefusedOnlyByOtherBranch
<1> SUFFICES ASSUME NEW c \in Extensions(stored), ~ mixed,
                    index.tip = <<>> \/ index.tip[2] \in Range(stored)
             PROVE  Appendable(c)
  BY Zenon DEF RefusedOnlyByOtherBranch
<1>1. stored \in Chain /\ IndexOK
  BY Zenon DEF IndexInv
<1>2. OpsOf(stored) \cap Range(Content[Last(c)]) = {}
  BY <1>1, ExtensionShape, Zenon
<1>3. DOMAIN index.coins \subseteq OpsOf(stored)
  <2>1. CASE index.tip = <<>> /\ DOMAIN index.coins \subseteq OpsOf(stored)
    BY <2>1, Zenon
  <2>2. ASSUME NEW d \in Chain, index.tip = Tip(d),
               DOMAIN index.coins \subseteq OpsOf(d) \cup OpsOf(stored)
        PROVE  DOMAIN index.coins \subseteq OpsOf(stored)
    <3>1. index.tip # <<>> /\ index.tip[2] = Last(d)
      BY <2>2 DEF Tip
    <3>2. PICK k \in DOMAIN stored : stored[k] = Last(d)
      BY <3>1, Zenon DEF Range
    <3>3. d = SubSeq(stored, 1, k)
      BY <1>1, <3>2, EndsIn, Zenon
    <3>4. stored \in Seq(IndexedBlock) /\ k \in 1 .. Len(stored) /\ DOMAIN d = 1 .. Len(d) /\ DOMAIN stored = 1 .. Len(stored)
      BY <1>1, ChainShape, Zenon
    <3>5. \A i \in DOMAIN d : i \in DOMAIN stored /\ d[i] = stored[i]
      BY <3>3, <3>4
    <3>6. OpsOf(d) \subseteq OpsOf(stored)
      BY <1>1, <3>5, KeysOfChain, ZenonT(40)
    <3>7. QED
      BY <2>2, <3>6, Zenon
  <2>3. QED
    BY <1>1, <2>1, <2>2, Zenon DEF IndexOK
<1>4. QED
  BY <1>2, <1>3, Zenon DEF Appendable

-----------------------------------------------------------------------------
(* A block added to indexes that describe a chain leaves what they say of   *)
(* it.                                                                      *)
LEMMA StillDescribes ==
  ASSUME IndexInv, NEW c \in Chain, Appendable(c), NEW d \in Chain, Describes(d),
         index'.entries = Over(BlockEntries(Last(c), Len(c) - 1), index.entries),
         index'.coins = Over(BlockCoins(Last(c), Len(c) - 1), index.coins)
  PROVE  Describes(d)'
<1> DEFINE blk == Last(c)
<1>1. /\ Len(c) \in DOMAIN c /\ blk = c[Len(c)] /\ blk \in IndexedBlock /\ Len(c) \in Nat
  BY ChainShape DEF Last
<1>2. \A op \in Range(Content[blk]) : op \notin DOMAIN Coins(d)
  BY Zenon DEF Appendable, Describes
<1>3. /\ DOMAIN BlockEntries(blk, Len(c) - 1) = KeysOf(blk)
      /\ BlockEntries(blk, Len(c) - 1)[blk] = <<Len(c) - 1, 0>>
      /\ DOMAIN BlockCoins(blk, Len(c) - 1) = Range(Content[blk])
      /\ \A key \in KeysOf(blk) : key = blk \/ key \in Range(Content[blk])
  BY Zenon DEF BlockEntries, BlockCoins, KeysOf, PlaceIn
<1>4. ASSUME NEW key \in DOMAIN Entries(d), key \in KeysOf(blk)
      PROVE  key = blk /\ Entries(d)[key] = <<Len(c) - 1, 0>>
  <2>1. PICK k \in DOMAIN d : key \in KeysOf(d[k])
    BY <1>4, KeysOfChain, Zenon
  <2>2. key = blk
    <3>1. SUFFICES ASSUME key \in Range(Content[blk]) PROVE FALSE
      BY <1>3, <1>4, Zenon
    <3>2. key \notin IndexedBlock
      BY <1>1, <3>1, ContentIsOperations, Zenon
    <3>3. key \in Range(Content[d[k]])
      BY <2>1, <3>2, ChainShape, Zenon DEF KeysOf
    <3>4. QED
      BY <1>2, <3>1, <3>3, EntryAt, Zenon
  <2>3. key = d[k]
    BY <1>1, <2>1, <2>2, ContentIsOperations, Zenon DEF KeysOf
  <2>4. Len(c) = k
    BY <2>2, <2>3, EndsIn, Zenon
  <2>5. Entries(d)[key] = <<k - 1, PlaceIn(d[k], key)>>
    BY <2>1, EntryAt, Zenon
  <2>6. QED
    BY <2>2, <2>3, <2>4, <2>5, Zenon DEF PlaceIn
<1>5. ASSUME NEW key \in DOMAIN Entries(d)
      PROVE  key \in DOMAIN index'.entries /\ index'.entries[key] = Entries(d)[key]
  <2>1. key \in DOMAIN index.entries /\ index.entries[key] = Entries(d)[key]
    BY Zenon DEF Describes
  <2>2. CASE key \in KeysOf(blk)
    BY <1>3, <1>4, <2>2, Zenon DEF Over
  <2>3. CASE key \notin KeysOf(blk)
    BY <1>3, <2>1, <2>3, ZenonT(40) DEF Over
  <2>4. QED
    BY <2>2, <2>3, Zenon
<1>6. ASSUME NEW op \in DOMAIN Coins(d)
      PROVE  op \in DOMAIN index'.coins /\ index'.coins[op] = Coins(d)[op]
  BY <1>2, <1>3 DEF Describes, Over
<1>7. QED
  BY <1>5, <1>6, Zenon DEF Describes

(* A block added to indexes that describe its parent's chain makes them     *)
(* describe its own.                                                        *)
LEMMA DescribesExtension ==
  ASSUME IndexInv, NEW c \in Extensions(stored), Appendable(c), Describes(stored),
         index'.entries = Over(BlockEntries(Last(c), Len(c) - 1), index.entries),
         index'.coins = Over(BlockCoins(Last(c), Len(c) - 1), index.coins)
  PROVE  Describes(c)'
<1> DEFINE blk == Last(c)
           n == Len(c)
<1>1. PICK d \in Chain : d = stored
  BY Zenon DEF IndexInv
<1>2. /\ c \in Chain /\ n \in DOMAIN c /\ blk = c[n] /\ n \in Nat
      /\ \A k \in DOMAIN d : k \in DOMAIN c /\ c[k] = d[k]
      /\ \A k \in DOMAIN c : k # n => k \in DOMAIN d
  BY <1>1, ExtensionShape
<1>3. Describes(d)'
  BY <1>1, <1>2, StillDescribes, Zenon
<1>4. ASSUME NEW key \in DOMAIN Entries(c)
      PROVE  key \in DOMAIN index'.entries /\ index'.entries[key] = Entries(c)[key]
  <2>1. PICK k \in DOMAIN c : key \in KeysOf(c[k])
    BY <1>2, KeysOfChain, Zenon
  <2>2. Entries(c)[key] = <<k - 1, PlaceIn(c[k], key)>>
    BY <1>2, <2>1, EntryAt, Zenon
  <2>3. CASE k = n
    BY <1>2, <2>1, <2>2, <2>3, Zenon DEF Over, BlockEntries
  <2>4. CASE k # n
    <3>1. key \in DOMAIN Entries(d) /\ Entries(d)[key] = <<k - 1, PlaceIn(c[k], key)>>
      BY <1>1, <1>2, <2>1, <2>4, EntryAt, SMTT(30), SMTT(60)
    <3>2. QED
      BY <1>3, <2>2, <3>1, ZenonT(40) DEF Describes
  <2>5. QED
    BY <2>3, <2>4, Zenon
<1>5. ASSUME NEW op \in DOMAIN Coins(c)
      PROVE  op \in DOMAIN index'.coins /\ index'.coins[op] = Coins(c)[op]
  <2>1. PICK k \in DOMAIN c : op \in Range(Content[c[k]])
    BY <1>2, KeysOfChain, ZenonT(40)
  <2>2. Coins(c)[op] = k - 1
    BY <1>2, <2>1, EntryAt
  <2>3. CASE k = n
    BY <1>2, <2>1, <2>2, <2>3, Zenon DEF Over, BlockCoins
  <2>4. CASE k # n
    <3>1. op \in DOMAIN Coins(d) /\ Coins(d)[op] = k - 1
      BY <1>1, <1>2, <2>1, <2>4, EntryAt, SMTT(30), SMTT(60)
    <3>2. QED
      BY <1>3, <2>2, <3>1, ZenonT(40) DEF Describes
  <2>5. QED
    BY <2>3, <2>4, Zenon
<1>6. QED
  BY <1>4, <1>5, Zenon DEF Describes

(* An appended block. *)
LEMMA AppendKeeps ==
  ASSUME IndexInv, NEW c \in Chain, AppendBlock(c)
  PROVE  IndexInv'
<1> DEFINE complete == WereComplete(Len(c) - 1)
<1>1. /\ stored' = c /\ cache' = cache /\ c \in Extensions(stored) /\ Appendable(c)
      /\ index'.tip = (IF complete THEN Tip(c) ELSE index.tip)
      /\ index'.entries = Over(BlockEntries(Last(c), Len(c) - 1), index.entries)
      /\ index'.coins = Over(BlockCoins(Last(c), Len(c) - 1), index.coins)
      /\ index' = [tip |-> index'.tip, origins |-> index'.origins, programs |-> index'.programs,
                   entries |-> index'.entries, coins |-> index'.coins, activities |-> index'.activities]
      /\ mixed' = (mixed \/ (complete /\ index.tip # <<>> /\ index.tip[2] \notin Range(stored)))
      /\ reader' = Disturb(Reader)
  BY Zenon DEF AppendBlock, IndexInv, IndexShape
<1>2. PICK old \in Chain : old = stored
  BY Zenon DEF IndexInv
<1>3. /\ Len(c) = Len(old) + 1 /\ Len(old) \in Nat \ {0} /\ Len(c) \in DOMAIN c /\ Last(c) = c[Len(c)]
      /\ OpsOf(c) = OpsOf(old) \cup Range(Content[Last(c)])
  BY <1>1, <1>2, ExtensionShape
<1>4. IndexShape'
  <2>1. \A key \in KeysOf(Last(c)) : BlockEntries(Last(c), Len(c) - 1)[key] \in Seq(Nat)
    <3>1. \A key \in KeysOf(Last(c)) : PlaceIn(Last(c), key) \in Nat
      BY <1>3, PlaceIsNumber, Zenon
    <3>2. Len(c) - 1 \in Nat
      BY <1>3
    <3>3. \A m, n \in Nat : <<m, n>> \in Seq(Nat)
      OBVIOUS
    <3>4. QED
      BY <3>1, <3>2, <3>3, Zenon DEF BlockEntries
  <2>2. \A op \in Range(Content[Last(c)]) : BlockCoins(Last(c), Len(c) - 1)[op] \in Nat
    BY <1>3 DEF BlockCoins
  <2>3. /\ DOMAIN BlockEntries(Last(c), Len(c) - 1) = KeysOf(Last(c))
        /\ DOMAIN BlockCoins(Last(c), Len(c) - 1) = Range(Content[Last(c)])
    BY Zenon DEF BlockEntries, BlockCoins
  <2>4. \A key \in DOMAIN index'.entries : index'.entries[key] \in Seq(Nat)
    BY <1>1, <2>1, <2>3, Zenon DEF Over, IndexInv, IndexShape
  <2>5. \A op \in DOMAIN index'.coins : index'.coins[op] \in Nat
    BY <1>1, <2>2, <2>3, Zenon DEF Over, IndexInv, IndexShape
  <2>6. QED
    BY <1>1, <2>4, <2>5, Zenon DEF IndexShape
<1>5. reader' \in [Reader -> ReaderState] /\ (\A r \in Reader : ReaderOK(reader[r]))' /\ WrongOnlyByRace'
  <2>1. reader' \in [Reader -> ReaderState]
    BY <1>1, DisturbType, Zenon
  <2>2. QED
    BY <1>1, <2>1, ReadersAfterWrite, Zenon
<1>6. DOMAIN index'.coins = DOMAIN index.coins \cup Range(Content[Last(c)])
  BY <1>1, Zenon DEF Over, BlockCoins
<1>7. (mixed \/ IndexOK)'
  <2> SUFFICES ASSUME ~ mixed' PROVE IndexOK'
    BY Zenon
  <2>1. IndexOK /\ ~ (complete /\ index.tip # <<>> /\ index.tip[2] \notin Range(stored))
    BY <1>1, Zenon DEF IndexInv
  <2>2. CASE index.tip = <<>> /\ DOMAIN index.coins \subseteq OpsOf(stored)
    <3>1. ~ complete
      BY <1>3, <2>2 DEF WereComplete
    <3>2. index'.tip = <<>> /\ DOMAIN index'.coins \subseteq OpsOf(c)
      BY <1>1, <1>2, <1>3, <1>6, <2>2, <3>1, ZenonT(40)
    <3>3. QED
      BY <1>1, <3>2, Zenon DEF IndexOK, OpsOf
  <2>3. ASSUME NEW d \in Chain, index.tip = Tip(d), Describes(d),
               DOMAIN index.coins \subseteq OpsOf(d) \cup OpsOf(stored)
        PROVE  IndexOK'
    <3>1. index.tip # <<>> /\ index.tip[1] = Len(d) - 1 /\ index.tip[2] = Last(d)
      BY <2>3 DEF Tip
    <3>2. CASE complete
      <4>1. Len(d) = Len(old)
        BY <1>3, <3>1, <3>2, ChainShape DEF WereComplete
      <4>2. PICK k \in DOMAIN old : old[k] = Last(d)
        BY <1>2, <2>1, <3>1, <3>2, Zenon DEF Range
      <4>3. d = SubSeq(old, 1, k) /\ k = Len(old)
        BY <4>1, <4>2, EndsIn, Zenon
      <4>4. d = old
        BY <4>3, ChainShape
      <4>5. Describes(c)'
        BY <1>1, <1>2, <2>3, <4>4, DescribesExtension, ZenonT(40)
      <4>6. index'.tip = Tip(c) /\ DOMAIN index'.coins \subseteq OpsOf(c)
        BY <1>1, <1>2, <1>3, <1>6, <2>3, <3>2, <4>4, ZenonT(40)
      <4>7. QED
        BY <1>1, <4>5, <4>6, ZenonT(40) DEF IndexOK, OpsOf
    <3>3. CASE ~ complete
      <4>1. Describes(d)'
        BY <1>1, <2>3, StillDescribes, Zenon
      <4>2. index'.tip = Tip(d) /\ DOMAIN index'.coins \subseteq OpsOf(d) \cup OpsOf(c)
        BY <1>1, <1>2, <1>3, <1>6, <2>3, <3>3, ZenonT(40)
      <4>3. QED
        BY <1>1, <4>1, <4>2 DEF IndexOK, OpsOf
    <3>4. QED
      BY <3>2, <3>3, Zenon
  <2>4. QED
    BY <2>1, <2>2, <2>3, Zenon DEF IndexOK
<1>8. stored' \in Chain /\ cache' \in Chain /\ mixed' \in BOOLEAN
  BY <1>1, Zenon DEF IndexInv
<1>9. QED
  BY <1>4, <1>5, <1>7, <1>8, Zenon DEF IndexInv

(* A branch that replaces the stored one, and a rebuild by a reader. *)
LEMMA RebuiltKeeps ==
  ASSUME IndexInv, NEW c \in Chain, index' = Rebuilt(c), mixed' = FALSE,
         stored' \in Chain, cache' \in Chain,
         NEW others \in SUBSET Reader, reader' \in [Reader -> ReaderState],
         \A r \in others : reader'[r] = Disturb(others)[r],
         \A r \in Reader \ others : reader'[r].pc = "lookup" /\ reader'[r].ledger = c
  PROVE  IndexInv'
<1>1. /\ index'.tip = Tip(c) /\ Describes(c)'
      /\ DOMAIN index'.coins = OpsOf(c) /\ IndexShape'
  BY RebuiltDescribes, Zenon
<1>2. (\A r \in Reader : ReaderOK(reader[r]))' /\ WrongOnlyByRace'
  BY <1>1, ReadersAfterWrite, Zenon
<1>3. IndexOK'
  BY <1>1, Zenon DEF IndexOK, OpsOf
<1>4. QED
  BY <1>1, <1>2, <1>3, Zenon DEF IndexInv

(* A replaced chain has its tables rebuilt in the same transaction. *)
LEMMA ReplaceKeeps ==
  ASSUME IndexInv, NEW c \in Chain, ReplaceBlocks(c)
  PROVE  IndexInv'
<1>1. /\ stored' = c /\ cache' = cache /\ index' = Rebuilt(c) /\ mixed' = FALSE
      /\ reader' = Disturb(Reader) /\ cache \in Chain
  BY Zenon DEF ReplaceBlocks, IndexInv
<1>2. reader' \in [Reader -> ReaderState]
  BY <1>1, DisturbType, Zenon
<1>3. QED
  BY <1>1, <1>2, RebuiltKeeps, Zenon

(* A reader rebuilds the tables of the ledger it holds. *)
LEMMA RebuildKeeps ==
  ASSUME IndexInv, NEW r \in Reader, Rebuild(r),
         \A k \in DOMAIN reader[r].ledger : HasBody(reader[r].ledger, k)
  PROVE  IndexInv'
<1>1. PICK c \in Chain : c = reader[r].ledger
  BY Zenon DEF Rebuild, IndexInv, ReaderOK
<1>2. /\ stored' = stored /\ cache' = cache /\ index' = Rebuilt(c) /\ mixed' = FALSE
      /\ reader' = [Disturb(Reader \ {r}) EXCEPT ![r].pc = "lookup", ![r].undisturbed = TRUE]
  BY <1>1, Zenon DEF Rebuild
<1>3. stored' \in Chain /\ cache' \in Chain
  BY <1>2, Zenon DEF IndexInv
<1>4. Disturb(Reader \ {r}) \in [Reader -> ReaderState] /\ Disturb(Reader \ {r})[r] = reader[r]
  BY DisturbType, Zenon DEF Disturb
<1>5. /\ reader' \in [Reader -> ReaderState]
      /\ reader'[r].pc = "lookup" /\ reader'[r].ledger = c
      /\ \A q \in Reader \ {r} : reader'[q] = Disturb(Reader \ {r})[q]
  <2> DEFINE d == Disturb(Reader \ {r})
             q == d[r]
             new == [q EXCEPT !.pc = "lookup", !.undisturbed = TRUE]
  <2>1. d \in [Reader -> ReaderState] /\ q = reader[r]
    BY <1>4, Zenon
  <2> HIDE DEF d
  <2>2. reader' = [d EXCEPT ![r] = new]
    <3>1. reader' = [d EXCEPT ![r].pc = "lookup", ![r].undisturbed = TRUE]
      BY <1>2, Zenon DEF d
    <3>2. QED
      BY <2>1, <3>1
  <2>3. q \in ReaderState
    BY <2>1, Zenon
  <2>4. q.ledger = c
    BY <1>1, <2>1, Zenon
  <2> HIDE DEF q
  <2>5. new \in ReaderState /\ new.pc = "lookup" /\ new.ledger = c
    BY <2>3, <2>4 DEF ReaderState
  <2> HIDE DEF new
  <2>6. /\ reader' \in [Reader -> ReaderState] /\ reader'[r] = new
        /\ \A x \in Reader \ {r} : reader'[x] = d[x]
    BY <2>1, <2>2, <2>5
  <2>7. QED
    BY <2>5, <2>6, Zenon DEF d
<1>6. PICK others \in SUBSET Reader : others = Reader \ {r}
  BY Zenon
<1>7. \A q \in Reader \ others : reader'[q].pc = "lookup" /\ reader'[q].ledger = c
  BY <1>5, <1>6, Zenon
<1>8. QED
  BY <1>2, <1>3, <1>5, <1>6, <1>7, RebuiltKeeps, Zenon

-----------------------------------------------------------------------------
(* What a reader was told is right. *)
RightlyAnswered(q) ==
  q.pc = "answered" /\ q.undisturbed /\ ~ mixed =>
    /\ q.coin /\ q.want \in DOMAIN Coins(q.ledger) => q.found = <<Coins(q.ledger)[q.want]>>
    /\ ~ q.coin /\ q.want \in DOMAIN Entries(q.ledger) => q.found = Entries(q.ledger)[q.want]

(* WrongOnlyByRace, reader by reader. *)
LEMMA RightMeansNotWrong ==
  WrongOnlyByRace <=> \A r \in Reader : RightlyAnswered(reader[r])
<1>1. ASSUME NEW r \in Reader
      PROVE  LET q == reader[r]
                 truth == IF q.coin THEN [op \in DOMAIN Coins(q.ledger) |-> <<Coins(q.ledger)[op]>>]
                          ELSE Entries(q.ledger)
             IN  ((q.pc = "answered" /\ q.undisturbed /\ ~mixed /\ q.want \in DOMAIN truth) =>
                    q.found = truth[q.want]) <=> RightlyAnswered(q)
  BY Zenon DEF RightlyAnswered
<1>2. QED
  BY <1>1, Zenon DEF WrongOnlyByRace

(* A step of one reader that changes nothing else. *)
LEMMA ReaderStep ==
  ASSUME IndexInv, UNCHANGED <<stored, cache, index, mixed>>, NEW r \in Reader,
         NEW now \in ReaderState, reader' = [reader EXCEPT ![r] = now],
         ReaderOK(now), RightlyAnswered(now)
  PROVE  IndexInv'
<1>1. reader' \in [Reader -> ReaderState] /\ reader'[r] = now /\ \A q \in Reader \ {r} : reader'[q] = reader[q]
  BY Zenon DEF IndexInv
<1>2. \A q \in Reader : ReaderOK(reader[q]) /\ RightlyAnswered(reader[q])
  BY RightMeansNotWrong, Zenon DEF IndexInv
<1>3. ASSUME NEW q \in Reader
      PROVE  ReaderOK(reader[q])' /\ RightlyAnswered(reader[q])'
  <2>1. CASE q = r
    BY <1>1, <2>1, Zenon DEF ReaderOK, RightlyAnswered
  <2>2. CASE q # r
    BY <1>1, <1>2, <2>2, ZenonT(40) DEF ReaderOK, RightlyAnswered
  <2>3. QED
    BY <2>1, <2>2, Zenon
<1>4. WrongOnlyByRace'
  BY <1>3, SMTT(30), SMTT(60) DEF WrongOnlyByRace, RightlyAnswered
<1>5. IndexShape' /\ (mixed \/ IndexOK)' /\ stored' \in Chain /\ cache' \in Chain /\ mixed' \in BOOLEAN
  BY SMTT(30) DEF IndexInv, IndexShape, IndexOK, Describes, OpsOf
<1>6. QED
  BY <1>1, <1>3, <1>4, <1>5, Zenon DEF IndexInv

(* A reader that has not begun relies on nothing. *)
LEMMA IdleIsRight ==
  /\ IdleReader \in ReaderState /\ ReaderOK(IdleReader) /\ RightlyAnswered(IdleReader)
BY DEF IdleReader, ReaderState, ReaderOK, RightlyAnswered, None

(* The steps of a reader. *)
LEMMA PinKeeps ==
  ASSUME IndexInv, NEW r \in Reader, NEW key \in Wanted, NEW coin \in BOOLEAN, Pin(r, key, coin)
  PROVE  IndexInv'
<1> DEFINE now == [IdleReader EXCEPT !.pc = "check", !.ledger = cache, !.want = key, !.coin = coin]
<1>1. cache \in Chain /\ IdleReader \in ReaderState
  BY IdleIsRight, Zenon DEF IndexInv
<1>2. UNCHANGED <<stored, cache, index, mixed>> /\ reader' = [reader EXCEPT ![r] = now]
  BY Zenon DEF Pin
<1>3. now \in ReaderState /\ now.pc = "check" /\ now.ledger = cache
  BY <1>1, Zenon DEF ReaderState
<1> HIDE DEF now
<1>4. ReaderOK(now) /\ RightlyAnswered(now)
  BY <1>1, <1>3, Zenon DEF ReaderOK, RightlyAnswered
<1>5. QED
  BY <1>2, <1>3, <1>4, ReaderStep, Zenon

(* A reader compares the tip of the tables with that of its ledger. *)
LEMMA CheckKeeps ==
  ASSUME IndexInv, NEW r \in Reader, CheckTip(r)
  PROVE  IndexInv'
<1> DEFINE q == reader[r]
           now == [q EXCEPT !.pc = IF UpToDate(q.ledger) THEN "lookup" ELSE "rebuild",
                            !.undisturbed = TRUE]
<1>1. q \in ReaderState /\ ReaderOK(q) /\ q.pc = "check"
  BY Zenon DEF CheckTip, IndexInv
<1>2. now \in ReaderState /\ now.pc \in {"lookup", "rebuild"} /\ now.ledger = q.ledger /\ q.ledger \in Chain
      /\ (now.pc = "lookup" => UpToDate(q.ledger))
  BY <1>1, Zenon DEF ReaderState, ReaderOK
<1>3. UpToDate(q.ledger) => index.tip = Tip(q.ledger)
  BY Zenon DEF UpToDate, IndexTip, Tip
<1>4. UNCHANGED <<stored, cache, index, mixed>> /\ reader' = [reader EXCEPT ![r] = now]
  BY Zenon DEF CheckTip, IndexInv
<1> HIDE DEF q, now
<1>5. ReaderOK(now) /\ RightlyAnswered(now)
  BY <1>2, <1>3, Zenon DEF ReaderOK, RightlyAnswered
<1>6. QED
  BY <1>2, <1>4, <1>5, ReaderStep, Zenon

(* A reader that meets an error gives no answer. *)
LEMMA ReportErrorKeeps ==
  ASSUME IndexInv, NEW r \in Reader, ReportError(r), UNCHANGED <<stored, cache, index, mixed>>
  PROVE  IndexInv'
BY IdleIsRight, ReaderStep, Zenon DEF ReportError

(* What an undisturbed reader finds is what its ledger has. *)
LEMMA Found ==
  ASSUME IndexInv, NEW r \in Reader, reader[r].pc = "lookup", reader[r].undisturbed, ~ mixed
  PROVE  Describes(reader[r].ledger)
<1>1. reader[r].ledger \in Chain /\ index.tip = Tip(reader[r].ledger) /\ IndexOK
  BY Zenon DEF IndexInv, ReaderOK
<1>2. PICK d \in Chain : index.tip = Tip(d) /\ Describes(d)
  BY <1>1, SMTT(30), SMTT(60) DEF IndexOK, Tip
<1>3. d = reader[r].ledger
  BY <1>1, <1>2, IndexesAssumption, SMTT(30) DEF Tip
<1>4. QED
  BY <1>2, <1>3, Zenon

(* The origin of a coin is read from the tables. *)
LEMMA LookupCoinKeeps ==
  ASSUME IndexInv, NEW r \in Reader, LookupCoin(r)
  PROVE  IndexInv'
<1> DEFINE q == reader[r]
           place == IF q.want \in DOMAIN index.coins THEN <<index.coins[q.want]>> ELSE <<>>
           now == [q EXCEPT !.pc = "answered", !.found = place]
<1>1. q \in ReaderState /\ ReaderOK(q) /\ q.pc = "lookup" /\ q.coin
  BY Zenon DEF LookupCoin, IndexInv
<1>2. place \in Seq(Nat)
  BY DEF IndexInv, IndexShape
<1>3. UNCHANGED <<stored, cache, index, mixed>> /\ reader' = [reader EXCEPT ![r] = now]
  BY Zenon DEF LookupCoin, Answer, IndexInv
<1>4. q.undisturbed /\ ~ mixed /\ q.want \in DOMAIN Coins(q.ledger) => place = <<Coins(q.ledger)[q.want]>>
  BY <1>1, Found, Zenon DEF Describes
<1> HIDE DEF place
<1>5. /\ now \in ReaderState /\ now.pc = "answered" /\ now.found = place /\ now.coin = q.coin
      /\ now.undisturbed = q.undisturbed /\ now.ledger = q.ledger /\ now.want = q.want
  BY <1>1, <1>2, Zenon DEF ReaderState
<1> HIDE DEF q, now
<1>6. ReaderOK(now) /\ RightlyAnswered(now)
  BY <1>1, <1>4, <1>5, Zenon DEF ReaderOK, RightlyAnswered
<1>7. QED
  BY <1>3, <1>5, <1>6, ReaderStep, Zenon

(* A place is read from the tables. *)
LEMMA LookupKeeps ==
  ASSUME IndexInv, NEW r \in Reader, Lookup(r)
  PROVE  IndexInv'
<1> DEFINE q == reader[r]
           fetch == [q EXCEPT !.pc = "fetch", !.found = index.entries[q.want]]
           none == [q EXCEPT !.pc = "answered", !.found = <<>>]
<1>1. q \in ReaderState /\ ReaderOK(q) /\ q.pc = "lookup" /\ ~ q.coin
  BY Zenon DEF Lookup, IndexInv
<1>2. UNCHANGED <<stored, cache, index, mixed>>
  BY Zenon DEF Lookup
<1>3. q.undisturbed /\ ~ mixed /\ q.want \in DOMAIN Entries(q.ledger) =>
        q.want \in DOMAIN index.entries /\ index.entries[q.want] = Entries(q.ledger)[q.want]
  BY <1>1, Found, Zenon DEF Describes
<1>4. CASE q.want \in DOMAIN index.entries
  <2>1. reader' = [reader EXCEPT ![r] = fetch]
    BY <1>4, Zenon DEF Lookup, IndexInv
  <2>2. index.entries[q.want] \in Seq(Nat)
    BY <1>4, Zenon DEF IndexInv, IndexShape
  <2>3. /\ fetch \in ReaderState /\ fetch.pc = "fetch" /\ fetch.found = index.entries[q.want]
        /\ fetch.coin = q.coin /\ fetch.undisturbed = q.undisturbed /\ fetch.ledger = q.ledger
        /\ fetch.want = q.want
    BY <1>1, <2>2, Zenon DEF ReaderState
  <2> HIDE DEF q, fetch
  <2>4. ReaderOK(fetch) /\ RightlyAnswered(fetch)
    BY <1>1, <1>3, <2>3, Zenon DEF ReaderOK, RightlyAnswered
  <2>5. QED
    BY <1>2, <2>1, <2>3, <2>4, ReaderStep, Zenon
<1>5. CASE q.want \notin DOMAIN index.entries
  <2>0. <<>> \in Seq(Nat)
    OBVIOUS
  <2>1. reader' = [reader EXCEPT ![r] = none]
    BY <1>5, Zenon DEF Lookup, Answer, IndexInv
  <2>2. /\ none \in ReaderState /\ none.pc = "answered" /\ none.coin = q.coin
        /\ none.undisturbed = q.undisturbed /\ none.ledger = q.ledger /\ none.want = q.want
    BY <1>1, <2>0, Zenon DEF ReaderState
  <2> HIDE DEF q, none
  <2>3. ReaderOK(none) /\ RightlyAnswered(none)
    BY <1>1, <1>3, <1>5, <2>2, Zenon DEF ReaderOK, RightlyAnswered
  <2>4. QED
    BY <1>2, <2>1, <2>2, <2>3, ReaderStep, ZenonT(40)
<1>6. QED
  BY <1>4, <1>5, Zenon

(* The block at the place found is fetched, and the answer taken from it. *)
LEMMA FetchBlockKeeps ==
  ASSUME IndexInv, NEW r \in Reader, FetchBlock(r)
  PROVE  IndexInv'
<1> DEFINE q == reader[r]
           now == [q EXCEPT !.pc = "answered", !.found = q.found]
<1>1. q \in ReaderState /\ ReaderOK(q) /\ q.pc = "fetch"
  BY Zenon DEF FetchBlock, IndexInv
<1>2. UNCHANGED <<stored, cache, index, mixed>>
  BY Zenon DEF FetchBlock
<1>3. CASE Confirms(q.ledger, q.want, q.found)
  <2>1. reader' = [reader EXCEPT ![r] = now]
    BY <1>3, Zenon DEF FetchBlock, Answer, IndexInv
  <2>2. /\ now \in ReaderState /\ now.pc = "answered" /\ now.found = q.found /\ now.coin = q.coin
        /\ now.undisturbed = q.undisturbed /\ now.ledger = q.ledger /\ now.want = q.want
    BY <1>1, Zenon DEF ReaderState
  <2> HIDE DEF q, now
  <2>3. ReaderOK(now) /\ RightlyAnswered(now)
    BY <1>1, <2>2, Zenon DEF ReaderOK, RightlyAnswered
  <2>4. QED
    BY <1>2, <2>1, <2>2, <2>3, ReaderStep, ZenonT(40)
<1>4. CASE ~ Confirms(q.ledger, q.want, q.found)
  BY <1>2, <1>4, ReportErrorKeeps, Zenon DEF FetchBlock
<1>5. QED
  BY <1>3, <1>4, Zenon

(* IndexInv holds at first and after every step. *)
LEMMA IndexInitial == IndexInit => IndexInv
<1> SUFFICES ASSUME IndexInit PROVE IndexInv
  BY Zenon
<1>1. stored \in Chain /\ cache \in Chain /\ mixed \in BOOLEAN
  BY Zenon DEF IndexInit
<1>2. reader \in [Reader -> ReaderState] /\ \A r \in Reader : ReaderOK(reader[r]) /\ RightlyAnswered(reader[r])
  BY IdleIsRight, Zenon DEF IndexInit
<1>3. WrongOnlyByRace
  BY <1>2, RightMeansNotWrong, Zenon
<1>4. IndexShape /\ IndexOK
  <2>1. CASE index = [tip |-> <<>>, origins |-> FALSE, programs |-> FALSE,
                      entries |-> <<>>, coins |-> <<>>, activities |-> {}]
    BY <2>1 DEF IndexShape, IndexOK
  <2>2. CASE index = [tip |-> Tip(stored), origins |-> TRUE, programs |-> FALSE,
                      entries |-> Entries(stored), coins |-> Coins(stored),
                      activities |-> Activities(stored)]
    <3>1. \A key \in DOMAIN Entries(stored) : Entries(stored)[key] \in Seq(Nat)
      BY <1>1, EntriesArePlaces, Zenon
    <3>2. \A op \in DOMAIN Coins(stored) : Coins(stored)[op] \in Nat
      BY <1>1, EntriesArePlaces, Zenon
    <3>3. /\ index.tip = Tip(stored) /\ index.entries = Entries(stored) /\ index.coins = Coins(stored)
          /\ index = [tip |-> index.tip, origins |-> index.origins, programs |-> index.programs,
                      entries |-> index.entries, coins |-> index.coins, activities |-> index.activities]
      BY <2>2, Zenon
    <3>4. QED
      BY <1>1, <3>1, <3>2, <3>3, KeysOfChain, Zenon DEF IndexShape, IndexOK, Describes
  <2>3. QED
    BY <2>1, <2>2, Zenon DEF IndexInit
<1>5. QED
  BY <1>1, <1>2, <1>3, <1>4, Zenon DEF IndexInv

(* Every transaction and every step of a reader keeps the invariant. *)
LEMMA IndexStep == IndexInv /\ [IndexNext]_indexVars => IndexInv'
<1> SUFFICES ASSUME IndexInv, [IndexNext]_indexVars PROVE IndexInv'
  BY Zenon
<1>1. ASSUME NEW c \in Chain, AppendBlock(c) \/ ReplaceBlocks(c) PROVE IndexInv'
  BY <1>1, AppendKeeps, ReplaceKeeps, ZenonT(40)
<1>2. CASE Publish
  <2>1. /\ cache' = stored /\ stored' = stored /\ index' = index /\ reader' = reader
        /\ mixed' = mixed
    BY <1>2, Zenon DEF Publish
  <2>2. cache' \in Chain
    BY <2>1, Zenon DEF IndexInv
  <2>3. QED
    BY <2>1, <2>2, TablesUntouched, Zenon
<1>3. ASSUME NEW r \in Reader, NEW key \in Wanted, NEW coin \in BOOLEAN, Pin(r, key, coin) PROVE IndexInv'
  BY <1>3, PinKeeps, Zenon
<1>4. ASSUME NEW r \in Reader, Rebuild(r) PROVE IndexInv'
  BY <1>4, RebuildKeeps, ReportErrorKeeps, Zenon DEF Rebuild
<1>5. ASSUME NEW r \in Reader, Finish(r) PROVE IndexInv'
  BY <1>5, IdleIsRight, ReaderStep, Zenon DEF Finish
<1>6. ASSUME NEW r \in Reader, Read(r) PROVE IndexInv'
  BY <1>4, <1>5, <1>6, CheckKeeps, LookupKeeps, LookupCoinKeeps, FetchBlockKeeps, ZenonT(40) DEF Read
<1>7. CASE UNCHANGED indexVars
  <2>1. /\ cache' = cache /\ stored' = stored /\ index' = index /\ reader' = reader
        /\ mixed' = mixed
    BY <1>7, Zenon DEF indexVars
  <2>2. cache' \in Chain
    BY <2>1, Zenon DEF IndexInv
  <2>3. QED
    BY <2>1, <2>2, TablesUntouched, Zenon
<1>8. QED
  BY <1>1, <1>2, <1>3, <1>6, <1>7, ZenonT(40) DEF IndexNext

(* It holds in every reachable state. *)
LEMMA IndexInvariance == IndexSpec => []IndexInv
<1>1. QED
  BY IndexInitial, IndexStep, PTL DEF IndexSpec

(* A block that extends the stored chain is refused by insert_coin_origins  *)
(* only if the tables hold operations of a branch the node left, which a    *)
(* reader with an older ledger put there.                                   *)
THEOREM RefusalsNameAnotherBranch == IndexSpec => []RefusedOnlyByOtherBranch
<1>1. QED
  BY IndexInvariance, NotRefused, PTL

(* A reader finds what its ledger says, unless someone wrote the tables     *)
(* between its check and its answer, or an append took tables of another    *)
(* branch to be complete.                                                   *)
THEOREM AnswersWrongOnlyByRace == IndexSpec => []WrongOnlyByRace
<1>1. IndexInv => WrongOnlyByRace
  BY Zenon DEF IndexInv
<1>2. QED
  BY <1>1, IndexInvariance, PTL

=============================================================================
