----------------------------- MODULE HeaderSync -----------------------------
(***************************************************************************)
(* Header synchronization: the header validation state of                  *)
(* kernel/src/consensus/header.rs with its bounded window of recent        *)
(* headers; the cumulative totals and checkpoints the node caches beside   *)
(* its ledger (runtime/src/node/state.rs); and the exchange of locators    *)
(* and header chunks between a node and a peer (runtime/src/node/          *)
(* chain_sync.rs, p2p.rs).                                                 *)
(*                                                                         *)
(* The canonical chain of the node may change at any time between two      *)
(* messages of a session; the session keeps the chain, the checkpoints and *)
(* the totals it read when it began, as the code keeps an Arc of each.     *)
(* The peer serves a session from one pinned ledger as well.  A header is  *)
(* the hash of its block: Bits and BlockWeight give the fields.            *)
(***************************************************************************)
EXTENDS BlockTree, Difficulty

CONSTANTS
  Bits,                  \* [Block -> Nat], target_bits of the header
  CheckpointInterval,    \* HEADER_STATE_CHECKPOINT_INTERVAL
  MaxChunk,              \* MAX_HEADER_CHAIN_CHUNK_HEADERS
  DenseLocator,          \* the 10 of ledger_header_locator
  MaxLocator,            \* MAX_LOCATOR_HASHES
  MaxSyncHeaders,        \* MAX_SYNC_HEADERS
  MinimumWork,           \* the configured chain minimums
  MinimumWeight,
  WithoutPow,            \* headers whose hash does not meet their target
  LocalTip,              \* tips the node itself may adopt
  Offer,                 \* pairs: the tip a peer advertises, the tip it serves
  None                   \* an absent option

LessThanAnEpoch == WbdaWindow - 1

(* RECENT_HEADER_WINDOW *)
RecentWindow == WbdaWindow * 2

ASSUME HeaderSyncAssumption ==
  /\ Bits \in [Block -> Nat]
  /\ \A b \in Block \ {Genesis} : WorkOf[b] = BlockWork(Bits[b])
  /\ CheckpointInterval \in Nat \ {0} /\ MaxChunk \in Nat \ {0}
  /\ DenseLocator \in Nat \ {0} /\ MaxLocator \in Nat \ {0, 1}
  /\ MaxSyncHeaders \in Nat
  /\ LocalTip \subseteq Block /\ Offer \subseteq Block \X Block
  /\ None \notin Block
  /\ None \notin [header : Block, work : Nat, weight : Nat, recent : Seq(Block)]

(* No line the nodes can come to know makes the totals saturate. *)
ASSUME TotalsFit ==
  \A b \in Block : TotalWork[b] <= MaxWork /\ TotalWeight[b] <= MaxWeight

VARIABLES
  cache,    \* CachedLedger: tip, header checkpoints and cumulative totals
  session   \* the header synchronization in progress, or its outcome

vars == <<cache, session>>

-----------------------------------------------------------------------------
(* Adding headers one by one to totals that saturate. *)
AddHeaders(totals, headers) ==
  LET after[i \in 0 .. Len(headers)] ==
        IF i = 0
        THEN totals
        ELSE [work   |-> SaturatingSum(after[i - 1].work, BlockWork(Bits[headers[i]]), MaxWork),
              weight |-> SaturatingSum(after[i - 1].weight, BlockWeight[headers[i]], MaxWeight)]
  IN  after[Len(headers)]

HeadersAfter(tip, height) == SubSeq(Line[tip], height + 2, Len(Line[tip]))

Checkpoint(tip, height, anchorHeight, anchorTotals) ==
  LET totals == AddHeaders(anchorTotals,
                  SubSeq(Line[tip], anchorHeight + 2, height + 1))
  IN  [height |-> height, hash |-> HeaderAt(tip, height),
       work |-> totals.work, weight |-> totals.weight]

(* The checkpoints above an anchor checkpoint: one at every multiple of the *)
(* interval.                                                                *)
CheckpointsAfter(tip, anchor) ==
  LET below == anchor.height \div CheckpointInterval
  IN  [i \in 1 .. HeightOf(tip) \div CheckpointInterval - below |->
         Checkpoint(tip, (below + i) * CheckpointInterval, anchor.height,
                    [work |-> anchor.work, weight |-> anchor.weight])]

CacheFrom(tip, checkpoints) ==
  LET anchor == checkpoints[Len(checkpoints)]
      totals == AddHeaders([work |-> anchor.work, weight |-> anchor.weight],
                           HeadersAfter(tip, anchor.height))
  IN  [tip         |-> tip,
       checkpoints |-> checkpoints \o CheckpointsAfter(tip, anchor),
       work        |-> totals.work,
       weight      |-> totals.weight]

GenesisCheckpoint == [height |-> 0, hash |-> Genesis, work |-> 0, weight |-> 0]

(* build_header_state_checkpoints *)
BuildCheckpoints(tip) == CacheFrom(tip, <<GenesisCheckpoint>>)

AnchorAtOrBelowTip(tip, checkpoints) ==
  {i \in 1 .. Len(checkpoints) : checkpoints[i].height <= HeightOf(tip)}

(* The previous checkpoints that are still on the new chain. *)
AnchorsOn(tip, checkpoints) ==
  {i \in 1 .. Len(checkpoints) :
     /\ checkpoints[i].height <= HeightOf(tip)
     /\ HeaderAt(tip, checkpoints[i].height) = checkpoints[i].hash}

(* What updated_header_state_checkpoints keeps of the previous checkpoints  *)
(* (genesis is always on the new chain).                                    *)
KeptCheckpoints(tip, previous) == SubSeq(previous, 1, Max(AnchorsOn(tip, previous)))

-----------------------------------------------------------------------------
(* The header validation state: its tip, totals and recent headers (the     *)
(* difficulty anchor it also carries is never read).                        *)
Suffix(headers, n) == SubSeq(headers, Max({1, Len(headers) - n + 1}), Len(headers))

(* ledger_header_state_at_height: refused when the checkpoint it starts     *)
(* from is not on the chain.                                                *)
CheckpointBelow(local, height) ==
  local.checkpoints[Max({i \in 1 .. Len(local.checkpoints) :
                           local.checkpoints[i].height <= height})]

CheckpointMatches(local, height) ==
  LET c == CheckpointBelow(local, height)
  IN  HeaderAt(local.tip, c.height) = c.hash

CountsCheckpointTwice(local, height) ==
  LET c       == CheckpointBelow(local, height)
      headers == SubSeq(Line[local.tip], 1, height + 1)
      totals  == AddHeaders([work |-> c.work, weight |-> c.weight],
                            SubSeq(headers, Max({2, c.height + 1}), height + 1))
  IN  [header |-> HeaderAt(local.tip, height),
       work   |-> totals.work,
       weight |-> totals.weight,
       recent |-> Suffix(headers, RecentWindow)]

StateAtHeight(local, height) ==
  LET c       == CheckpointBelow(local, height)
      headers == SubSeq(Line[local.tip], 1, height + 1)
      totals  == AddHeaders([work |-> c.work, weight |-> c.weight],
                            SubSeq(headers, c.height + 2, height + 1))
  IN  [header |-> HeaderAt(local.tip, height),
       work   |-> totals.work,
       weight |-> totals.weight,
       recent |-> Suffix(headers, RecentWindow)]

(* One header of verify_header_chain_extension, judged by the recent        *)
(* headers alone.                                                           *)
RecentWeights(recent) ==
  [h \in {HeightOf(b) : b \in Range(recent)} |->
     BlockWeight[CHOOSE b \in Range(recent) : HeightOf(b) = h]]

AcceptsHeader(v, b) ==
  /\ ValidWeight(BlockWeight[b])
  /\ Parent(b) = v.header
  /\ LET seen == RecentWeights(v.recent)
     IN  /\ WindowVisible(HeightOf(b), seen)
         /\ Bits[b] = ExpectedDifficulty(HeightOf(b), Bits[v.header], seen)
  /\ b \notin WithoutPow

(* advanced_header_validation_state *)
StateAfter(v, headers) ==
  LET totals == AddHeaders([work |-> v.work, weight |-> v.weight], headers)
      line   == v.recent \o headers
  IN  [header |-> line[Len(line)],
       work   |-> totals.work,
       weight |-> totals.weight,
       recent |-> Suffix(line, RecentWindow)]

(* advance_header_validation_state: the state after the headers, none when  *)
(* one of them is refused on top of those before it.                        *)
Advance(v, headers) ==
  IF \A i \in 1 .. Len(headers) :
       AcceptsHeader(StateAfter(v, SubSeq(headers, 1, i - 1)), headers[i])
  THEN {StateAfter(v, headers)}
  ELSE {}

-----------------------------------------------------------------------------
(* ledger_header_locator: consecutive headers from the tip, then doubling   *)
(* gaps, and always genesis.                                                *)
Locator(tip) ==
  LET entry[i \in 1 .. MaxLocator - 1] ==
        IF i = 1
        THEN [height |-> HeightOf(tip), step |-> 1]
        ELSE LET e == entry[i - 1]
             IN  [height |-> Max({0, e.height - e.step}),
                  step   |-> IF i - 1 >= DenseLocator THEN 2 * e.step ELSE e.step]
  IN  {HeaderAt(tip, entry[i].height) : i \in 1 .. MaxLocator - 1} \cup {Genesis}

(* serve_header_requests: the highest header of the peer's pinned chain     *)
(* that the locator names, and the chunk that follows it.                   *)
ServedAncestor(peer, locator) ==
  HeaderAt(peer, Max({h \in 0 .. HeightOf(peer) : HeaderAt(peer, h) \in locator}))

ServedHeaders(peer, ancestor) ==
  LET after == HeadersAfter(peer, HeightOf(ancestor))
  IN  SubSeq(after, 1, IF Len(after) > MaxChunk THEN MaxChunk ELSE Len(after))

-----------------------------------------------------------------------------
Allowed(work, weight) == work >= MinimumWork /\ weight >= MinimumWeight

NoSession == [status |-> "idle"]

Init ==
  /\ cache = BuildCheckpoints(Genesis)
  /\ session = NoSession

(* update_ledger_cache: another thread has published a better chain. *)
Adopt(tip) ==
  /\ Better(tip, cache.tip)
  /\ \E kept \in {KeptCheckpoints(tip, cache.checkpoints)} : cache' = CacheFrom(tip, kept)
  /\ UNCHANGED session

(* A restart loses the cache; loading the chain builds it again. *)
Restart ==
  /\ cache' = BuildCheckpoints(cache.tip)
  /\ session' = NoSession

(* synchronize_headers, up to its first request.  The handshake carries the *)
(* totals the peer has cached for the chain it serves.                      *)
BeginSession(peer, served) ==
  \E claim \in {BuildCheckpoints(peer)} :
    /\ session.status # "asking"
    /\ Allowed(claim.work, claim.weight)
    /\ session' = [status   |-> "asking",
                   local    |-> cache,
                   peer     |-> peer,
                   claim    |-> [work |-> claim.work, weight |-> claim.weight],
                   served   |-> served,
                   locator  |-> Locator(cache.tip),
                   state    |-> None,
                   ancestor |-> None,
                   headers  |-> <<>>]
    /\ UNCHANGED cache

(* The state the next chunk is verified against: the last verified one, or  *)
(* that of the local chain at the ancestor the peer names.  None when the   *)
(* ancestor is not the verified tip or not one the locator offered.         *)
CurrentState(s, ancestor) ==
  IF s.state # None
  THEN {v \in {s.state} : v.header = ancestor}
  ELSE {StateAtHeight(s.local, HeightOf(a)) :
          a \in {a \in s.locator : a = ancestor /\ CheckpointMatches(s.local, HeightOf(a))}}

RetryFromStart ==
  session' = [session EXCEPT !.locator = Locator(session.local.tip),
                             !.state = None, !.ancestor = None, !.headers = <<>>]

Fail == session' = [session EXCEPT !.status = "refused"]

LastChunkOnly(headers, chunk) == chunk

(* The headers of the branch so far. *)
Branch(headers, chunk) == headers \o chunk

AcceptChunk(v, ancestor, chunk) ==
  \E next \in {n \in Advance(v, chunk) :
               Len(session.headers) + Len(chunk) <= MaxSyncHeaders} :
    session' = [session EXCEPT
      !.state    = next,
      !.ancestor = IF @ = None THEN ancestor ELSE @,
      !.headers  = Branch(@, chunk),
      !.locator  = {next.header, Genesis}]

(* The answer HEADERS: a chunk to verify. *)
ReceiveChunk ==
  /\ session.status = "asking"
  /\ \E ancestor \in {ServedAncestor(session.served, session.locator)} :
       \E chunk \in {ServedHeaders(session.served, ancestor)} \ {<<>>} :
         \/ \E v \in CurrentState(session, ancestor) : AcceptChunk(v, ancestor, chunk)
         \/ /\ \A v \in CurrentState(session, ancestor) :
                 \/ Advance(v, chunk) = {}
                 \/ Len(session.headers) + Len(chunk) > MaxSyncHeaders
            /\ Fail
  /\ UNCHANGED cache

(* The answer HEADERS_COMPLETE: the verified tip must be the advertised one, *)
(* with the advertised totals.                                              *)
Completes(v) ==
  /\ v.header = session.peer
  /\ [work |-> v.work, weight |-> v.weight] = session.claim

NotWorse(v) ==
  IF v.work >= session.local.work /\ Allowed(v.work, v.weight)
  THEN "preferred" ELSE "not preferred"

Outcome(v) ==
  IF /\ Allowed(v.work, v.weight)
     /\ TipGreater(v.work, v.weight, v.header,
          session.local.work, session.local.weight, session.local.tip)
  THEN "preferred" ELSE "not preferred"

ReceiveComplete ==
  /\ session.status = "asking"
  /\ \E ancestor \in {ServedAncestor(session.served, session.locator)} :
       /\ ServedHeaders(session.served, ancestor) = <<>>
       /\ \/ \E v \in {v \in CurrentState(session, ancestor) : Completes(v)} :
               session' = [session EXCEPT
                 !.status   = Outcome(v),
                 !.state    = v,
                 !.ancestor = IF @ = None THEN ancestor ELSE @]
          \/ /\ \A v \in CurrentState(session, ancestor) : ~ Completes(v)
             /\ Fail
  /\ UNCHANGED cache

(* The connection breaks or a read times out. *)
Disconnect ==
  /\ session.status = "asking"
  /\ session' = NoSession
  /\ UNCHANGED cache

Next ==
  \/ \E tip \in LocalTip : Adopt(tip)
  \/ Restart
  \/ \E offer \in Offer : BeginSession(offer[1], offer[2])
  \/ ReceiveChunk
  \/ ReceiveComplete
  \/ Disconnect

(* A peer answers each request or the read times out. *)
Spec == Init /\ [][Next]_vars /\ WF_vars(Disconnect \/ ReceiveComplete \/ ReceiveChunk)

-----------------------------------------------------------------------------
(* What verification of the whole line from genesis accepts: weights within *)
(* bounds, proof of work, and targets adjusted by the line's own weights.   *)
ValidLine(tip) ==
  LET weightAt == [h \in 0 .. HeightOf(tip) |-> BlockWeight[HeaderAt(tip, h)]]
  IN  \A b \in Range(Line[tip]) \ {Genesis} :
        /\ ValidWeight(BlockWeight[b])
        /\ b \notin WithoutPow
        /\ Bits[b] = ExpectedDifficulty(HeightOf(b), Bits[Parent(b)], weightAt)

(* The node adopts a chain only after it has verified it. *)
ASSUME LocalTipsValid == \A tip \in LocalTip : ValidLine(tip)

(* After any sequence of appends, reorganizations and restarts the cached   *)
(* totals and every checkpoint are those of the current chain, one          *)
(* checkpoint for genesis and each multiple of the interval: none survives  *)
(* from a branch that was left.                                             *)
CacheFollowsChain ==
  /\ cache.work = TotalWork[cache.tip] /\ cache.weight = TotalWeight[cache.tip]
  /\ Len(cache.checkpoints) = HeightOf(cache.tip) \div CheckpointInterval + 1
  /\ \A i \in 1 .. Len(cache.checkpoints) :
       LET c == cache.checkpoints[i]
       IN  /\ c.height = (i - 1) * CheckpointInterval
           /\ c.hash = HeaderAt(cache.tip, c.height)
           /\ c.work = TotalWork[c.hash] /\ c.weight = TotalWeight[c.hash]

Verified == session.status \notin {"idle", "refused"} /\ session.state # None

(* The validation state does not depend on where the session started, which *)
(* checkpoint it used and how the headers were cut into chunks: it is that  *)
(* of the whole line from genesis, and the line is valid.                   *)
StateIndependentOfChunks ==
  Verified =>
    /\ session.state.work = TotalWork[session.state.header]
    /\ session.state.weight = TotalWeight[session.state.header]
    /\ session.state.recent = Suffix(Line[session.state.header], RecentWindow)
    /\ ValidLine(session.state.header)

(* The window of recent headers is always long enough: a peer that serves   *)
(* the valid chain it advertised is not refused, within the session limit.  *)
ValidPeerNotRefused ==
  session.status = "refused" =>
    \/ ~ ValidLine(session.peer)
    \/ session.served # session.peer
    \/ HeightOf(session.peer) > MaxSyncHeaders

(* A finished session names a header of both chains and exactly the peer's  *)
(* headers above it, whatever gaps the locator had.                         *)
BranchAttaches ==
  session.status \in {"preferred", "not preferred"} =>
    /\ OnLine(session.ancestor, session.local.tip)
    /\ OnLine(session.ancestor, session.peer)
    /\ session.headers = HeadersAfter(session.peer, HeightOf(session.ancestor))

(* The peer's branch is wanted exactly when fork choice over whole chains   *)
(* prefers it to the chain the session started from.                        *)
PreferenceFollowsForkChoice ==
  session.status \in {"preferred", "not preferred"} =>
    (session.status = "preferred" <=> Better(session.peer, session.local.tip))

(* A session ends: every answer moves it towards the peer's tip. *)
SessionEnds == session.status = "asking" ~> session.status # "asking"

=============================================================================
