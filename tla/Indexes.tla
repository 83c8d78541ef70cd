------------------------------ MODULE Indexes -------------------------------
(***************************************************************************)
(* The lookup indexes kept in the database beside the canonical blocks:    *)
(* where a block or an operation is, where a coin was made, what a program *)
(* took part in.  The node writes them in the transaction that stores a    *)
(* block or another branch; a reader that finds them at another tip than   *)
(* the ledger it holds rebuilds them from that ledger.                     *)
(*                                                                         *)
(* runtime/src/storage.rs, runtime/src/node/{index, state, explorer}.rs.   *)
(*                                                                         *)
(* A chain is a sequence of blocks, the genesis block first (height h at   *)
(* position h + 1).  Each database transaction is one step: the database   *)
(* has one writer at a time and a read sees one committed state.           *)
(***************************************************************************)
EXTENDS Naturals, Sequences, Functions

CONSTANTS
  Chain,      \* the chains there can be, closed under nonempty prefixes
  Weight,     \* of a block, for the choice between branches
  Content,    \* the operations of a block, none twice in a chain
  Reader,
  Wanted,     \* what readers look up: blocks and operations
  Resident    \* bodies a ledger keeps in memory besides genesis

Last(c) == c[Len(c)]
Front(c) == SubSeq(c, 1, Len(c) - 1)
IsPrefix(c, d) == Len(c) <= Len(d) /\ SubSeq(d, 1, Len(c)) = c

IndexedBlock == UNION {Range(c) : c \in Chain}
Operation == UNION {Range(Content[b]) : b \in IndexedBlock}

ASSUME IndexesAssumption ==
  /\ Chain \subseteq Seq(IndexedBlock) /\ Content \in [IndexedBlock -> Seq(Operation)]
  /\ \A c \in Chain : c # <<>> /\ \A d \in Chain : c[1] = d[1]
  /\ \A c \in Chain : \A n \in 1 .. Len(c) : SubSeq(c, 1, n) \in Chain
  /\ \A c, d \in Chain : Last(c) = Last(d) => c = d
  /\ \A c \in Chain : \A i, k \in DOMAIN c :
       i # k => Range(Content[c[i]]) \cap Range(Content[c[k]]) = {}
  /\ IndexedBlock \cap Operation = {} /\ Wanted \subseteq IndexedBlock \cup Operation
  /\ Resident \in Nat \ {0}

VARIABLES
  stored,     \* the canonical blocks in the database
  cache,      \* the ledger the node publishes to readers
  index,      \* tip, both versions, entries, coins, activities
  reader,
  mixed       \* history: a block was added to indexes of another branch
              \* and the result taken to be complete

indexVars == <<stored, cache, index, reader, mixed>>

None == "none"

ChainWeight(c) == FoldFunction(+, 0, [k \in DOMAIN c |-> Weight[c[k]]])

Tip(c) == <<Len(c) - 1, Last(c)>>

Extensions(c) == {d \in Chain : Len(d) = Len(c) + 1 /\ Front(d) = c}

-----------------------------------------------------------------------------
(* Entries written over older ones. *)
Over(f, g) == [x \in DOMAIN f \cup DOMAIN g |-> IF x \in DOMAIN f THEN f[x] ELSE g[x]]

(* What a block adds to the indexes.  Its hash and its operations, each    *)
(* with the height and the place in the block;                             *)
PlaceIn(b, key) ==
  IF key = b THEN 0 ELSE CHOOSE i \in DOMAIN Content[b] : Content[b][i] = key

KeysOf(b) == {b} \cup Range(Content[b])

BlockEntries(b, height) == [key \in KeysOf(b) |-> <<height, PlaceIn(b, key)>>]

(* the coins of its operations, named after the operation and not after    *)
(* the block;                                                              *)
BlockCoins(b, height) == [op \in Range(Content[b]) |-> height]

(* and the activities of a program that mines every block and takes part   *)
(* in every operation: the emission sorts before the operations.           *)
BlockActivities(b, height) ==
  {<<height, 0, 0>>} \cup {<<height, 1, i>> : i \in DOMAIN Content[b]}

At(c, key) == CHOOSE k \in DOMAIN c : key \in KeysOf(c[k])

Entries(c) ==
  [key \in UNION {KeysOf(c[k]) : k \in DOMAIN c} |-> BlockEntries(c[At(c, key)], At(c, key) - 1)[key]]

Coins(c) ==
  [op \in UNION {Range(Content[c[k]]) : k \in DOMAIN c} |-> BlockCoins(c[At(c, op)], At(c, op) - 1)[op]]

Activities(c) == UNION {BlockActivities(c[k], k - 1) : k \in DOMAIN c}

KeepsOld(c) ==
  [tip |-> Tip(c), origins |-> TRUE, programs |-> TRUE,
   entries    |-> Over(Entries(c), index.entries),
   coins      |-> Over(Coins(c), index.coins),
   activities |-> Activities(c) \cup index.activities]

(* The indexes cleared and filled again from a chain.                      *)
Rebuilt(c) ==
  [tip |-> Tip(c), origins |-> TRUE, programs |-> TRUE,
   entries |-> Entries(c), coins |-> Coins(c), activities |-> Activities(c)]

IdleReader == [pc |-> "idle", ledger |-> <<>>, want |-> None, coin |-> FALSE,
         found |-> <<>>, undisturbed |-> TRUE]

(* A database at genesis, or an older one whose indexes were never built.  *)
IndexInit ==
  /\ stored \in {c \in Chain : Len(c) <= 2}
  /\ cache = stored
  /\ \/ /\ Len(stored) = 1
        /\ index = [tip |-> Tip(stored), origins |-> TRUE, programs |-> FALSE,
                    entries |-> Entries(stored), coins |-> Coins(stored),
                    activities |-> Activities(stored)]
     \/ index = [tip |-> <<>>, origins |-> FALSE, programs |-> FALSE,
                 entries |-> <<>>, coins |-> <<>>, activities |-> {}]
  /\ reader = [r \in Reader |-> IdleReader]
  /\ mixed = FALSE

-----------------------------------------------------------------------------
(* The node.  It stores first and publishes the new ledger after.          *)

(* Every other reader that has checked the indexes is now too late.        *)
Disturb(others) ==
  [r \in Reader |-> IF r \in others /\ reader[r].pc # "idle" THEN [reader[r] EXCEPT !.undisturbed = FALSE] ELSE reader[r]]

(* Only the height of the previous tip is compared.                        *)
WereComplete(height) ==
  height = 0 \/ (index.tip # <<>> /\ index.origins /\ index.tip[1] + 1 = height)

(* insert_coin_origins refuses a coin that has an origin already.          *)
Appendable(c) == \A op \in Range(Content[Last(c)]) : op \notin DOMAIN index.coins

AppendBlock(c) ==
  LET b == Last(c)
      height == Len(c) - 1
      complete == WereComplete(height)
  IN  /\ cache = stored /\ c \in Extensions(stored)
      /\ Appendable(c)
      /\ stored' = c
      /\ index' = [index EXCEPT
           !.tip     = IF complete THEN Tip(c) ELSE @,
           !.origins = @ \/ complete,
           !.entries = Over(BlockEntries(b, height), @),
           !.coins   = Over(BlockCoins(b, height), @),
           !.activities = @ \cup BlockActivities(b, height)]
      /\ mixed' = (mixed \/ (complete /\ index.tip # <<>> /\ index.tip[2] \notin Range(stored)))
      /\ reader' = Disturb(Reader)
      /\ UNCHANGED cache

(* A heavier branch replaces the blocks and every index.                   *)
ReplaceBlocks(c) ==
  /\ cache = stored
  /\ ChainWeight(c) > ChainWeight(stored) /\ ~IsPrefix(stored, c)
  /\ stored' = c
  /\ index' = Rebuilt(c)
  /\ mixed' = FALSE
  /\ reader' = Disturb(Reader)
  /\ UNCHANGED cache

Publish ==
  /\ cache # stored
  /\ cache' = stored
  /\ UNCHANGED <<stored, index, reader, mixed>>

-----------------------------------------------------------------------------
(* A reader takes the published ledger and looks something up.             *)

Pin(r, key, coin) ==
  /\ reader[r].pc = "idle"
  /\ reader' = [reader EXCEPT ![r] =
       [IdleReader EXCEPT !.pc = "check", !.ledger = cache, !.want = key, !.coin = coin]]
  /\ UNCHANGED <<stored, cache, index, mixed>>

(* canonical_index_tip: none unless both versions are there.               *)
IndexTip == IF index.origins /\ index.programs THEN index.tip ELSE <<>>

SameHeight(ledger) == IndexTip # <<>> /\ IndexTip[1] = Len(ledger) - 1

UpToDate(ledger) == IndexTip = Tip(ledger)

CheckTip(r) ==
  /\ reader[r].pc = "check"
  /\ reader' = [reader EXCEPT ![r].pc = IF UpToDate(reader[r].ledger) THEN "lookup" ELSE "rebuild",
                              ![r].undisturbed = TRUE]
  /\ UNCHANGED <<stored, cache, index, mixed>>

(* canonical_block: the body in memory, or the one in the database if it   *)
(* is the block of the ledger's header.                                    *)
HasBody(ledger, k) ==
  \/ k = 1 \/ k > Len(ledger) - Resident
  \/ k <= Len(stored) /\ stored[k] = ledger[k]

(* An error is reported.                                                   *)
ReportError(r) == reader' = [reader EXCEPT ![r] = IdleReader]

Rebuild(r) ==
  LET ledger == reader[r].ledger
  IN  /\ reader[r].pc = "rebuild"
      /\ IF \A k \in DOMAIN ledger : HasBody(ledger, k)
         THEN /\ index' = Rebuilt(ledger)
              /\ mixed' = FALSE
              /\ reader' = [Disturb(Reader \ {r}) EXCEPT ![r].pc = "lookup", ![r].undisturbed = TRUE]
         ELSE ReportError(r) /\ UNCHANGED <<index, mixed>>
      /\ UNCHANGED <<stored, cache>>

(* The place found, or none.                                               *)
Answer(r, place) == reader' = [reader EXCEPT ![r].pc = "answered", ![r].found = place]

(* The origin of a coin is answered as it is found.                        *)
LookupCoin(r) ==
  LET key == reader[r].want
  IN  /\ reader[r].pc = "lookup" /\ reader[r].coin
      /\ Answer(r, IF key \in DOMAIN index.coins THEN <<index.coins[key]>> ELSE <<>>)
      /\ UNCHANGED <<stored, cache, index, mixed>>

Lookup(r) ==
  LET key == reader[r].want
  IN  /\ reader[r].pc = "lookup" /\ ~reader[r].coin
      /\ IF key \in DOMAIN index.entries
         THEN reader' = [reader EXCEPT ![r].pc = "fetch", ![r].found = index.entries[key]]
         ELSE Answer(r, <<>>)
      /\ UNCHANGED <<stored, cache, index, mixed>>

(* The block there is read and must hold what was looked for.              *)
Confirms(ledger, key, place) ==
  LET k == place[1] + 1
  IN  /\ k \in DOMAIN ledger /\ HasBody(ledger, k)
      /\ key \in KeysOf(ledger[k]) /\ PlaceIn(ledger[k], key) = place[2]

FetchBlock(r) ==
  /\ reader[r].pc = "fetch"
  /\ IF Confirms(reader[r].ledger, reader[r].want, reader[r].found)
     THEN Answer(r, reader[r].found)
     ELSE ReportError(r)
  /\ UNCHANGED <<stored, cache, index, mixed>>

Finish(r) ==
  /\ reader[r].pc = "answered"
  /\ reader' = [reader EXCEPT ![r] = IdleReader]
  /\ UNCHANGED <<stored, cache, index, mixed>>

-----------------------------------------------------------------------------
Read(r) == CheckTip(r) \/ Rebuild(r) \/ Lookup(r) \/ LookupCoin(r) \/ FetchBlock(r) \/ Finish(r)

IndexNext ==
  \/ \E c \in Chain : AppendBlock(c) \/ ReplaceBlocks(c)
  \/ Publish
  \/ \E r \in Reader, key \in Wanted : Pin(r, key, FALSE)
  \/ \E r \in Reader, key \in Wanted \cap Operation : Pin(r, key, TRUE)
  \/ \E r \in Reader : Read(r)

IndexSpec == IndexInit /\ [][IndexNext]_indexVars

-----------------------------------------------------------------------------
(* The indexes stand in the way of a block only while they describe a      *)
(* branch that is not stored any more, or after an append took the indexes *)
(* of such a branch to be complete (mixed).                                *)
RefusedOnlyByOtherBranch ==
  \A c \in Extensions(stored) :
    Appendable(c) \/ mixed \/ (index.tip # <<>> /\ index.tip[2] \notin Range(stored))

(* What is in the reader's ledger is found, and a coin's origin is right,  *)
(* unless the database was written between the reader's check of the       *)
(* indexes and its answer, or an append took the indexes of a replaced     *)
(* branch of fitting height to be complete (mixed).                        *)
WrongOnlyByRace ==
  \A r \in Reader :
    LET q == reader[r]
        truth == IF q.coin THEN [op \in DOMAIN Coins(q.ledger) |-> <<Coins(q.ledger)[op]>>]
                 ELSE Entries(q.ledger)
    IN  (q.pc = "answered" /\ q.undisturbed /\ ~mixed /\ q.want \in DOMAIN truth) =>
          q.found = truth[q.want]

=============================================================================
