---------------------------- MODULE ProgramCalls ----------------------------
(***************************************************************************)
(* The execution of a program invocation.  Programs call one another,      *)
(* write their state and storage and move the coins they own, on a staged  *)
(* copy of the ledger that replaces it when the root call returns and the  *)
(* payment has been made.  The engine keeps a journal that undoes the      *)
(* whole invocation and a lookup of the coins of the programs that asked   *)
(* for them.                                                               *)
(*                                                                         *)
(* kernel/src/program/vm_app/{engine, execution}.rs, vm_app/engine/        *)
(* {interpreter, settlement}.rs, vm_transfer/coin.rs, deploy.rs and        *)
(* kernel/src/ledger/applied/{program_call, rollback}.rs.                  *)
(*                                                                         *)
(* An application does whatever its instructions are: each step chooses    *)
(* the next one.  Any step may instead fail (a revert, no fuel left, a     *)
(* limit), which ends the invocation: no caller can go on after an error.  *)
(* Code of an older version (Legacy) runs in one step and has at most one  *)
(* transfer and one state effect.  Assets are left out; the fees and       *)
(* checks of the payment are in LedgerState.                               *)
(***************************************************************************)
EXTENDS Integers, Sequences, FiniteSets, FiniteSetsExt, Functions

CONSTANTS
  Application, Legacy,   \* programs of the current and of the older version
  Outside,               \* an owner that is not a program
  Key, Value, Scalar, Amount,
  FirstCoins,            \* the coins of the first state, their ids tagged 0
  MAX_CALL_DEPTH, MAX_CALLS, MAX_ACTIONS, MAX_TRANSFER_INPUTS,
  MaxDone                \* bound on the invocations that can be undone

Program == Application \cup Legacy

ASSUME CallsAssumption ==
  /\ Application \cap Legacy = {} /\ Outside \notin Program
  /\ {MAX_CALL_DEPTH, MAX_CALLS, MAX_ACTIONS, MAX_TRANSFER_INPUTS, MaxDone} \subseteq Nat
  /\ Scalar \subseteq Nat /\ Amount \subseteq Nat \ {0}
  /\ FirstCoins \in [DOMAIN FirstCoins -> [owner : Program \cup {Outside}, amount : Nat \ {0}]]
  /\ \A i \in DOMAIN FirstCoins : i[1] = 0

VARIABLES
  ledger,   \* the ledger: scalars, storage and coins
  staged,   \* the copy an invocation works on
  active,   \* the programs being called, the innermost last
  engine,   \* calls and actions so far, the lookup of coins, the journal
  done      \* of each invocation applied, its journal and the ledger before it

vars == <<ledger, staged, active, engine, done>>

None == "none"

EmptyMap == [x \in {} |-> 0]

Put(f, key, value) == [k \in DOMAIN f \cup {key} |-> IF k = key THEN value ELSE f[k]]

(* entry(key).or_insert(previous) *)
KeepFirst(f, key, previous) == IF key \in DOMAIN f THEN f ELSE Put(f, key, previous)

(* The entries of f, and those of g whose keys f has not.                  *)
Over(f, g) == [x \in DOMAIN f \cup DOMAIN g |-> IF x \in DOMAIN f THEN f[x] ELSE g[x]]

Worth(coins, ids) == MapThenSumSet(LAMBDA i : coins[i].amount, ids)

CoinsOf(coins, owner) == {i \in DOMAIN coins : coins[i].owner = owner}

Without(coins, ids) == Restrict(coins, DOMAIN coins \ ids)

FreshEngine ==
  [calls |-> 0, actions |-> 0, account |-> EmptyMap,
   journal |-> [consumed |-> EmptyMap, created |-> {},
                states |-> EmptyMap, storage |-> EmptyMap]]

Init ==
  /\ ledger = [scalar  |-> [p \in Program |-> 0],
               storage |-> [x \in Program \X Key |-> None],
               coins   |-> FirstCoins]
  /\ staged = ledger /\ active = <<>> /\ engine = FreshEngine /\ done = <<>>

Running == active # <<>>

-----------------------------------------------------------------------------
(* Coins.  The lookup of a program is built when it first needs it ...     *)

EnsureAccounts(account, coins, p) ==
  KeepFirst(account, p, [balance |-> Worth(coins, CoinsOf(coins, p)), ids |-> CoinsOf(coins, p)])

(* ... and follows every coin consumed or created by anyone.               *)
Follow(account, coins, gone, made) ==
  [q \in DOMAIN account |->
     LET mine == CoinsOf(made, q)
     IN  [balance |-> account[q].balance - Worth(coins, gone \cap CoinsOf(coins, q)) + Worth(made, mine),
          ids     |-> (account[q].ids \ gone) \cup mine]]

(* What the journal records of coins moved: a coin the invocation itself   *)
(* made and spent leaves no trace.                                         *)
Record(journal, coins, gone, made) ==
  [journal EXCEPT !.consumed = Over(@, Restrict(coins, gone \ journal.created)),
                  !.created  = (@ \ gone) \cup DOMAIN made]

(* Coins taken in some order until they are worth the amount: the last one *)
(* was needed.                                                             *)
Reaches(coins, chosen, amount) ==
  /\ Cardinality(chosen) <= MAX_TRANSFER_INPUTS
  /\ Worth(coins, chosen) >= amount

LegacySelections(coins, ids, amount) ==
  {chosen \in SUBSET ids :
     /\ Reaches(coins, chosen, amount)
     /\ \E i \in chosen : Worth(coins, chosen \ {i}) < amount}

(* An application spends its largest coins first.                          *)
Selections(coins, ids, amount) ==
  {chosen \in SUBSET ids :
     /\ Reaches(coins, chosen, amount)
     /\ \A i \in chosen, j \in ids \ chosen : coins[i].amount >= coins[j].amount
     /\ \E i \in chosen : /\ \A j \in chosen : coins[i].amount <= coins[j].amount
                          /\ Worth(coins, chosen \ {i}) < amount}

(* The hash of the invocation's commitment, the program, the number of the *)
(* action (0: not mixed in) and the output's index.                        *)
OutputId(tag, p, action, index) == <<tag, p, action, index>>

Tag == Len(done) + 1

CoinOutputs(p, action, to, amount, change) ==
  [i \in {OutputId(Tag, p, action, x) : x \in IF change = 0 THEN {0} ELSE {0, 1}} |->
     IF i = OutputId(Tag, p, action, 0) THEN [owner |-> to, amount |-> amount]
     ELSE [owner |-> p, amount |-> change]]

(* settle: the copies and engines that p's sending the amount can lead to. *)
(* A root call of older code selects by coin id and does not mix the       *)
(* action's number into the ids.                                           *)
Settle(state, eng, p, to, amount, legacyRoot) ==
  LET coins   == state.coins
      account == EnsureAccounts(eng.account, coins, p)
      choices == IF legacyRoot THEN LegacySelections(coins, CoinsOf(coins, p), amount)
                 ELSE Selections(coins, account[p].ids, amount)
      action  == eng.actions + 1
      Made(chosen) == CoinOutputs(p, IF legacyRoot THEN 0 ELSE action, to, amount,
                                  Worth(coins, chosen) - amount)
      After(chosen, made) ==
        [state  |-> [state EXCEPT !.coins = Over(Without(coins, chosen), made)],
         engine |-> [eng EXCEPT !.actions = action,
                                !.account = Follow(account, coins, chosen, made),
                                !.journal = Record(@, coins, chosen, made)]]
  IN  {After(chosen, Made(chosen)) : chosen \in
         {c \in choices : action <= MAX_ACTIONS /\ DOMAIN Made(c) \cap DOMAIN coins = {}}}

LastPrevious(f, key, previous) == Put(f, key, previous)

(* The journal keeps the first previous value of what is written.          *)
Previous(f, key, previous) == KeepFirst(f, key, previous)

(* set_state *)
WriteScalar(state, eng, p, n) ==
  [state  |-> [state EXCEPT !.scalar[p] = n],
   engine |-> [eng EXCEPT !.journal.states = Previous(@, p, state.scalar[p])]]

Become(result) == staged' = result.state /\ engine' = result.engine

-----------------------------------------------------------------------------
(* Instructions of the innermost program, an application.                  *)

Self == active[Len(active)]

Executing == Running /\ Self \in Application

TransferCoin(to, amount) ==
  /\ Executing
  /\ \E result \in Settle(staged, engine, Self, to, amount, FALSE) : Become(result)
  /\ UNCHANGED <<ledger, active, done>>

ReadBalance ==
  /\ Executing
  /\ engine' = [engine EXCEPT !.account = EnsureAccounts(@, staged.coins, Self)]
  /\ UNCHANGED <<ledger, staged, active, done>>

SetState(n) ==
  /\ Executing /\ engine.actions < MAX_ACTIONS
  /\ Become(WriteScalar(staged, [engine EXCEPT !.actions = @ + 1], Self, n))
  /\ UNCHANGED <<ledger, active, done>>

(* Puts a value, or removes the entry.                                     *)
SetStorage(key, value) ==
  /\ Executing /\ engine.actions < MAX_ACTIONS
  /\ staged' = [staged EXCEPT !.storage[<<Self, key>>] = value]
  /\ engine' = [engine EXCEPT
       !.actions = @ + 1,
       !.journal.storage = Previous(@, <<Self, key>>, staged.storage[<<Self, key>>])]
  /\ UNCHANGED <<ledger, active, done>>

-----------------------------------------------------------------------------
AdmitsAgain(p) == Len(active) < MAX_CALL_DEPTH /\ engine.calls < MAX_CALLS

(* The checks of a call: no program is called while it is active.          *)
Admits(p) ==
  /\ Len(active) < MAX_CALL_DEPTH /\ engine.calls < MAX_CALLS
  /\ p \notin Range(active)

Counted(eng) == [eng EXCEPT !.calls = @ + 1]

(* What older code can lead to: a transfer or none, then a state or none.  *)
LegacyEffects(state, eng, p, root) ==
  LET Same == [state |-> state, engine |-> eng]
      sent == {Same} \cup UNION {Settle(state, eng, p, to, amount, root) :
                                 to \in Program \cup {Outside}, amount \in Amount}
  IN  sent \cup {WriteScalar(s.state, s.engine, p, n) : s \in sent, n \in Scalar}

(* The root call; older code runs to its end at once.                      *)
Begin(p) ==
  /\ ~Running /\ Len(done) < MaxDone
  /\ Admits(p)
  /\ active' = <<p>>
  /\ \/ p \in Application /\ engine' = Counted(engine) /\ UNCHANGED staged
     \/ p \in Legacy
        /\ \E result \in LegacyEffects(staged, Counted(engine), p, TRUE) : Become(result)
  /\ UNCHANGED <<ledger, done>>

(* An application calls another program.  Older code has returned when the *)
(* step ends.                                                              *)
Enter(p, state, eng) ==
  \/ /\ p \in Application
     /\ active' = Append(active, p)
     /\ staged' = state /\ engine' = Counted(eng)
  \/ /\ p \in Legacy
     /\ \E result \in LegacyEffects(state, Counted(eng), p, FALSE) : Become(result)
     /\ UNCHANGED active

Call(p) ==
  /\ Executing /\ Admits(p)
  /\ Enter(p, staged, engine)
  /\ UNCHANGED <<ledger, done>>

(* Coins are sent to the program, then it is called.                       *)
CallWithDeposit(p, amount) ==
  /\ Executing /\ Admits(p)
  /\ \E sent \in Settle(staged, engine, Self, p, amount, FALSE) :
       Enter(p, sent.state, sent.engine)
  /\ UNCHANGED <<ledger, done>>

Return ==
  /\ Len(active) > 1
  /\ active' = SubSeq(active, 1, Len(active) - 1)
  /\ UNCHANGED <<ledger, staged, engine, done>>

(* Any error of any call: the staged copy is discarded.                    *)
Fail ==
  /\ Running
  /\ active' = <<>> /\ engine' = FreshEngine /\ staged' = ledger
  /\ UNCHANGED <<ledger, done>>

-----------------------------------------------------------------------------
(* The payment may hand a coin of the signer to the program it calls: a    *)
(* deposit arrives after the code has run.                                 *)
Pay(state, journal, paid, to) ==
  LET made == [i \in {OutputId(Tag, Outside, 0, 0) : x \in paid} |->
                 [owner |-> to, amount |-> Worth(state.coins, paid)]]
  IN  [state   |-> [state EXCEPT !.coins = Over(Without(@, paid), made)],
       journal |-> [journal EXCEPT !.consumed = Over(Restrict(state.coins, paid), @),
                                   !.created  = DOMAIN made \cup @]]

Payments == {{}} \cup {{i} : i \in CoinsOf(ledger.coins, Outside)}

(* The root call has returned: the copy, paid for, replaces the ledger.    *)
Commit(paid) ==
  /\ Len(active) = 1
  /\ LET result == Pay(staged, engine.journal, paid, Self)
     IN  /\ ledger' = result.state /\ staged' = result.state
         /\ done' = Append(done, [journal |-> result.journal, before |-> ledger])
  /\ active' = <<>> /\ engine' = FreshEngine

(* rollback_coin accepts only journals that fit the state.                 *)
Fits(state, journal) ==
  /\ journal.created \subseteq DOMAIN state.coins
  /\ DOMAIN journal.consumed \cap (DOMAIN state.coins \ journal.created) = {}

Undone(state, journal) ==
  [scalar  |-> Over(journal.states, state.scalar),
   storage |-> Over(journal.storage, state.storage),
   coins   |-> Over(Without(state.coins, journal.created), journal.consumed)]

Rollback ==
  /\ ~Running /\ done # <<>>
  /\ Fits(ledger, done[Len(done)].journal)
  /\ ledger' = Undone(ledger, done[Len(done)].journal) /\ staged' = ledger'
  /\ done' = SubSeq(done, 1, Len(done) - 1)
  /\ UNCHANGED <<active, engine>>

InstructionStep ==
  \/ \E to \in Program \cup {Outside}, amount \in Amount : TransferCoin(to, amount)
  \/ ReadBalance
  \/ \E n \in Scalar : SetState(n)
  \/ \E key \in Key, value \in Value \cup {None} : SetStorage(key, value)
  \/ \E p \in Program : Call(p)
  \/ \E p \in Program, amount \in Amount : CallWithDeposit(p, amount)
  \/ Return
  \/ Fail

Next ==
  \/ \E p \in Program : Begin(p)
  \/ InstructionStep
  \/ \E paid \in Payments : Commit(paid)
  \/ Rollback

Spec == Init /\ [][Next]_vars

-----------------------------------------------------------------------------
(* Every invocation applied can be undone, newest first: its journal is    *)
(* accepted and leads back to the very ledger it was applied to, however   *)
(* its calls were nested and whatever they wrote more than once.           *)
RollbackRestores ==
  \A k \in 1 .. Len(done) :
    LET after == IF k = Len(done) THEN ledger ELSE done[k + 1].before
    IN  Fits(after, done[k].journal) /\ Undone(after, done[k].journal) = done[k].before

(* While a program waits for a program it called, nothing it owns changes  *)
(* under it: its state and storage stay and its coins can only be added    *)
(* to, until the call returns or the invocation fails.                     *)
WaitingUntouched ==
  [][active' # <<>> =>
      \A k \in 1 .. Len(active) - 1 :
        LET p == active[k]
        IN  /\ staged'.scalar[p] = staged.scalar[p]
            /\ \A key \in Key : staged'.storage[<<p, key>>] = staged.storage[<<p, key>>]
            /\ CoinsOf(staged.coins, p) \subseteq CoinsOf(staged'.coins, p)]_vars
=============================================================================
