----------------------------- MODULE ScalarCode -----------------------------
(***************************************************************************)
(* Scalar XPVM code, versions 1 to 3: validate_code, which admits code at  *)
(* its deployment, and execute_code_with_state, whose expect, index and    *)
(* unreachable! rely on what was validated (kernel/src/program/vm/).       *)
(*                                                                         *)
(* A body is a sequence of instructions.  Its bytes are chosen as the      *)
(* validator reads them: it looks at no byte before it gets there, except  *)
(* that a return asks whether any follow.  An operand is what its decoder  *)
(* makes of it: sound, of amount zero, or bad (truncated or malformed).    *)
(* Every execution validates the code again, with the same result.         *)
(***************************************************************************)
EXTENDS Integers, Sequences, FiniteSets

CONSTANTS
  Int64,            \* the values of an i64
  MaxStackItems,    \* MAX_STACK_ITEMS
  MaxMemoryPages,   \* MAX_MEMORY_PAGES
  Limits,           \* stack limits, pages and entries a header may state
  FuelLimits,       \* fuel ceilings of the calls
  MaxBody           \* bound: instructions of a body

ASSUME ScalarAssumption ==
  /\ Int64 \subseteq Int /\ 0 \in Int64
  /\ MaxStackItems \in Nat /\ MaxMemoryPages \in Nat
  /\ Limits \subseteq Nat /\ FuelLimits \subseteq Nat /\ MaxBody \in Nat

Version == 1 .. 3
IssuanceVersion == 3

Monetary == {"coin", "asset", "register", "mint"}
Opcode   == {"nop", "const", "add", "return", "get", "set", "other"} \cup Monetary
Form     == {"ok", "bad", "zero", "registered"}

(* An opcode and what its operand decodes to. *)
Instruction ==
  {i \in [op : Opcode, form : Form, value : Int64] :
     /\ i.form = "bad" => i.op \in {"const"} \cup Monetary
     /\ i.form = "zero" => i.op \in {"coin", "asset", "mint"}
     /\ i.form = "registered" => i.op = "mint"
     /\ (i.op # "const" \/ i.form = "bad") => i.value = 0}

Absent == "none"

VARIABLES
  phase,      \* "read", "refused", "ready" or "run"
  header,     \* version, stack limit, pages and entry offset
  body,       \* the instructions read
  marks,      \* depth, fuel and kinds seen before each instruction, and now
  record,     \* the program's state_value in the registry
  cursor, stack, state_value, effect, requests,  \* of execute_code_with_state
  spent       \* history: the cost of what the current execution did

validator   == <<header, body, marks>>
interpreter == <<cursor, stack, state_value, effect, requests, spent>>
codeVars == <<phase, validator, record, interpreter>>

HeaderAdmitted ==
  header.stack # 0 /\ header.stack <= MaxStackItems /\ header.pages <= MaxMemoryPages

NoRequest == [k \in Monetary |-> Absent]
Start     == [depth |-> 0, fuel |-> 0, seen |-> {}]

CodeInit ==
  /\ header \in [version : Version, stack : Limits, pages : Limits, entry : Limits]
  /\ phase = IF HeaderAdmitted THEN "read" ELSE "refused"
  /\ body = <<>> /\ marks = <<Start>>
  /\ record = 0
  /\ cursor = 1 /\ stack = <<>> /\ state_value = 0 /\ effect = <<>>
  /\ requests = NoRequest /\ spent = 0

-----------------------------------------------------------------------------
(* validate_code                                                           *)
Cost(op) ==
  IF op = "get" THEN 2
  ELSE IF op = "set" THEN 5
  ELSE IF op \in {"coin", "asset", "mint"} THEN 20
  ELSE IF op = "register" THEN 40
  ELSE 1

DepthAfter(op, d) ==
  IF op \in {"const", "get"} THEN d + 1 ELSE IF op \in {"add", "set"} THEN d - 1 ELSE d

NeedsOne(op) == IF op \in {"add", "set"} THEN 1 ELSE 0

(* The depth an instruction needs below it. *)
Needs(op) == IF op = "add" THEN 2 ELSE IF op \in {"set", "return"} THEN 1 ELSE 0

(* Versions gate the monetary instructions, each comes once, a register    *)
(* before any mint, and a mint of the registered asset after it.           *)
MonetaryAllowed(i, seen) ==
  /\ i.op \in {"coin", "asset"} => header.version >= 2
  /\ i.op \in {"register", "mint"} => header.version = IssuanceVersion
  /\ i.op \in Monetary => i.op \notin seen
  /\ i.op = "register" => "mint" \notin seen
  /\ i.form # "zero"
  /\ i.form = "registered" => "register" \in seen

WellFormed(i) == i.op # "other" /\ i.form # "bad"

Admitted(i, m) ==
  /\ WellFormed(i)
  /\ MonetaryAllowed(i, m.seen)
  /\ m.depth >= Needs(i.op)
  /\ i.op = "return" => m.depth = 1
  /\ DepthAfter(i.op, m.depth) <= header.stack

MarkAfter(i, m) ==
  [depth |-> DepthAfter(i.op, m.depth),
   fuel  |-> m.fuel + Cost(i.op),
   seen  |-> m.seen \cup ({i.op} \cap Monetary)]

Now == marks[Len(marks)]

(* The next instruction: a return only as the last, and only if the entry  *)
(* is the first.                                                           *)
Read(i, last) ==
  /\ phase = "read"
  /\ Len(body) < MaxBody
  /\ IF Admitted(i, Now) /\ (i.op = "return" => last /\ header.entry = 0)
     THEN /\ body' = Append(body, i)
          /\ marks' = Append(marks, MarkAfter(i, Now))
          /\ phase' = IF i.op = "return" THEN "ready" ELSE "read"
     ELSE /\ phase' = "refused"
          /\ UNCHANGED <<body, marks>>
  /\ UNCHANGED <<header, record, interpreter>>

(* The body ends without a return. *)
MissingReturn ==
  /\ phase = "read"
  /\ phase' = "refused"
  /\ UNCHANGED <<validator, record, interpreter>>

-----------------------------------------------------------------------------
(* execute_code_with_state                                                 *)
FuelUsed == header.pages + Now.fuel

(* A call with enough fuel; with less nothing happens. *)
Execute(limit) ==
  /\ phase = "ready"
  /\ FuelUsed <= limit
  /\ phase' = "run"
  /\ cursor' = 1
  /\ stack' = <<>>
  /\ state_value' = record
  /\ effect' = <<>>
  /\ requests' = NoRequest
  /\ spent' = header.pages
  /\ UNCHANGED <<validator, record>>

Push(v) == Append(stack, v)
Under(n) == SubSeq(stack, 1, Len(stack) - n)
Top == stack[Len(stack)]
Second == stack[Len(stack) - 1]

Pops(op) == IF op = "add" THEN 2 ELSE IF op \in {"set", "return"} THEN 1 ELSE 0

(* What the next instruction would make an expect, an index or the         *)
(* unreachable! panic on.                                                  *)
Panics ==
  \/ cursor > Len(body)
  \/ /\ cursor <= Len(body)
     /\ \/ ~WellFormed(body[cursor])
        \/ Len(stack) < Pops(body[cursor].op)

At(op) == phase = "run" /\ ~Panics /\ body[cursor].op = op

Advance ==
  /\ cursor' = cursor + 1
  /\ spent' = spent + Cost(body[cursor].op)
  /\ UNCHANGED <<phase, validator, record>>

Nop == At("nop") /\ Advance /\ UNCHANGED <<stack, state_value, effect, requests>>

Const ==
  /\ At("const") /\ Advance
  /\ stack' = Push(body[cursor].value)
  /\ UNCHANGED <<state_value, effect, requests>>

Sum == Second + Top

Add ==
  /\ At("add") /\ Sum \in Int64 /\ Advance
  /\ stack' = Append(Under(2), Sum)
  /\ UNCHANGED <<state_value, effect, requests>>

(* An overflow ends the execution with an error and no effect. *)
Overflow ==
  /\ At("add") /\ Sum \notin Int64
  /\ phase' = "ready"
  /\ UNCHANGED <<validator, record, interpreter>>

StateGet ==
  /\ At("get") /\ Advance
  /\ stack' = Push(state_value)
  /\ UNCHANGED <<state_value, effect, requests>>

StateSet ==
  /\ At("set") /\ Advance
  /\ state_value' = Top
  /\ effect' = <<Top>>
  /\ stack' = Under(1)
  /\ UNCHANGED requests

Request(k) ==
  /\ At(k) /\ Advance
  /\ requests' = [requests EXCEPT ![k] = body[cursor].form]
  /\ UNCHANGED <<stack, state_value, effect>>

HasMonetaryEffects == \E k \in Monetary : requests[k] # Absent

(* The result.  Engine::call settles the requests, and writes the state    *)
(* when that succeeded; what settling does is the model of program calls'. *)
ReturnResult(settled) ==
  /\ At("return")
  /\ ~settled => HasMonetaryEffects
  /\ record' = IF settled /\ effect # <<>> THEN effect[1] ELSE record
  /\ phase' = "ready"
  /\ stack' = Under(1)
  /\ spent' = spent + Cost("return")
  /\ UNCHANGED <<validator, cursor, state_value, effect, requests>>

Step ==
  \/ Nop \/ Const \/ Add \/ Overflow \/ StateGet \/ StateSet
  \/ \E k \in Monetary : Request(k)
  \/ \E settled \in BOOLEAN : ReturnResult(settled)

Validate ==
  \/ \E i \in Instruction, last \in BOOLEAN : Read(i, last)
  \/ MissingReturn

CodeNext == Validate \/ (\E limit \in FuelLimits : Execute(limit)) \/ Step

CodeSpec == CodeInit /\ [][CodeNext]_codeVars

-----------------------------------------------------------------------------
Mark == [depth : Nat, fuel : Nat, seen : SUBSET Monetary]

TypeOK ==
  /\ phase \in {"read", "refused", "ready", "run"}
  /\ header \in [version : Version, stack : Nat, pages : Nat, entry : Nat]
  /\ body \in Seq(Instruction)
  /\ marks \in Seq(Mark) /\ Len(marks) = Len(body) + 1
  /\ record \in Int64 /\ state_value \in Int64
  /\ cursor \in Nat \ {0}
  /\ stack \in Seq(Int64)
  /\ effect \in {<<>>} \cup {<<v>> : v \in Int64}
  /\ requests \in [Monetary -> {Absent} \cup Form]
  /\ spent \in Nat

(* Deployed code never panics the interpreter: no expect, index or           *)
(* unreachable! of interpreter.rs:57-119 fires on what validate_code         *)
(* admitted, whatever the program's state and the order of the calls.        *)
NoPanic == phase = "run" => ~Panics

(* The execution follows the validator's account of it: at every instruction *)
(* the stack is as deep, the fuel spent is what was counted and the requests *)
(* are those seen, so the ceiling checked before the first instruction       *)
(* covers all of them and the stack stays within the header's limit.         *)
FollowsValidator ==
  phase = "run" =>
    /\ cursor <= Len(body)
    /\ Len(stack) = marks[cursor].depth
    /\ spent = header.pages + marks[cursor].fuel
    /\ {k \in Monetary : requests[k] # Absent} = marks[cursor].seen
    /\ Len(stack) <= header.stack
    /\ spent < FuelUsed

(* What is handed to settlement can be settled in its order - coin, register, *)
(* mint, transfer (vm_transfer/asset.rs:30-95): a mint of "the asset resolved *)
(* by the preceding registration" has one, no amount is zero, and no version  *)
(* asks for more than it may.                                                 *)
RequestsSettleable ==
  /\ requests["mint"] = "registered" => requests["register"] # Absent
  /\ \A k \in Monetary : requests[k] \notin {"zero", "bad"}
  /\ header.version = 1 => ~HasMonetaryEffects
  /\ header.version = 2 => requests["register"] = Absent /\ requests["mint"] = Absent

(* An execution never replaces a request it made: a result has one slot of   *)
(* each kind, and a second request would silently drop the first.            *)
NoRequestLost ==
  [][phase = "run" =>
       \A k \in Monetary : requests[k] # Absent /\ phase' = "run"
                             => requests'[k] = requests[k] /\ body[cursor].op # k]_codeVars

=============================================================================
