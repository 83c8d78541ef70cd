--------------------------- MODULE ProgramProofs ----------------------------
(***************************************************************************)
(* Program execution, in two parts.  Deployed scalar code (ScalarCode)     *)
(* runs as its validation said, whatever its length, its header, its state *)
(* and the calls made of it.  Every journal of an invocation               *)
(* (ProgramCalls) leads back to the ledger before it, and a program that   *)
(* waits for a call is not touched.                                        *)
(*                                                                         *)
(* Scalar code: the marks validate_code leaves are a run of its own        *)
(* (Checked), and the interpreter is at every instruction where the marks  *)
(* are (FollowsValidator).  A return is the last instruction and only the  *)
(* last, so the cursor never leaves the body.                              *)
(*                                                                         *)
(* Invocations: after each instruction the journal of the staged copy      *)
(* undoes exactly what happened so far, and the lookup of a                *)
(* program's coins has exactly its coins (Sound).                          *)
(***************************************************************************)
EXTENDS ScalarCode, ProgramCalls, TLAPS

(* What validate_code has established of the instructions read so far. *)
Checked ==
  /\ marks[1] = Start
  /\ \A k \in 1 .. Len(body) : Admitted(body[k], marks[k])
  /\ \A k \in 1 .. Len(body) : marks[k + 1] = MarkAfter(body[k], marks[k])
  /\ \A k \in 1 .. Len(body) : marks[k].fuel < Now.fuel
  /\ \A k \in 1 .. Len(marks) : marks[k].depth <= header.stack

(* Where the return is. *)
ReturnLast ==
  /\ \A k \in 1 .. Len(body) : body[k].op = "return" => k = Len(body)
  /\ phase = "read" => \A k \in 1 .. Len(body) : body[k].op # "return"
  /\ phase \in {"ready", "run"} => Len(body) > 0 /\ body[Len(body)].op = "return"

(* The inductive invariant of validator and interpreter. *)
CodeInv == TypeOK /\ Checked /\ ReturnLast /\ FollowsValidator /\ RequestsSettleable

-----------------------------------------------------------------------------
(* Costs are positive: an instruction always uses fuel. *)
LEMMA CostPositive == ASSUME NEW op PROVE Cost(op) \in Nat \ {0}
  BY DEF Cost

(* What an admitted instruction makes of a mark is a mark, with more fuel    *)
(* and within the limit of the stack.                                        *)
LEMMA MarkStep ==
  ASSUME NEW i \in Instruction, NEW m \in Mark, Admitted(i, m)
  PROVE  /\ MarkAfter(i, m) \in Mark
         /\ MarkAfter(i, m).fuel > m.fuel
         /\ MarkAfter(i, m).depth <= header.stack
         /\ MarkAfter(i, m).depth = DepthAfter(i.op, m.depth)
         /\ MarkAfter(i, m).fuel = m.fuel + Cost(i.op)
         /\ MarkAfter(i, m).seen = m.seen \cup ({i.op} \cap Monetary)
<1>1. Cost(i.op) \in Nat \ {0}
  BY CostPositive, Zenon
<1>2. DepthAfter(i.op, m.depth) \in Nat
  BY DEF DepthAfter, Admitted, Needs, Mark
<1>3. DepthAfter(i.op, m.depth) <= header.stack
  BY Zenon DEF Admitted
<1> QED
  BY <1>1, <1>2, <1>3 DEF MarkAfter, Mark

(* Validation starts with nothing read and nothing asked for. *)
LEMMA CodeInitInv == CodeInit => CodeInv
<1> SUFFICES ASSUME CodeInit PROVE CodeInv
  BY Zenon
<1>0. /\ header \in [version : Version, stack : Nat, pages : Nat, entry : Nat]
      /\ phase \in {"read", "refused"}
      /\ body = <<>> /\ Len(body) = 0
      /\ marks = <<Start>> /\ Len(marks) = 1 /\ marks[1] = Start
      /\ Start \in Mark /\ Start.depth = 0
  BY ScalarAssumption, Zenon DEF CodeInit, Start, Mark
<1>1. TypeOK
  <2>1. NoRequest \in [Monetary -> {Absent} \cup Form]
    BY Zenon DEF NoRequest
  <2>2. body \in Seq(Instruction) /\ marks \in Seq(Mark)
    BY <1>0
  <2> QED
    BY <1>0, <2>1, <2>2, ScalarAssumption DEF CodeInit, TypeOK
<1>2. Checked
  BY <1>0 DEF Checked
<1>3. ReturnLast /\ FollowsValidator
  BY <1>0 DEF ReturnLast, FollowsValidator
<1>4. RequestsSettleable
  BY Zenon DEF CodeInit, RequestsSettleable, NoRequest, Absent, HasMonetaryEffects, Monetary
<1> QED
  BY <1>1, <1>2, <1>3, <1>4, Zenon DEF CodeInv

-----------------------------------------------------------------------------
(* Reading an instruction keeps the marks a run of the validator. *)
LEMMA ReadInv ==
  ASSUME CodeInv, NEW i \in Instruction, NEW last \in BOOLEAN, Read(i, last)
  PROVE  CodeInv'
<1> USE DEF CodeInv
<1>0. /\ phase = "read" /\ phase' # "run"
      /\ header' = header /\ record' = record /\ cursor' = cursor /\ stack' = stack
      /\ state_value' = state_value /\ effect' = effect /\ requests' = requests /\ spent' = spent
  BY Zenon DEF Read, interpreter
<1>1. FollowsValidator' /\ RequestsSettleable'
  BY <1>0, Zenon DEF FollowsValidator, RequestsSettleable, HasMonetaryEffects
<1>2. CASE ~(Admitted(i, Now) /\ (i.op = "return" => last /\ header.entry = 0))
  <2>1. phase' = "refused" /\ body' = body /\ marks' = marks
    BY <1>2, Zenon DEF Read
  <2>2. TypeOK'
    BY <1>0, <2>1, Zenon DEF TypeOK
  <2>3. Checked' /\ ReturnLast'
    BY <1>0, <2>1, Zenon DEF Checked, ReturnLast, Now, Admitted, MonetaryAllowed
  <2> QED
    BY <1>1, <2>2, <2>3, Zenon
<1>3. CASE Admitted(i, Now) /\ (i.op = "return" => last /\ header.entry = 0)
  <2> DEFINE n == Len(body)
  <2>1. /\ body' = Append(body, i)
        /\ marks' = Append(marks, MarkAfter(i, Now))
        /\ phase' = IF i.op = "return" THEN "ready" ELSE "read"
    BY <1>3, Zenon DEF Read
  <2>2. /\ n \in Nat /\ Len(marks) = n + 1 /\ Now = marks[n + 1] /\ Now \in Mark
    BY DEF TypeOK, Now
  <2>3. /\ MarkAfter(i, Now) \in Mark
        /\ MarkAfter(i, Now).fuel > Now.fuel
        /\ MarkAfter(i, Now).depth <= header.stack
    BY <1>3, <2>2, MarkStep, Zenon
  <2>4. /\ body' \in Seq(Instruction) /\ Len(body') = n + 1
        /\ marks' \in Seq(Mark) /\ Len(marks') = n + 2
        /\ \A k \in 1 .. n : body'[k] = body[k]
        /\ body'[n + 1] = i
        /\ \A k \in 1 .. n + 1 : marks'[k] = marks[k]
        /\ marks'[n + 2] = MarkAfter(i, Now)
    BY <2>1, <2>2, <2>3 DEF TypeOK
  <2>5. Now' = MarkAfter(i, Now)
    BY <2>2, <2>4, Zenon DEF Now
  <2>6. TypeOK'
    BY <1>0, <2>1, <2>2, <2>4, SMTT(30) DEF TypeOK
  <2>7. Checked'
    <3>1. marks'[1] = Start
      BY <2>2, <2>4 DEF Checked
    <3>2. \A k \in 1 .. n + 1 : Admitted(body'[k], marks'[k])
      BY <1>3, <2>2, <2>4 DEF Checked
    <3>4. \A k \in 1 .. n + 1 : marks'[k + 1] = MarkAfter(body'[k], marks'[k])
      BY <2>2, <2>4 DEF Checked
    <3>5. \A k \in 1 .. n + 1 : marks'[k].fuel < MarkAfter(i, Now).fuel
      <4> SUFFICES ASSUME NEW k \in 1 .. n + 1 PROVE marks[k].fuel < MarkAfter(i, Now).fuel
        BY <2>4, Zenon
      <4>0. marks[k] \in Mark
        BY <2>2 DEF TypeOK
      <4>1. marks[k].fuel <= Now.fuel /\ marks[k].fuel \in Nat /\ Now.fuel \in Nat
        <5>1. marks[k].fuel \in Nat /\ Now.fuel \in Nat
          BY <2>2, <4>0, Zenon DEF Mark
        <5>2. CASE k \in 1 .. n
          BY <5>1, <5>2 DEF Checked
        <5>3. CASE k = n + 1
          BY <2>2, <5>1, <5>3
        <5> QED
          BY <2>2, <5>1, <5>2, <5>3
      <4>2. MarkAfter(i, Now).fuel \in Nat
        BY <2>3, Zenon DEF Mark
      <4> QED
        BY <4>1, <4>2, <2>3
    <3>6. \A k \in 1 .. n + 2 : marks'[k].depth <= header'.stack
      BY <1>0, <2>2, <2>3, <2>4 DEF Checked
    <3> QED
      BY <1>0, <2>2, <2>4, <2>5, <3>1, <3>2, <3>4, <3>5, <3>6, Zenon
      DEF Checked, Admitted, MonetaryAllowed, MarkAfter
  <2>8. ReturnLast'
    BY <1>0, <2>1, <2>2, <2>4 DEF ReturnLast
  <2> QED
    BY <1>1, <2>6, <2>7, <2>8, Zenon
<1> QED
  BY <1>2, <1>3, Zenon

-----------------------------------------------------------------------------
(* Where an execution stands, and that it cannot panic there. *)
LEMMA Standing ==
  ASSUME CodeInv, phase = "run"
  PROVE  /\ Len(body) \in Nat /\ Len(marks) = Len(body) + 1
         /\ cursor \in 1 .. Len(body)
         /\ body[cursor] \in Instruction /\ marks[cursor] \in Mark
         /\ Admitted(body[cursor], marks[cursor])
         /\ marks[cursor + 1] = MarkAfter(body[cursor], marks[cursor])
         /\ Len(stack) = marks[cursor].depth
         /\ ~Panics
<1>1. /\ Len(body) \in Nat /\ Len(marks) = Len(body) + 1
      /\ cursor \in 1 .. Len(body)
  BY DEF CodeInv, TypeOK, FollowsValidator
<1>2. body[cursor] \in Instruction /\ marks[cursor] \in Mark
  BY <1>1 DEF CodeInv, TypeOK
<1>3. /\ Admitted(body[cursor], marks[cursor])
      /\ marks[cursor + 1] = MarkAfter(body[cursor], marks[cursor])
  BY <1>1, Zenon DEF CodeInv, Checked
<1>4. Len(stack) = marks[cursor].depth
  BY Zenon DEF CodeInv, FollowsValidator
<1>5. ~Panics
  BY <1>1, <1>2, <1>3, <1>4 DEF Panics, Admitted, Pops, Needs, Mark
<1> QED
  BY <1>1, <1>2, <1>3, <1>4, <1>5, Zenon

(* A step that advances to the next instruction, with the stack as deep and  *)
(* the requests as they are after it, follows the validator.                 *)
LEMMA AdvanceFollows ==
  ASSUME CodeInv, phase = "run", Advance, body[cursor].op # "return",
         stack' \in Seq(Int64),
         Len(stack') = DepthAfter(body[cursor].op, Len(stack)),
         {k \in Monetary : requests'[k] # Absent}
           = {k \in Monetary : requests[k] # Absent} \cup ({body[cursor].op} \cap Monetary)
  PROVE  FollowsValidator' /\ Checked' /\ ReturnLast'
<1>1. /\ cursor' = cursor + 1 /\ spent' = spent + Cost(body[cursor].op)
      /\ phase' = phase /\ header' = header /\ body' = body /\ marks' = marks
  BY Zenon DEF Advance, validator
<1>2. Checked' /\ ReturnLast'
  BY <1>1, Zenon DEF CodeInv, Checked, ReturnLast, Now, Admitted, MonetaryAllowed
<1>3. cursor + 1 \in 1 .. Len(body)
  BY Standing, SMTT(30) DEF CodeInv, ReturnLast
<1>4. /\ marks[cursor + 1].depth = DepthAfter(body[cursor].op, marks[cursor].depth)
      /\ marks[cursor + 1].fuel = marks[cursor].fuel + Cost(body[cursor].op)
      /\ marks[cursor + 1].seen = marks[cursor].seen \cup ({body[cursor].op} \cap Monetary)
  BY Standing, MarkStep
<1>5. Len(stack') = marks[cursor + 1].depth /\ Len(stack') <= header.stack
  <2>1. Len(stack') = marks[cursor + 1].depth
    BY Standing, <1>4, Zenon
  <2>2. cursor + 1 \in 1 .. Len(marks)
    BY Standing, <1>3
  <2>3. marks[cursor + 1].depth <= header.stack
    BY <2>2, Zenon DEF CodeInv, Checked
  <2> QED
    BY <2>1, <2>3, Zenon
<1>6. spent' = header.pages + marks[cursor + 1].fuel
  <2>1. /\ spent = header.pages + marks[cursor].fuel
        /\ header.pages \in Nat /\ marks[cursor].fuel \in Nat
    BY Standing, Zenon DEF CodeInv, FollowsValidator, TypeOK, Mark
  <2>2. Cost(body[cursor].op) \in Nat
    BY CostPositive, Zenon
  <2> QED
    BY <1>1, <1>4, <2>1, <2>2
<1>7. spent' < FuelUsed
  <2>1. marks[cursor + 1].fuel < Now.fuel
    BY <1>3, Zenon DEF CodeInv, Checked
  <2>2. marks[cursor + 1] \in Mark /\ Now \in Mark /\ header.pages \in Nat
    BY <1>3, SMTT(30) DEF CodeInv, TypeOK, Now
  <2> QED
    BY <1>6, <2>1, <2>2, SMTT(30) DEF FuelUsed, Mark
<1>8. {k \in Monetary : requests'[k] # Absent} = marks[cursor + 1].seen
  BY <1>4, Zenon DEF CodeInv, FollowsValidator
<1>9. FollowsValidator'
  BY <1>1, <1>3, <1>5, <1>6, <1>7, <1>8 DEF FollowsValidator, FuelUsed, Now
<1> QED
  BY <1>2, <1>9, Zenon

(* Steps that ask for nothing keep what was asked for. *)
LEMMA SameRequests ==
  ASSUME CodeInv, requests' = requests, header' = header
  PROVE  RequestsSettleable'
  BY Zenon DEF CodeInv, RequestsSettleable, HasMonetaryEffects

-----------------------------------------------------------------------------
(* What is left of a stack below its top. *)
LEMMA PrefixType ==
  ASSUME NEW S, NEW q \in Seq(S), NEW n \in 0 .. Len(q)
  PROVE  SubSeq(q, 1, n) \in Seq(S) /\ Len(SubSeq(q, 1, n)) = n
  OBVIOUS

(* One instruction of an execution. *)
LEMMA StepInv == ASSUME CodeInv, Step PROVE CodeInv'
<1>0. /\ phase = "run"
      /\ stack \in Seq(Int64) /\ Len(stack) \in Nat
      /\ body[cursor] \in Instruction
      /\ cursor \in Nat \ {0} /\ spent \in Nat
  BY Standing DEF CodeInv, TypeOK, Step, Nop, Const, Add, Overflow, StateGet, StateSet, Request,
       ReturnResult, At
<1>1. ASSUME Advance PROVE cursor' \in Nat \ {0} /\ spent' \in Nat
  BY <1>0, <1>1, CostPositive DEF Advance
<1>2. ASSUME Advance
      PROVE  /\ phase' = phase /\ header' = header /\ body' = body /\ marks' = marks
             /\ record' = record
  BY <1>2, Zenon DEF Advance, validator
<1>3. CASE Nop
  <2>1. /\ Advance /\ body[cursor].op = "nop"
        /\ stack' = stack /\ state_value' = state_value /\ effect' = effect /\ requests' = requests
    BY <1>3, Zenon DEF Nop, At
  <2>2. FollowsValidator' /\ Checked' /\ ReturnLast'
    BY <1>0, <2>1, AdvanceFollows, Zenon DEF DepthAfter, Monetary
  <2>3. TypeOK'
    BY <1>1, <1>2, <2>1, Zenon DEF CodeInv, TypeOK
  <2> QED
    BY <1>2, <2>1, <2>2, <2>3, SameRequests, Zenon DEF CodeInv
<1>4. CASE Const
  <2>1. /\ Advance /\ body[cursor].op = "const"
        /\ stack' = Append(stack, body[cursor].value)
        /\ state_value' = state_value /\ effect' = effect /\ requests' = requests
    BY <1>4, Zenon DEF Const, At, Push
  <2>2. stack' \in Seq(Int64) /\ Len(stack') = Len(stack) + 1
    BY <1>0, <2>1 DEF Instruction
  <2>3. FollowsValidator' /\ Checked' /\ ReturnLast'
    BY <1>0, <2>1, <2>2, AdvanceFollows, Zenon DEF DepthAfter, Monetary
  <2>4. TypeOK'
    BY <1>1, <1>2, <2>1, <2>2, Zenon DEF CodeInv, TypeOK
  <2> QED
    BY <1>2, <2>1, <2>3, <2>4, SameRequests, Zenon DEF CodeInv
<1>5. CASE Add
  <2>1. /\ Advance /\ body[cursor].op = "add" /\ Sum \in Int64
        /\ stack' = Append(SubSeq(stack, 1, Len(stack) - 2), Sum)
        /\ state_value' = state_value /\ effect' = effect /\ requests' = requests
    BY <1>5, Zenon DEF Add, At, Under
  <2>2. Len(stack) >= 2
    BY <1>0, <2>1, Standing, Zenon DEF Admitted, Needs
  <2>3. stack' \in Seq(Int64) /\ Len(stack') = Len(stack) - 1
    <3> DEFINE rest == SubSeq(stack, 1, Len(stack) - 2)
    <3>1. rest \in Seq(Int64) /\ Len(rest) = Len(stack) - 2
      <4>1. Len(stack) - 2 \in 0 .. Len(stack)
        BY <1>0, <2>2
      <4> QED
        BY <1>0, <4>1, PrefixType, Zenon
    <3>2. stack' = Append(rest, Sum)
      BY <2>1, Zenon
    <3> HIDE DEF rest
    <3> QED
      BY <1>0, <2>1, <3>1, <3>2
  <2>4. FollowsValidator' /\ Checked' /\ ReturnLast'
    BY <1>0, <2>1, <2>3, AdvanceFollows, Zenon DEF DepthAfter, Monetary
  <2>5. TypeOK'
    BY <1>1, <1>2, <2>1, <2>3, SMTT(30), SMTT(60) DEF CodeInv, TypeOK
  <2> QED
    BY <1>2, <2>1, <2>4, <2>5, SameRequests, Zenon DEF CodeInv
<1>6. CASE Overflow
  <2>1. phase' = "ready" /\ UNCHANGED <<header, body, marks, record, cursor, stack, state_value,
                                         effect, requests, spent>>
    BY <1>6, SMTT(30) DEF Overflow, validator, interpreter
  <2>2. TypeOK' /\ FollowsValidator'
    BY <2>1, SMTT(30) DEF CodeInv, TypeOK, FollowsValidator
  <2>3. Checked' /\ ReturnLast'
    BY <1>0, <2>1, SMTT(30) DEF CodeInv, Checked, ReturnLast, Now, Admitted, MonetaryAllowed
  <2> QED
    BY <2>1, <2>2, <2>3, SameRequests, Zenon DEF CodeInv
<1>7. CASE StateGet
  <2>1. /\ Advance /\ body[cursor].op = "get"
        /\ stack' = Append(stack, state_value)
        /\ state_value' = state_value /\ effect' = effect /\ requests' = requests
    BY <1>7, Zenon DEF StateGet, At, Push
  <2>2. stack' \in Seq(Int64) /\ Len(stack') = Len(stack) + 1
    BY <1>0, <2>1 DEF CodeInv, TypeOK
  <2>3. FollowsValidator' /\ Checked' /\ ReturnLast'
    BY <1>0, <2>1, <2>2, AdvanceFollows, Zenon DEF DepthAfter, Monetary
  <2>4. TypeOK'
    BY <1>1, <1>2, <2>1, <2>2, Zenon DEF CodeInv, TypeOK
  <2> QED
    BY <1>2, <2>1, <2>3, <2>4, SameRequests, SMTT(30) DEF CodeInv
<1>8. CASE StateSet
  <2>1. /\ Advance /\ body[cursor].op = "set"
        /\ stack' = SubSeq(stack, 1, Len(stack) - 1)
        /\ state_value' = stack[Len(stack)] /\ effect' = <<stack[Len(stack)]>>
        /\ requests' = requests
    BY <1>8, Zenon DEF StateSet, At, Under, Top
  <2>2. Len(stack) >= 1
    BY <1>0, <2>1, Standing, Zenon DEF Admitted, Needs
  <2>3. stack' \in Seq(Int64) /\ Len(stack') = Len(stack) - 1 /\ state_value' \in Int64
    BY <1>0, <2>1, <2>2
  <2>4. FollowsValidator' /\ Checked' /\ ReturnLast'
    BY <1>0, <2>1, <2>3, AdvanceFollows, Zenon DEF DepthAfter, Monetary
  <2>5. TypeOK'
    BY <1>1, <1>2, <2>1, <2>3, Zenon DEF CodeInv, TypeOK
  <2> QED
    BY <1>2, <2>1, <2>4, <2>5, SameRequests, Zenon DEF CodeInv
<1>9. ASSUME NEW k \in Monetary, Request(k) PROVE CodeInv'
  <2>1. /\ Advance /\ body[cursor].op = k
        /\ requests' = [requests EXCEPT ![k] = body[cursor].form]
        /\ stack' = stack /\ state_value' = state_value /\ effect' = effect
    BY <1>9, Zenon DEF Request, At
  <2>2. /\ body[cursor].form \in Form /\ body[cursor].form # Absent
        /\ requests \in [Monetary -> {Absent} \cup Form]
    BY <1>0, Zenon DEF Instruction, Form, Absent, CodeInv, TypeOK
  <2>3. /\ requests' \in [Monetary -> {Absent} \cup Form]
        /\ requests'[k] = body[cursor].form
        /\ \A x \in Monetary \ {k} : requests'[x] = requests[x]
    BY <2>1, <2>2, Zenon
  <2>4. {x \in Monetary : requests'[x] # Absent}
          = {x \in Monetary : requests[x] # Absent} \cup ({body[cursor].op} \cap Monetary)
    BY <2>1, <2>2, <2>3, Zenon
  <2>5. FollowsValidator' /\ Checked' /\ ReturnLast'
    <3>1. body[cursor].op # "return" /\ DepthAfter(body[cursor].op, Len(stack)) = Len(stack)
      BY <2>1, Zenon DEF Monetary, DepthAfter
    <3> QED
      BY <1>0, <2>1, <2>4, <3>1, AdvanceFollows, Zenon
  <2>6. TypeOK'
    BY <1>1, <1>2, <2>1, <2>3, Zenon DEF CodeInv, TypeOK
  <2>7. /\ MonetaryAllowed(body[cursor], marks[cursor].seen) /\ body[cursor].form # "bad"
        /\ {x \in Monetary : requests[x] # Absent} = marks[cursor].seen
    BY <1>0, Standing, Zenon DEF Admitted, WellFormed, CodeInv, FollowsValidator
  <2>8. RequestsSettleable'
    <3>1. requests'["mint"] = "registered" => requests'["register"] # Absent
      <4>1. CASE k = "mint"
        BY <2>1, <2>3, <2>7, <4>1, Zenon DEF MonetaryAllowed, Monetary
      <4>2. CASE k # "mint"
        BY <2>2, <2>3, <4>2, Zenon DEF CodeInv, RequestsSettleable, Monetary
      <4> QED
        BY <4>1, <4>2, Zenon
    <3>2. \A x \in Monetary : requests'[x] \notin {"zero", "bad"}
      BY <2>3, <2>7, Zenon DEF CodeInv, RequestsSettleable, MonetaryAllowed
    <3>3. header.version # 1 /\ (header.version = 2 => k \notin {"register", "mint"})
      BY <2>1, <2>7 DEF MonetaryAllowed, Monetary, IssuanceVersion, CodeInv, TypeOK, Version
    <3> QED
      BY <1>2, <2>1, <2>3, <3>1, <3>2, <3>3, Zenon
      DEF CodeInv, RequestsSettleable, HasMonetaryEffects, Monetary
  <2> QED
    BY <2>5, <2>6, <2>8, Zenon DEF CodeInv
<1>10. ASSUME NEW settled \in BOOLEAN, ReturnResult(settled) PROVE CodeInv'
  <2>1. /\ phase' = "ready" /\ header' = header /\ body' = body /\ marks' = marks
        /\ record' = (IF settled /\ effect # <<>> THEN effect[1] ELSE record)
        /\ stack' = SubSeq(stack, 1, Len(stack) - 1) /\ spent' = spent + Cost("return")
        /\ cursor' = cursor /\ state_value' = state_value /\ effect' = effect /\ requests' = requests
        /\ body[cursor].op = "return"
    BY <1>10, SMTT(30) DEF ReturnResult, At, Under, validator
  <2>2. Len(stack) >= 1
    BY <1>0, <2>1, Standing, Zenon DEF Admitted, Needs
  <2>3. stack' \in Seq(Int64)
    BY <1>0, <2>1, <2>2, SMTT(30)
  <2>4. record' \in Int64
    BY <2>1 DEF CodeInv, TypeOK
  <2>5. spent' \in Nat
    BY <1>0, <2>1, CostPositive, SMTT(30)
  <2>6. TypeOK' /\ FollowsValidator'
    BY <2>1, <2>3, <2>4, <2>5, SMTT(30), SMTT(60) DEF CodeInv, TypeOK, FollowsValidator
  <2>7. Checked' /\ ReturnLast'
    BY <1>0, <2>1, Zenon DEF CodeInv, Checked, ReturnLast, Now, Admitted, MonetaryAllowed
  <2> QED
    BY <2>1, <2>6, <2>7, SameRequests, Zenon DEF CodeInv
<1> QED
  BY <1>3, <1>4, <1>5, <1>6, <1>7, <1>8, <1>9, <1>10, SMTT(30), SMTT(60) DEF Step

-----------------------------------------------------------------------------
(* A call starts where the validator started. *)
LEMMA CallInv == ASSUME CodeInv, NEW limit \in FuelLimits, Execute(limit) PROVE CodeInv'
<1>1. /\ phase = "ready" /\ phase' = "run"
      /\ header' = header /\ body' = body /\ marks' = marks /\ record' = record
      /\ cursor' = 1 /\ stack' = <<>> /\ state_value' = record /\ effect' = <<>>
      /\ requests' = NoRequest /\ spent' = header.pages
  BY Zenon DEF Execute, validator
<1>2. /\ Len(body) \in Nat \ {0} /\ header.pages \in Nat /\ header.stack \in Nat
      /\ marks[1] = Start
  BY <1>1 DEF CodeInv, TypeOK, ReturnLast, Checked
<1>3. Checked' /\ ReturnLast'
  BY <1>1, Zenon DEF CodeInv, Checked, ReturnLast, Now, Admitted, MonetaryAllowed
<1>4. NoRequest \in [Monetary -> {Absent} \cup Form] /\ \A k \in Monetary : NoRequest[k] = Absent
  BY Zenon DEF NoRequest
<1>5. TypeOK'
  BY <1>1, <1>2, <1>4, SMTT(30) DEF CodeInv, TypeOK
<1>6. RequestsSettleable'
  BY <1>1, <1>4, Zenon DEF RequestsSettleable, HasMonetaryEffects, Monetary, Absent
<1>7. FollowsValidator'
  <2>1. marks[1].depth = 0 /\ marks[1].fuel = 0 /\ marks[1].seen = {}
    BY <1>2 DEF Start
  <2>2. Now.fuel \in Nat /\ 0 < Now.fuel
    <3>1. Now \in Mark
      BY <1>2 DEF Now, CodeInv, TypeOK
    <3>2. marks[1].fuel < Now.fuel
      BY <1>2 DEF CodeInv, Checked
    <3> QED
      BY <2>1, <3>1, <3>2, Zenon DEF Mark
  <2>3. {k \in Monetary : requests'[k] # Absent} = {}
    BY <1>1, <1>4, Zenon
  <2>4. spent' < FuelUsed
    BY <1>1, <1>2, <2>2 DEF FuelUsed
  <2>5. Len(stack') = 0
    BY <1>1, Zenon
  <2> QED
    BY <1>1, <1>2, <2>1, <2>3, <2>4, <2>5 DEF FollowsValidator, FuelUsed, Now
<1> QED
  BY <1>3, <1>5, <1>6, <1>7, Zenon DEF CodeInv

(* Every step of the system keeps the invariant. *)
LEMMA CodeNextInv == CodeInv /\ [CodeNext]_codeVars => CodeInv'
<1> SUFFICES ASSUME CodeInv, [CodeNext]_codeVars PROVE CodeInv'
  BY Zenon
<1>1. CASE \E i \in Instruction, last \in BOOLEAN : Read(i, last)
  BY <1>1, ReadInv, Zenon
<1>2. CASE MissingReturn
  <2>1. /\ phase = "read" /\ phase' = "refused"
        /\ UNCHANGED <<header, body, marks, record, cursor, stack, state_value, effect, requests, spent>>
    BY <1>2, SMTT(30) DEF MissingReturn, validator, interpreter
  <2>2. TypeOK' /\ FollowsValidator'
    BY <2>1, SMTT(30) DEF CodeInv, TypeOK, FollowsValidator
  <2>3. Checked' /\ ReturnLast'
    BY <2>1, Zenon DEF CodeInv, Checked, ReturnLast, Now, Admitted, MonetaryAllowed
  <2> QED
    BY <2>1, <2>2, <2>3, SameRequests, Zenon DEF CodeInv
<1>3. CASE \E limit \in FuelLimits : Execute(limit)
  BY <1>3, CallInv, Zenon
<1>4. CASE Step
  BY <1>4, StepInv, Zenon
<1>5. CASE UNCHANGED codeVars
  <2>1. UNCHANGED <<phase, header, body, marks, record, cursor, stack, state_value, effect, requests,
                    spent>>
    BY <1>5, SMTT(30) DEF codeVars, validator, interpreter
  <2>2. TypeOK' /\ FollowsValidator'
    BY <2>1, SMTT(30) DEF CodeInv, TypeOK, FollowsValidator, FuelUsed, Now
  <2>3. Checked' /\ ReturnLast'
    BY <2>1, Zenon DEF CodeInv, Checked, ReturnLast, Now, Admitted, MonetaryAllowed
  <2> QED
    BY <2>1, <2>2, <2>3, SameRequests, Zenon DEF CodeInv
<1> QED
  BY <1>1, <1>2, <1>3, <1>4, <1>5, Zenon DEF CodeNext, Validate

(* Inv is an invariant. *)
LEMMA CodeInvariant == CodeSpec => []CodeInv
  BY CodeInitInv, CodeNextInv, PTL DEF CodeSpec

-----------------------------------------------------------------------------
(* Code that validate_code admits never panics the interpreter, for every    *)
(* code, limit, state and sequence of calls (interpreter.rs:57-119).         *)
THEOREM AdmittedNeverPanics == CodeSpec => []NoPanic
<1>1. CodeInv => NoPanic
  BY Standing, Zenon DEF NoPanic
<1> QED
  BY <1>1, CodeInvariant, PTL

(* The interpreter's depth, fuel and requests are those the validator        *)
(* counted, at every instruction of every execution.                         *)
THEOREM ExecutionFollowsValidator == CodeSpec => []FollowsValidator
<1>1. CodeInv => FollowsValidator
  BY Zenon DEF CodeInv
<1> QED
  BY <1>1, CodeInvariant, PTL

(* What an execution hands to settlement has the shape settlement needs      *)
(* (vm_transfer/asset.rs:30-95).                                             *)
THEOREM SettlementGetsSoundRequests == CodeSpec => []RequestsSettleable
<1>1. CodeInv => RequestsSettleable
  BY Zenon DEF CodeInv
<1> QED
  BY <1>1, CodeInvariant, PTL

(* No request of an execution replaces an earlier one of its kind.           *)
THEOREM RequestsKept == CodeSpec => NoRequestLost
<1> DEFINE Kept == phase = "run" =>
             \A k \in Monetary : requests[k] # Absent /\ phase' = "run"
                                   => requests'[k] = requests[k] /\ body[cursor].op # k
<1>1. CodeInv /\ [CodeNext]_codeVars => [Kept]_codeVars
  <2> SUFFICES ASSUME CodeInv, CodeNext, phase = "run", phase' = "run",
                      NEW k \in Monetary, requests[k] # Absent
               PROVE  requests'[k] = requests[k] /\ body[cursor].op # k
    BY Zenon
  <2>1. Step
    BY Zenon DEF CodeNext, Validate, Read, MissingReturn, Execute
  <2>2. body[cursor].op # k
    <3>1. k \in marks[cursor].seen
      BY SMTT(30) DEF CodeInv, FollowsValidator
    <3>2. MonetaryAllowed(body[cursor], marks[cursor].seen)
      BY Standing, Zenon DEF Admitted
    <3> QED
      BY <3>1, <3>2, Zenon DEF MonetaryAllowed
  <2>3. requests'[k] = requests[k]
    <3>1. ASSUME NEW x \in Monetary, Request(x) PROVE requests'[k] = requests[k]
      BY <2>2, <3>1, Zenon DEF Request, At, CodeInv, TypeOK
    <3>2. ASSUME NEW settled \in BOOLEAN, ReturnResult(settled) PROVE FALSE
      BY <3>2, Zenon DEF ReturnResult
    <3> QED
      BY <2>1, <3>1, <3>2, SMTT(30) DEF Step, Nop, Const, Add, Overflow, StateGet, StateSet, interpreter
  <2> QED
    BY <2>2, <2>3, Zenon
<1> QED
  BY <1>1, CodeInvariant, PTL DEF CodeSpec, NoRequestLost

-----------------------------------------------------------------------------
(* A function, whatever its domain. *)
IsMap(f) == f = [x \in DOMAIN f |-> f[x]]

(* A ledger; what its coins are worth does not matter here.                *)
Shaped(l) ==
  /\ l \in [scalar : [Program -> Nat], storage : [Program \X Key -> Value \cup {None}],
            coins : {l.coins}]
  /\ IsMap(l.coins)

(* A journal and an engine have their fields. *)
JournalShaped(j) ==
  j \in [consumed : {j.consumed}, created : {j.created}, states : {j.states}, storage : {j.storage}]

EngineShaped(e) ==
  /\ e \in [calls : Nat, actions : Nat, account : {e.account}, journal : {e.journal}]
  /\ JournalShaped(e.journal)

(* No payment of a later invocation than the n-th has left its coin.       *)
Unpaid(coins, n) == \A t \in Nat : t > n => OutputId(t, Outside, 0, 0) \notin DOMAIN coins

(* Undoing the journal takes the state back to the ledger before.          *)
Undoes(before, state, journal) ==
  /\ Fits(state, journal)
  /\ Undone(state, journal) = before

(* A state and an engine an instruction starts from or leads to.           *)
Sound(before, n, state, eng) ==
  /\ Shaped(state) /\ EngineShaped(eng) /\ Unpaid(state.coins, n)
  /\ Undoes(before, state, eng.journal)
  /\ \A i \in DOMAIN eng.journal.consumed : eng.journal.consumed[i].owner # Outside
  /\ \A q \in DOMAIN eng.account : eng.account[q].ids = CoinsOf(state.coins, q)

(* The ledger after the k-th invocation that can be undone.                *)
AfterOf(k) == IF k = Len(done) THEN ledger ELSE done[k + 1].before

(* Each invocation that can be undone started from a ledger, which its     *)
(* journal leads back to.                                                  *)
History ==
  \A k \in 1 .. Len(done) :
    /\ Shaped(done[k].before) /\ Unpaid(done[k].before.coins, k - 1)
    /\ Undoes(done[k].before, AfterOf(k), done[k].journal)

(* The programs of a chain of calls: none is in it twice.                  *)
Distinct(calls) ==
  /\ calls \in Seq(Program)
  /\ \A i, k \in 1 .. Len(calls) : calls[i] = calls[k] => i = k

(* The inductive invariant of calls: the copy in progress and the ledger    *)
(* are sound, no program is being called twice, and every applied           *)
(* invocation can be undone in turn.                                        *)
Inv ==
  /\ Sound(ledger, Len(done), staged, engine)
  /\ Sound(ledger, Len(done), ledger, FreshEngine)
  /\ ~Running => staged = ledger /\ engine = FreshEngine
  /\ Distinct(active)
  /\ \E S : done \in Seq(S)
  /\ History

-----------------------------------------------------------------------------
(* Maps.                                                                   *)

(* Two moments of an invocation whose coins are undone to the same ones.   *)
SameUndone(coins, consumed, created, coins2, consumed2, created2) ==
  /\ created2 \subseteq DOMAIN coins2
  /\ DOMAIN consumed2 \cap (DOMAIN coins2 \ created2) = {}
  /\ Over(Without(coins2, created2), consumed2) = Over(Without(coins, created), consumed)

(* Coins moved, and recorded, are undone by what was recorded.  Nothing is *)
(* asked of the ids made but that no coin has them.                        *)
LEMMA RecordUndoes ==
  ASSUME NEW coins, NEW consumed, NEW created, NEW gone, NEW made,
         created \subseteq DOMAIN coins, gone \subseteq DOMAIN coins,
         DOMAIN consumed \cap (DOMAIN coins \ created) = {},
         DOMAIN made \cap DOMAIN coins = {},
         NEW coins2, coins2 = Over(Without(coins, gone), made),
         NEW created2, created2 = (created \ gone) \cup DOMAIN made,
         NEW consumed2, consumed2 = Over(consumed, Restrict(coins, gone \ created))
  PROVE  SameUndone(coins, consumed, created, coins2, consumed2, created2)
<1>1. /\ DOMAIN coins2 = (DOMAIN coins \ gone) \cup DOMAIN made
      /\ \A x \in DOMAIN coins \ gone : coins2[x] = coins[x]
  BY Zenon DEF Over, Without, Restrict
<1>2. /\ DOMAIN consumed2 = DOMAIN consumed \cup (gone \ created)
      /\ \A x \in DOMAIN consumed : consumed2[x] = consumed[x]
      /\ \A x \in (gone \ created) \ DOMAIN consumed : consumed2[x] = coins[x]
  BY SMTT(30) DEF Over, Restrict
<1>3. created2 \subseteq DOMAIN coins2 /\ DOMAIN consumed2 \cap (DOMAIN coins2 \ created2) = {}
  BY <1>1, <1>2, SMTT(30)
<1>4. DOMAIN coins2 \ created2 = (DOMAIN coins \ gone) \ created
  BY <1>1, SMTT(30)
<1> DEFINE u2 == Over(Without(coins2, created2), consumed2)
           u  == Over(Without(coins, created), consumed)
<1>5. /\ DOMAIN u2 = (DOMAIN coins2 \ created2) \cup DOMAIN consumed2
      /\ \A x \in DOMAIN coins2 \ created2 : u2[x] = coins2[x]
      /\ \A x \in DOMAIN consumed2 \ (DOMAIN coins2 \ created2) : u2[x] = consumed2[x]
  BY ZenonT(40) DEF Over, Without, Restrict
<1>6. /\ DOMAIN u = (DOMAIN coins \ created) \cup DOMAIN consumed
      /\ \A x \in DOMAIN coins \ created : u[x] = coins[x]
      /\ \A x \in DOMAIN consumed \ (DOMAIN coins \ created) : u[x] = consumed[x]
  BY SMTT(30) DEF Over, Without, Restrict
<1>7. IsMap(u2) /\ IsMap(u)
  BY ZenonT(40) DEF Over, IsMap
<1> HIDE DEF u2, u
<1>8. DOMAIN u2 = DOMAIN u
  BY <1>2, <1>4, <1>5, <1>6, SMTT(30), SMTT(60)
<1>9. \A x \in DOMAIN u2 : u2[x] = u[x]
  BY <1>1, <1>2, <1>4, <1>5, <1>6, SMTT(30), SMTT(60)
<1>10. u2 = u
  BY <1>7, <1>8, <1>9, Zenon DEF IsMap
<1>11. QED
  BY <1>3, <1>10, SMTT(30) DEF SameUndone, u2, u

(* Coins after some left and others were made, by their owners. *)
CoinsMoved(coins, gone, made, coins2) ==
  /\ IsMap(coins2) /\ DOMAIN coins2 = (DOMAIN coins \ gone) \cup DOMAIN made
  /\ \A q : CoinsOf(coins2, q) = (CoinsOf(coins, q) \ gone) \cup CoinsOf(made, q)

(* That is what replacing coins by new identifiers does. *)
LEMMA MovedCoins ==
  ASSUME NEW coins, NEW gone, NEW made, DOMAIN made \cap DOMAIN coins = {},
         NEW coins2, coins2 = Over(Without(coins, gone), made)
  PROVE  CoinsMoved(coins, gone, made, coins2)
<1>1. IsMap(coins2) /\ DOMAIN coins2 = (DOMAIN coins \ gone) \cup DOMAIN made
  BY Zenon DEF Over, Without, Restrict, IsMap
<1>2. /\ \A x \in DOMAIN coins \ gone : coins2[x] = coins[x]
      /\ \A x \in DOMAIN made : coins2[x] = made[x]
  BY Zenon DEF Over, Without, Restrict
<1>3. QED
  BY <1>1, <1>2, Zenon DEF CoinsMoved, CoinsOf

(* A value written, with the first previous one kept, is undone too.       *)
LEMMA PreviousUndoes ==
  ASSUME NEW f, IsMap(f), NEW kept, NEW key \in DOMAIN f, NEW value
  PROVE  Over(Previous(kept, key, f[key]), [f EXCEPT ![key] = value]) = Over(kept, f)
<1> DEFINE g  == [f EXCEPT ![key] = value]
           k2 == Previous(kept, key, f[key])
<1>1. DOMAIN g = DOMAIN f /\ \A x \in DOMAIN f : x # key => g[x] = f[x]
  BY Zenon DEF IsMap
<1>2. /\ DOMAIN k2 = DOMAIN kept \cup {key} /\ \A x \in DOMAIN kept : k2[x] = kept[x]
      /\ key \notin DOMAIN kept => k2[key] = f[key]
  BY Zenon DEF Previous, KeepFirst, Put
<1> HIDE DEF g, k2
<1> DEFINE u2 == Over(k2, g)
           u  == Over(kept, f)
<1>3. /\ IsMap(u2) /\ DOMAIN u2 = DOMAIN k2 \cup DOMAIN g
      /\ \A x \in DOMAIN k2 : u2[x] = k2[x]
      /\ \A x \in DOMAIN g \ DOMAIN k2 : u2[x] = g[x]
  BY Zenon DEF Over, IsMap
<1>4. /\ IsMap(u) /\ DOMAIN u = DOMAIN kept \cup DOMAIN f
      /\ \A x \in DOMAIN kept : u[x] = kept[x]
      /\ \A x \in DOMAIN f \ DOMAIN kept : u[x] = f[x]
  BY SMTT(30) DEF Over, IsMap
<1> HIDE DEF u2, u
<1>5. DOMAIN u2 = DOMAIN u
  BY <1>1, <1>2, <1>3, <1>4, SMTT(30)
<1>6. \A x \in DOMAIN u2 : u2[x] = u[x]
  BY <1>1, <1>2, <1>3, <1>4, Zenon
<1>7. u2 = u
  BY <1>3, <1>4, <1>5, <1>6, Zenon DEF IsMap
<1>8. QED
  BY <1>7, Zenon DEF u2, u, g, k2

-----------------------------------------------------------------------------
(* Coins sent.                                                             *)

(* Loading the coins of a program into the lookup keeps it exact. *)
LEMMA EnsureFacts ==
  ASSUME NEW account, NEW coins, NEW p,
         \A q \in DOMAIN account : account[q].ids = CoinsOf(coins, q),
         NEW account2, account2 = EnsureAccounts(account, coins, p)
  PROVE  p \in DOMAIN account2 /\ \A q \in DOMAIN account2 : account2[q].ids = CoinsOf(coins, q)
BY Zenon DEF EnsureAccounts, KeepFirst, Put

(* What settle leads to: some coins of the program are gone, and those     *)
(* made have new ids, which name the program.                              *)
Moved(state, eng, p, gone, made, account, r) ==
  /\ gone \subseteq CoinsOf(state.coins, p)
  /\ DOMAIN made \cap DOMAIN state.coins = {}
  /\ \A i \in DOMAIN made : i[2] = p
  /\ \A q \in DOMAIN account : account[q].ids = CoinsOf(state.coins, q)
  /\ r.state = [state EXCEPT !.coins = Over(Without(state.coins, gone), made)]
  /\ r.engine = [eng EXCEPT !.actions = eng.actions + 1,
                            !.account = Follow(account, state.coins, gone, made),
                            !.journal = Record(eng.journal, state.coins, gone, made)]

(* A settlement moves coins of the paying program only. *)
LEMMA SettleMoves ==
  ASSUME NEW state, NEW eng, NEW p, NEW to, NEW amount, NEW root,
         \A q \in DOMAIN eng.account : eng.account[q].ids = CoinsOf(state.coins, q),
         NEW r \in Settle(state, eng, p, to, amount, root)
  PROVE  \E gone, made, account : Moved(state, eng, p, gone, made, account, r)
<1> DEFINE coins   == state.coins
           account == EnsureAccounts(eng.account, coins, p)
           choices == IF root THEN LegacySelections(coins, CoinsOf(coins, p), amount)
                      ELSE Selections(coins, account[p].ids, amount)
           action  == eng.actions + 1
           Made(chosen) == CoinOutputs(p, IF root THEN 0 ELSE action, to, amount,
                                       Worth(coins, chosen) - amount)
           After(chosen, made) ==
             [state  |-> [state EXCEPT !.coins = Over(Without(coins, chosen), made)],
              engine |-> [eng EXCEPT !.actions = action,
                                     !.account = Follow(account, coins, chosen, made),
                                     !.journal = Record(@, coins, chosen, made)]]
<1>1. p \in DOMAIN account /\ \A q \in DOMAIN account : account[q].ids = CoinsOf(coins, q)
  BY EnsureFacts, SMTT(30), SMTT(60)
<1>2. choices \subseteq SUBSET CoinsOf(coins, p)
  <2> HIDE DEF account
  <2>1. LegacySelections(coins, CoinsOf(coins, p), amount) \subseteq SUBSET CoinsOf(coins, p)
    BY SMTT(30) DEF LegacySelections
  <2>2. Selections(coins, account[p].ids, amount) \subseteq SUBSET CoinsOf(coins, p)
    BY <1>1, Zenon DEF Selections
  <2>3. QED
    BY <2>1, <2>2, SMTT(30), SMTT(60)
<1>3. PICK chosen \in choices :
        /\ DOMAIN Made(chosen) \cap DOMAIN coins = {}
        /\ r = After(chosen, Made(chosen))
  BY ZenonT(40) DEF Settle
<1>4. \A i \in DOMAIN Made(chosen) : i[2] = p
  BY DEF CoinOutputs, OutputId
<1> HIDE DEF choices, Made, account
<1>5. Moved(state, eng, p, chosen, Made(chosen), account, r)
  BY <1>1, <1>2, <1>3, <1>4, SMTT(30) DEF Moved
<1>6. QED
  BY <1>5, ZenonT(40)

(* The program's state and storage stay, and it loses no coin.             *)
Unhurt(state, state2, q) ==
  /\ state2.scalar[q] = state.scalar[q]
  /\ \A key \in Key : state2.storage[<<q, key>>] = state.storage[<<q, key>>]
  /\ CoinsOf(state.coins, q) \subseteq CoinsOf(state2.coins, q)

(* What one program did hurts no other.                                    *)
Keeps(state, state2, p) == \A q \in Program \ {p} : Unhurt(state, state2, q)

(* Such a move keeps the copy sound: its journal undoes it too. *)
LEMMA MovedSound ==
  ASSUME NEW before, NEW n, NEW state, NEW eng, Sound(before, n, state, eng),
         NEW p \in Program, NEW gone, NEW made, NEW account, NEW r,
         Moved(state, eng, p, gone, made, account, r)
  PROVE  Sound(before, n, r.state, r.engine) /\ Keeps(state, r.state, p)
<1> DEFINE coins    == state.coins
           coins2   == r.state.coins
           journal  == eng.journal
           journal2 == r.engine.journal
<1>1. /\ gone \subseteq CoinsOf(coins, p) /\ DOMAIN made \cap DOMAIN coins = {}
      /\ gone \subseteq DOMAIN coins
      /\ \A i \in DOMAIN made : i[2] = p
      /\ \A q \in DOMAIN account : account[q].ids = CoinsOf(coins, q)
  BY Zenon DEF Moved, CoinsOf
<1>2. /\ r.state.scalar = state.scalar /\ r.state.storage = state.storage
      /\ coins2 = Over(Without(coins, gone), made)
      /\ r.state = [scalar |-> state.scalar, storage |-> state.storage, coins |-> coins2]
  BY Zenon DEF Moved, Sound, Shaped
<1>3. /\ r.engine.account = Follow(account, coins, gone, made)
      /\ journal2 = Record(journal, coins, gone, made)
      /\ r.engine = [calls |-> eng.calls, actions |-> eng.actions + 1,
                     account |-> r.engine.account, journal |-> journal2]
  BY Zenon DEF Moved, Sound, EngineShaped
<1>4. /\ journal2.consumed = Over(journal.consumed, Restrict(coins, gone \ journal.created))
      /\ journal2.created = (journal.created \ gone) \cup DOMAIN made
      /\ journal2.states = journal.states /\ journal2.storage = journal.storage
      /\ JournalShaped(journal2)
  BY <1>3, Zenon DEF Record, Sound, EngineShaped, JournalShaped
<1>5. /\ Fits(state, journal) /\ Undone(state, journal) = before
      /\ Shaped(state) /\ EngineShaped(eng) /\ Unpaid(coins, n)
      /\ \A i \in DOMAIN journal.consumed : journal.consumed[i].owner # Outside
  BY SMTT(30) DEF Sound, Undoes
<1>6. journal.created \subseteq DOMAIN coins /\ DOMAIN journal.consumed \cap (DOMAIN coins \ journal.created) = {}
  BY <1>5, Zenon DEF Fits
<1> HIDE DEF coins2, journal2, coins, journal
<1>7. /\ IsMap(coins2) /\ DOMAIN coins2 = (DOMAIN coins \ gone) \cup DOMAIN made
      /\ \A q : CoinsOf(coins2, q) = (CoinsOf(coins, q) \ gone) \cup CoinsOf(made, q)
  <2>1. CoinsMoved(coins, gone, made, coins2)
    BY <1>1, <1>2, MovedCoins, Zenon
  <2>2. QED
    BY <2>1, Zenon DEF CoinsMoved
<1>8. Shaped(r.state) /\ EngineShaped(r.engine)
  <2>1. Shaped(r.state)
    BY <1>2, <1>5, <1>7, Zenon DEF Shaped, coins2
  <2>2. EngineShaped(r.engine)
    BY <1>3, <1>4, <1>5, SMTT(30) DEF EngineShaped, journal2
  <2>3. QED
    BY <2>1, <2>2, Zenon
<1>9. Unpaid(coins2, n)
  <2>1. \A t : OutputId(t, Outside, 0, 0)[2] = Outside
    BY Zenon DEF OutputId
  <2>2. p # Outside
    BY CallsAssumption, Zenon
  <2>3. QED
    BY <1>1, <1>5, <1>7, <2>1, <2>2, Zenon DEF Unpaid
<1>10. Undoes(before, r.state, journal2)
  <2>1. /\ journal2.created \subseteq DOMAIN coins2
        /\ DOMAIN journal2.consumed \cap (DOMAIN coins2 \ journal2.created) = {}
        /\ Over(Without(coins2, journal2.created), journal2.consumed)
             = Over(Without(coins, journal.created), journal.consumed)
    <3>1. SameUndone(coins, journal.consumed, journal.created,
                     coins2, journal2.consumed, journal2.created)
      BY <1>1, <1>2, <1>4, <1>6, RecordUndoes, ZenonT(40)
    <3>2. QED
      BY <3>1, Zenon DEF SameUndone
  <2>2. Fits(r.state, journal2)
    BY <2>1, ZenonT(40) DEF Fits, coins2
  <2>3. Undone(r.state, journal2) = Undone(state, journal)
    BY <1>2, <1>4, <2>1, ZenonT(40) DEF Undone, coins2, coins
  <2>4. QED
    BY <1>5, <2>2, <2>3, Zenon DEF Undoes
<1>11. \A i \in DOMAIN journal2.consumed : journal2.consumed[i].owner # Outside
  <2>1. \A i \in gone : coins[i].owner # Outside
    BY <1>1, CallsAssumption, SMTT(30) DEF CoinsOf
  <2>2. \A i \in DOMAIN journal2.consumed :
          \/ i \in DOMAIN journal.consumed /\ journal2.consumed[i] = journal.consumed[i]
          \/ i \in gone /\ journal2.consumed[i] = coins[i]
    BY <1>4, Zenon DEF Over, Restrict
  <2>3. QED
    BY <1>5, <2>1, <2>2, Zenon
<1>12. \A q \in DOMAIN r.engine.account : r.engine.account[q].ids = CoinsOf(coins2, q)
  <2> DEFINE account2 == r.engine.account
  <2>1. /\ DOMAIN account2 = DOMAIN account
        /\ \A q \in DOMAIN account : account2[q].ids = (account[q].ids \ gone) \cup CoinsOf(made, q)
    BY <1>3, SMTT(30) DEF Follow
  <2> HIDE DEF account2
  <2>2. \A q \in DOMAIN account2 : account2[q].ids = CoinsOf(coins2, q)
    BY <1>1, <1>7, <2>1, Zenon
  <2>3. QED
    BY <2>2, SMTT(30), SMTT(60) DEF account2
<1>13. Keeps(state, r.state, p)
  <2> SUFFICES ASSUME NEW q \in Program \ {p}
               PROVE  CoinsOf(coins, q) \subseteq CoinsOf(coins2, q)
    BY <1>2, ZenonT(40) DEF Keeps, Unhurt, coins, coins2
  <2>1. gone \cap CoinsOf(coins, q) = {}
    BY <1>1, Zenon DEF CoinsOf
  <2>2. QED
    BY <1>7, <2>1, Zenon
<1>14. QED
  BY <1>8, <1>9, <1>10, <1>11, <1>12, <1>13, Zenon DEF Sound, coins2, journal2

(* Hence so does a settlement. *)
LEMMA SettleSound ==
  ASSUME NEW before, NEW n, NEW state, NEW eng, Sound(before, n, state, eng),
         NEW p \in Program, NEW to, NEW amount, NEW root,
         NEW r \in Settle(state, eng, p, to, amount, root)
  PROVE  Sound(before, n, r.state, r.engine) /\ Keeps(state, r.state, p)
<1>1. PICK gone, made, account : Moved(state, eng, p, gone, made, account, r)
  BY SettleMoves, SMTT(30) DEF Sound
<1>2. QED
  BY <1>1, MovedSound, SMTT(30)

(* And so does a write of the scalar state. *)
LEMMA WriteSound ==
  ASSUME NEW before, NEW n, NEW state, NEW eng, Sound(before, n, state, eng),
         NEW p \in Program, NEW v \in Nat, NEW r, r = WriteScalar(state, eng, p, v)
  PROVE  Sound(before, n, r.state, r.engine) /\ Keeps(state, r.state, p)
<1> DEFINE journal  == eng.journal
           journal2 == r.engine.journal
<1>1. /\ Shaped(state) /\ EngineShaped(eng) /\ Undoes(before, state, journal)
      /\ Unpaid(state.coins, n)
      /\ \A i \in DOMAIN journal.consumed : journal.consumed[i].owner # Outside
      /\ \A q \in DOMAIN eng.account : eng.account[q].ids = CoinsOf(state.coins, q)
  BY Zenon DEF Sound
<1>2. /\ r.state.coins = state.coins /\ r.state.storage = state.storage
      /\ r.state.scalar = [state.scalar EXCEPT ![p] = v]
      /\ Shaped(r.state)
  BY <1>1, Zenon DEF WriteScalar, Shaped
<1>3. /\ r.engine.account = eng.account
      /\ journal2.consumed = journal.consumed /\ journal2.created = journal.created
      /\ journal2.storage = journal.storage
      /\ journal2.states = Previous(journal.states, p, state.scalar[p])
      /\ EngineShaped(r.engine)
  BY <1>1, SMTT(30) DEF WriteScalar, EngineShaped, JournalShaped
<1> HIDE DEF journal, journal2
<1>4. Over(journal2.states, r.state.scalar) = Over(journal.states, state.scalar)
  <2> DEFINE f == state.scalar
  <2>1. IsMap(f) /\ p \in DOMAIN f
    BY <1>1, Zenon DEF Shaped, IsMap
  <2> HIDE DEF f
  <2>2. Over(Previous(journal.states, p, f[p]), [f EXCEPT ![p] = v]) = Over(journal.states, f)
    BY <2>1, PreviousUndoes, SMTT(30)
  <2>3. QED
    BY <1>2, <1>3, <2>2, Zenon DEF f
<1>5. Undoes(before, r.state, journal2)
  BY <1>1, <1>2, <1>3, <1>4, Zenon DEF Undoes, Fits, Undone
<1>6. Keeps(state, r.state, p)
  BY <1>1, <1>2, Zenon DEF Keeps, Unhurt, Shaped
<1>7. QED
  BY <1>1, <1>2, <1>3, <1>5, <1>6, Zenon DEF Sound, journal, journal2

(* A write of one key of a program. *)
Stored(state, eng, p, key, v, state2, eng2) ==
  /\ state2 = [state EXCEPT !.storage[<<p, key>>] = v]
  /\ eng2 = [eng EXCEPT
       !.actions = @ + 1,
       !.journal.storage = Previous(@, <<p, key>>, state.storage[<<p, key>>])]

(* A write of storage keeps the copy sound. *)
LEMMA StoreSound ==
  ASSUME NEW before, NEW n, NEW state, NEW eng, Sound(before, n, state, eng),
         NEW p \in Program, NEW key \in Key, NEW v \in Value \cup {None},
         NEW state2, NEW eng2, Stored(state, eng, p, key, v, state2, eng2)
  PROVE  Sound(before, n, state2, eng2) /\ Keeps(state, state2, p)
<1> DEFINE journal  == eng.journal
           journal2 == eng2.journal
           x        == <<p, key>>
           kept     == Previous(journal.storage, x, state.storage[x])
<1>0. /\ state2 = [state EXCEPT !.storage[x] = v]
      /\ eng2 = [eng EXCEPT !.actions = @ + 1, !.journal.storage = kept]
  BY SMTT(30) DEF Stored
<1> HIDE DEF kept
<1>1. /\ Shaped(state) /\ EngineShaped(eng) /\ Undoes(before, state, journal)
      /\ Unpaid(state.coins, n)
      /\ \A i \in DOMAIN journal.consumed : journal.consumed[i].owner # Outside
      /\ \A q \in DOMAIN eng.account : eng.account[q].ids = CoinsOf(state.coins, q)
  BY Zenon DEF Sound
<1>2. x \in Program \X Key
  BY Zenon
<1>3. \A q \in Program \ {p}, k \in Key : <<q, k>> \in Program \X Key /\ <<q, k>> # x
  BY Zenon
<1> HIDE DEF x
<1>4. /\ state2.coins = state.coins /\ state2.scalar = state.scalar
      /\ state2.storage = [state.storage EXCEPT ![x] = v]
      /\ Shaped(state2)
  BY <1>0, <1>1, <1>2, SMTT(30), SMTT(60) DEF Shaped
<1>5. /\ eng2.account = eng.account /\ journal2 = [journal EXCEPT !.storage = kept]
      /\ eng2 \in [calls : Nat, actions : Nat, account : {eng2.account}, journal : {journal2}]
  <2>1. eng.calls \in Nat /\ eng.actions \in Nat /\ eng.actions + 1 \in Nat
    BY <1>1, SMTT(30) DEF EngineShaped
  <2>2. eng = [calls |-> eng.calls, actions |-> eng.actions,
               account |-> eng.account, journal |-> journal]
    BY <1>1, Zenon DEF EngineShaped
  <2>3. eng2 = [calls |-> eng.calls, actions |-> eng.actions + 1, account |-> eng.account,
                journal |-> [journal EXCEPT !.storage = kept]]
    BY <1>0, <2>2, Zenon
  <2>4. QED
    BY <2>1, <2>3, Zenon
<1>6. /\ journal2.consumed = journal.consumed /\ journal2.created = journal.created
      /\ journal2.states = journal.states /\ journal2.storage = kept
      /\ EngineShaped(eng2)
  BY <1>1, <1>5, Zenon DEF EngineShaped, JournalShaped
<1> HIDE DEF journal, journal2
<1>7. Over(journal2.storage, state2.storage) = Over(journal.storage, state.storage)
  <2> DEFINE f == state.storage
  <2>1. IsMap(f) /\ x \in DOMAIN f
    BY <1>1, <1>2, SMTT(30) DEF Shaped, IsMap
  <2> HIDE DEF f
  <2>2. Over(Previous(journal.storage, x, f[x]), [f EXCEPT ![x] = v]) = Over(journal.storage, f)
    BY <2>1, PreviousUndoes, SMTT(30)
  <2>3. QED
    BY <1>4, <1>6, <2>2, Zenon DEF f, kept
<1>8. Undoes(before, state2, journal2)
  BY <1>1, <1>4, <1>6, <1>7, Zenon DEF Undoes, Fits, Undone
<1>9. Keeps(state, state2, p)
  BY <1>1, <1>3, <1>4, Zenon DEF Keeps, Unhurt, Shaped
<1>10. QED
  BY <1>1, <1>4, <1>5, <1>6, <1>8, <1>9, Zenon DEF Sound, journal, journal2

(* Counting an action changes nothing else. *)
LEMMA CountedSound ==
  ASSUME NEW before, NEW n, NEW state, NEW eng, Sound(before, n, state, eng)
  PROVE  Sound(before, n, state, Counted(eng))
<1> DEFINE eng2 == Counted(eng)
<1>1. EngineShaped(eng2) /\ eng2.journal = eng.journal /\ eng2.account = eng.account
  BY DEF Sound, EngineShaped, Counted
<1> HIDE DEF eng2
<1>2. Sound(before, n, state, eng2)
  BY <1>1, SMTT(30), SMTT(60) DEF Sound
<1>3. QED
  BY <1>2, Zenon DEF eng2

(* Several steps of one program touch what one of them may. *)
LEMMA KeepsChains ==
  ASSUME NEW s1, NEW s2, NEW s3, NEW p
  PROVE  Keeps(s1, s1, p) /\ (Keeps(s1, s2, p) /\ Keeps(s2, s3, p) => Keeps(s1, s3, p))
BY DEF Keeps, Unhurt

(* Code of the older version: at most a transfer, then at most a state.    *)
LEMMA LegacySound ==
  ASSUME NEW before, NEW n, NEW state, NEW eng, Sound(before, n, state, eng),
         NEW p \in Program, NEW root, NEW r \in LegacyEffects(state, eng, p, root)
  PROVE  Sound(before, n, r.state, r.engine) /\ Keeps(state, r.state, p)
<1> DEFINE same == [state |-> state, engine |-> eng]
           sent == {same} \cup UNION {Settle(state, eng, p, to, amount, root) :
                                      to \in Program \cup {Outside}, amount \in Amount}
           Fine(x) == Sound(before, n, x.state, x.engine) /\ Keeps(state, x.state, p)
<1>1. Fine(same)
  BY KeepsChains, Zenon
<1>2. \A to, amount : \A x \in Settle(state, eng, p, to, amount, root) : Fine(x)
  BY SettleSound, Zenon
<1> HIDE DEF same, Fine
<1>3. \A x \in sent : Fine(x)
  BY <1>1, <1>2, SMTT(30), SMTT(60)
<1>4. r \in sent \/ \E x \in sent, v \in Scalar : r = WriteScalar(x.state, x.engine, p, v)
  BY SMTT(30) DEF LegacyEffects, same
<1> HIDE DEF sent
<1>5. CASE r \in sent
  BY <1>3, <1>5, SMTT(30) DEF Fine
<1>6. ASSUME NEW x \in sent, NEW v \in Scalar, r = WriteScalar(x.state, x.engine, p, v)
      PROVE  Fine(r)
  <2>1. Sound(before, n, x.state, x.engine) /\ Keeps(state, x.state, p) /\ v \in Nat
    BY <1>3, CallsAssumption, Zenon DEF Fine
  <2> DEFINE s2 == x.state
             e2 == x.engine
  <2>2. Sound(before, n, s2, e2) /\ r = WriteScalar(s2, e2, p, v)
    BY <1>6, <2>1, SMTT(30)
  <2> HIDE DEF s2, e2
  <2>3. Sound(before, n, r.state, r.engine) /\ Keeps(s2, r.state, p)
    BY <2>1, <2>2, WriteSound, ZenonT(40)
  <2>4. QED
    BY <2>1, <2>3, KeepsChains, Zenon DEF Fine, s2
<1>7. QED
  BY <1>4, <1>5, <1>6, SMTT(30) DEF Fine

-----------------------------------------------------------------------------
(* The instructions.                                                       *)

(* The programs that wait for a program they called.                       *)
Waiting == {active[k] : k \in 1 .. Len(active) - 1}

(* Nothing of a waiting program changed. *)
Untouched(state, state2) == \A q \in Waiting : Unhurt(state, state2, q)

(* A step of an invocation that goes on.                                   *)
Advanced ==
  /\ Sound(ledger, Len(done), staged', engine')
  /\ Untouched(staged, staged')
  /\ Distinct(active') /\ active' # <<>>
  /\ UNCHANGED <<ledger, done>>

(* That adds up over several steps. *)
LEMMA UntouchedChains ==
  ASSUME NEW s1, NEW s2, NEW s3
  PROVE  /\ Untouched(s1, s1)
         /\ Untouched(s1, s2) /\ Untouched(s2, s3) => Untouched(s1, s3)
BY DEF Untouched, Unhurt

(* The running program is not one of those waiting for it. *)
LEMMA SelfFacts ==
  ASSUME Inv, Running
  PROVE  /\ Self \in Program /\ Self \notin Waiting /\ Waiting \subseteq Program
         /\ Waiting \subseteq Range(active) /\ Distinct(active)
<1>1. active \in Seq(Program) /\ active # <<>> /\ Len(active) \in Nat \ {0} /\ Distinct(active)
  BY DEF Inv, Distinct, Running
<1>2. \A k \in 1 .. Len(active) - 1 : active[k] # active[Len(active)] /\ active[k] \in Program
  BY <1>1 DEF Distinct
<1>3. \A k \in 1 .. Len(active) - 1 : active[k] \in Range(active)
  BY <1>1 DEF Range
<1>4. QED
  BY <1>1, <1>2, <1>3 DEF Self, Waiting

(* What a program does that waits for no other leaves the waiting ones      *)
(* alone.                                                                   *)
LEMMA KeepsUntouched ==
  ASSUME Inv, Running, NEW p, p \notin Waiting, NEW s1, NEW s2, Keeps(s1, s2, p)
  PROVE  Untouched(s1, s2)
BY SelfFacts, Zenon DEF Keeps, Untouched

(* Each instruction keeps the copy sound and the waiting untouched: a       *)
(* transfer,                                                                *)
LEMMA TransferAdvances ==
  ASSUME Inv, NEW to, NEW amount, TransferCoin(to, amount)
  PROVE  Advanced
<1>1. Running /\ Sound(ledger, Len(done), staged, engine)
  BY Zenon DEF Inv, TransferCoin, Executing
<1>2. Self \in Program /\ Self \notin Waiting /\ Distinct(active)
  BY <1>1, SelfFacts, Zenon
<1>3. PICK r \in Settle(staged, engine, Self, to, amount, FALSE) :
        staged' = r.state /\ engine' = r.engine
  BY Zenon DEF TransferCoin, Become
<1>4. Sound(ledger, Len(done), r.state, r.engine) /\ Keeps(staged, r.state, Self)
  BY <1>1, <1>2, SettleSound, Zenon
<1>5. Untouched(staged, r.state)
  BY <1>1, <1>2, <1>4, KeepsUntouched, Zenon
<1>6. QED
  BY <1>1, <1>2, <1>3, <1>4, <1>5, Zenon DEF Advanced, TransferCoin, Running

(* a read of a balance, *)
LEMMA ReadAdvances == ASSUME Inv, ReadBalance PROVE Advanced
<1>1. Running /\ Sound(ledger, Len(done), staged, engine)
  BY Zenon DEF Inv, ReadBalance, Executing
<1>2. Distinct(active)
  BY <1>1, SelfFacts, SMTT(30), SMTT(60)
<1> DEFINE account == EnsureAccounts(engine.account, staged.coins, Self)
<1>3. \A q \in DOMAIN account : account[q].ids = CoinsOf(staged.coins, q)
  BY <1>1, EnsureFacts, SMTT(30) DEF Sound
<1>4. engine' = [engine EXCEPT !.account = account]
  BY Zenon DEF ReadBalance
<1> HIDE DEF account
<1>5. EngineShaped(engine') /\ engine'.journal = engine.journal /\ engine'.account = account
  BY <1>1, <1>4, Zenon DEF Sound, EngineShaped
<1>6. Sound(ledger, Len(done), staged, engine')
  BY <1>1, <1>3, <1>5, Zenon DEF Sound
<1>7. QED
  BY <1>1, <1>2, <1>6, UntouchedChains, Zenon DEF Advanced, ReadBalance, Running

(* a write of the scalar state, *)
LEMMA StateAdvances == ASSUME Inv, NEW v \in Scalar, SetState(v) PROVE Advanced
<1>1. Running /\ Sound(ledger, Len(done), staged, engine)
  BY Zenon DEF Inv, SetState, Executing
<1>2. Self \in Program /\ Self \notin Waiting /\ Distinct(active)
  BY <1>1, SelfFacts, Zenon
<1> DEFINE eng == [engine EXCEPT !.actions = @ + 1]
           r   == WriteScalar(staged, eng, Self, v)
<1>3. EngineShaped(eng) /\ eng.journal = engine.journal /\ eng.account = engine.account
  BY <1>1 DEF Sound, EngineShaped
<1>4. staged' = r.state /\ engine' = r.engine
  BY Zenon DEF SetState, Become
<1> HIDE DEF eng
<1>5. Sound(ledger, Len(done), staged, eng)
  BY <1>1, <1>3, Zenon DEF Sound
<1>6. v \in Nat
  BY CallsAssumption, Zenon
<1> HIDE DEF r
<1>7. Sound(ledger, Len(done), r.state, r.engine) /\ Keeps(staged, r.state, Self)
  BY <1>2, <1>5, <1>6, WriteSound, Zenon DEF r
<1>8. Untouched(staged, r.state)
  BY <1>1, <1>2, <1>7, KeepsUntouched, Zenon
<1>9. QED
  BY <1>1, <1>2, <1>4, <1>7, <1>8, Zenon DEF Advanced, SetState, Running

(* a write of storage, *)
LEMMA StorageAdvances ==
  ASSUME Inv, NEW key \in Key, NEW v \in Value \cup {None}, SetStorage(key, v)
  PROVE  Advanced
<1>1. Running /\ Sound(ledger, Len(done), staged, engine)
  BY Zenon DEF Inv, SetStorage, Executing
<1>2. Self \in Program /\ Self \notin Waiting /\ Distinct(active)
  BY <1>1, SelfFacts, Zenon
<1>3. Stored(staged, engine, Self, key, v, staged', engine')
  BY Zenon DEF SetStorage, Stored
<1>4. Sound(ledger, Len(done), staged', engine') /\ Keeps(staged, staged', Self)
  BY <1>1, <1>2, <1>3, StoreSound, Zenon
<1>5. Untouched(staged, staged')
  BY <1>1, <1>2, <1>4, KeepsUntouched, Zenon
<1>6. QED
  BY <1>1, <1>2, <1>4, <1>5, Zenon DEF Advanced, SetStorage, Running

(* (a call of a program that is not running yet leaves all distinct) *)
LEMMA PushDistinct ==
  ASSUME NEW calls, Distinct(calls), NEW p \in Program, p \notin Range(calls)
  PROVE  Distinct(Append(calls, p)) /\ Append(calls, p) # <<>>
<1> DEFINE more == Append(calls, p)
<1>1. calls \in Seq(Program) /\ Len(calls) \in Nat
  BY DEF Distinct
<1>2. /\ more \in Seq(Program) /\ Len(more) = Len(calls) + 1 /\ more # <<>>
      /\ \A i \in 1 .. Len(calls) : more[i] = calls[i] /\ more[i] # p
      /\ more[Len(calls) + 1] = p
  BY <1>1 DEF Range
<1> HIDE DEF more
<1>3. \A i, k \in 1 .. Len(more) : more[i] = more[k] => i = k
  BY <1>1, <1>2 DEF Distinct
<1>4. Distinct(more)
  BY <1>2, <1>3, Zenon DEF Distinct
<1>5. QED
  BY <1>2, <1>4, Zenon DEF more

(* A program is called on a state nothing that waits has been hurt in.     *)
LEMMA EnterAdvances ==
  ASSUME Inv, Running, NEW p \in Program, Admits(p),
         NEW state, NEW eng, Sound(ledger, Len(done), state, eng), Untouched(staged, state),
         Enter(p, state, eng), UNCHANGED <<ledger, done>>
  PROVE  Advanced
<1>1. p \notin Range(active) /\ p \notin Waiting /\ Distinct(active)
  BY SelfFacts, Zenon DEF Admits
<1>2. Sound(ledger, Len(done), state, Counted(eng))
  BY CountedSound, Zenon
<1>3. CASE active' = Append(active, p) /\ staged' = state /\ engine' = Counted(eng)
  <2>1. Distinct(active') /\ active' # <<>>
    BY <1>1, <1>3, PushDistinct, Zenon
  <2>2. QED
    BY <1>2, <1>3, <2>1, Zenon DEF Advanced
<1>4. CASE /\ \E r \in LegacyEffects(state, Counted(eng), p, FALSE) : Become(r)
           /\ active' = active
  <2> DEFINE eng2 == Counted(eng)
  <2>1. PICK r \in LegacyEffects(state, eng2, p, FALSE) : staged' = r.state /\ engine' = r.engine
    BY <1>4, Zenon DEF Become
  <2> HIDE DEF eng2
  <2>2. Sound(ledger, Len(done), state, eng2)
    BY <1>2, Zenon DEF eng2
  <2>3. Sound(ledger, Len(done), r.state, r.engine) /\ Keeps(state, r.state, p)
    BY <2>2, LegacySound, Zenon
  <2>4. Untouched(staged, r.state)
    BY <1>1, <2>3, KeepsUntouched, UntouchedChains, Zenon
  <2>5. QED
    BY <1>1, <1>4, <2>1, <2>3, <2>4, Zenon DEF Advanced, Running
<1>5. QED
  BY <1>3, <1>4, Zenon DEF Enter

(* a call, *)
LEMMA CallAdvances == ASSUME Inv, NEW p \in Program, Call(p) PROVE Advanced
<1>1. Running /\ Sound(ledger, Len(done), staged, engine) /\ Untouched(staged, staged)
  BY UntouchedChains, Zenon DEF Inv, Call, Executing
<1>2. Admits(p) /\ Enter(p, staged, engine) /\ UNCHANGED <<ledger, done>>
  BY Zenon DEF Call
<1>3. QED
  BY <1>1, <1>2, EnterAdvances, Zenon

(* a call with a deposit, *)
LEMMA DepositAdvances ==
  ASSUME Inv, NEW p \in Program, NEW amount, CallWithDeposit(p, amount)
  PROVE  Advanced
<1>1. Running /\ Sound(ledger, Len(done), staged, engine)
  BY Zenon DEF Inv, CallWithDeposit, Executing
<1>2. Self \in Program /\ Self \notin Waiting
  BY <1>1, SelfFacts, Zenon
<1>3. PICK r \in Settle(staged, engine, Self, p, amount, FALSE) : Enter(p, r.state, r.engine)
  BY Zenon DEF CallWithDeposit
<1>4. Admits(p) /\ UNCHANGED <<ledger, done>>
  BY Zenon DEF CallWithDeposit
<1>5. Sound(ledger, Len(done), r.state, r.engine) /\ Keeps(staged, r.state, Self)
  BY <1>1, <1>2, SettleSound, Zenon
<1>6. Untouched(staged, r.state)
  BY <1>1, <1>2, <1>5, KeepsUntouched, Zenon
<1>7. QED
  BY <1>1, <1>3, <1>4, <1>5, <1>6, EnterAdvances, Zenon

(* a return, *)
LEMMA ReturnAdvances == ASSUME Inv, Return PROVE Advanced
<1>1. Sound(ledger, Len(done), staged, engine) /\ Untouched(staged, staged) /\ Distinct(active)
  BY UntouchedChains, Zenon DEF Inv
<1>2. active \in Seq(Program) /\ Len(active) \in Nat /\ Len(active) > 1
  BY <1>1 DEF Distinct, Return
<1>3. active' = SubSeq(active, 1, Len(active) - 1)
  BY Zenon DEF Return
<1>4. /\ active' \in Seq(Program) /\ Len(active') = Len(active) - 1
      /\ \A i \in 1 .. Len(active') : active'[i] = active[i]
  BY <1>2, <1>3
<1>5. Distinct(active') /\ active' # <<>>
  BY <1>1, <1>2, <1>4, SMTT(30) DEF Distinct
<1>6. QED
  BY <1>1, <1>5, Zenon DEF Advanced, Return

(* and the first call of an invocation. *)
LEMMA BeginAdvances == ASSUME Inv, NEW p \in Program, Begin(p) PROVE Advanced
<1>1. Sound(ledger, Len(done), staged, engine) /\ active = <<>>
  BY Zenon DEF Inv, Begin, Running
<1>2. Waiting = {}
  BY <1>1 DEF Waiting
<1>3. \A s2 : Untouched(staged, s2)
  BY <1>2, Zenon DEF Untouched
<1>4. Distinct(active') /\ active' # <<>>
  <2>1. active' = <<p>>
    BY Zenon DEF Begin
  <2>2. QED
    BY <2>1 DEF Distinct
<1>5. Sound(ledger, Len(done), staged, Counted(engine))
  BY <1>1, CountedSound, Zenon
<1>6. Sound(ledger, Len(done), staged', engine')
  <2>1. CASE engine' = Counted(engine) /\ staged' = staged
    BY <1>5, <2>1, Zenon
  <2>2. CASE \E r \in LegacyEffects(staged, Counted(engine), p, TRUE) : Become(r)
    <3> DEFINE eng == Counted(engine)
    <3>1. PICK r \in LegacyEffects(staged, eng, p, TRUE) : staged' = r.state /\ engine' = r.engine
      BY <2>2, Zenon DEF Become
    <3>2. Sound(ledger, Len(done), staged, eng)
      BY <1>5, Zenon
    <3> HIDE DEF eng
    <3>3. Sound(ledger, Len(done), r.state, r.engine)
      BY <3>2, LegacySound, Zenon
    <3>4. QED
      BY <3>1, <3>3, Zenon
  <2>3. QED
    BY <2>1, <2>2, Zenon DEF Begin
<1>7. QED
  BY <1>3, <1>4, <1>6, SMTT(30) DEF Advanced, Begin

-----------------------------------------------------------------------------
(* The invocation ends: it fails, is applied, or is undone.                *)

(* A copy of the ledger with an empty journal is sound. *)
LEMMA FreshSound ==
  ASSUME NEW l, NEW n, Shaped(l), Unpaid(l.coins, n)
  PROVE  Sound(l, n, l, FreshEngine)
<1> DEFINE journal == FreshEngine.journal
<1>1. /\ EngineShaped(FreshEngine) /\ DOMAIN FreshEngine.account = {}
      /\ journal.created = {} /\ DOMAIN journal.consumed = {}
      /\ DOMAIN journal.states = {} /\ DOMAIN journal.storage = {}
  BY Zenon DEF FreshEngine, EngineShaped, JournalShaped, EmptyMap
<1>2. IsMap(l.coins) /\ IsMap(l.scalar) /\ IsMap(l.storage)
  BY Zenon DEF Shaped, IsMap
<1>3. l = [scalar |-> l.scalar, storage |-> l.storage, coins |-> l.coins]
  BY SMTT(30) DEF Shaped
<1> HIDE DEF journal
<1>4. Over(journal.states, l.scalar) = l.scalar /\ Over(journal.storage, l.storage) = l.storage
  BY <1>1, <1>2, ZenonT(40) DEF Over, IsMap
<1>5. Over(Without(l.coins, journal.created), journal.consumed) = l.coins
  BY <1>1, <1>2, SMTT(30) DEF Over, Without, Restrict, IsMap
<1>6. Undoes(l, l, journal)
  BY <1>1, <1>3, <1>4, <1>5, Zenon DEF Undoes, Fits, Undone
<1>7. QED
  BY <1>1, <1>6, Zenon DEF Sound, journal

(* The invariant holds at the beginning. *)
LEMMA InitInv == Init => Inv
<1> SUFFICES ASSUME Init PROVE Inv
  BY Zenon
<1>1. done = <<>> /\ active = <<>> /\ staged = ledger /\ engine = FreshEngine
  BY SMTT(30) DEF Init
<1>2. Shaped(ledger) /\ ledger.coins = FirstCoins
  <2>1. IsMap(FirstCoins)
    BY CallsAssumption, SMTT(30) DEF IsMap
  <2>2. QED
    BY <2>1, Zenon DEF Init, Shaped
<1>3. Unpaid(ledger.coins, Len(done))
  <2>1. \A t \in Nat : t > 0 => OutputId(t, Outside, 0, 0)[1] # 0
    BY DEF OutputId
  <2>2. \A i \in DOMAIN FirstCoins : i[1] = 0
    BY CallsAssumption, Zenon
  <2>3. QED
    BY <1>1, <1>2, <2>1, <2>2, Zenon DEF Unpaid
<1>4. Sound(ledger, Len(done), ledger, FreshEngine)
  BY <1>2, <1>3, FreshSound, Zenon
<1>5. Distinct(active) /\ History /\ done \in Seq({})
  BY <1>1 DEF Distinct, History
<1>6. \E S : done \in Seq(S)
  BY <1>5, Zenon
<1>7. QED
  BY <1>1, <1>4, <1>5, <1>6, SMTT(30) DEF Inv, Running

(* What a step that leaves ledger and history alone keeps of it. *)
LEMMA SameHistory ==
  ASSUME Inv, UNCHANGED <<ledger, done>>
  PROVE  /\ Sound(ledger, Len(done), ledger, FreshEngine)'
         /\ (\E S : done \in Seq(S))' /\ History'
         /\ Len(done)' = Len(done)
BY Zenon DEF Inv, History, AfterOf

(* Instructions preserve the invariant. *)
LEMMA AdvancedInv == ASSUME Inv, Advanced PROVE Inv'
<1>1. UNCHANGED <<ledger, done>> /\ Running'
  BY Zenon DEF Advanced, Running
<1>2. Sound(ledger, Len(done), staged, engine)' /\ Distinct(active)'
  BY <1>1, Zenon DEF Advanced
<1>3. QED
  BY <1>1, <1>2, SameHistory, Zenon DEF Inv

(* A failed invocation drops its copy. *)
LEMMA FailInv == ASSUME Inv, Fail PROVE Inv'
<1>1. UNCHANGED <<ledger, done>> /\ staged' = ledger' /\ engine' = FreshEngine /\ active' = <<>>
  BY Zenon DEF Fail
<1>2. FreshEngine' = FreshEngine
  BY Zenon DEF FreshEngine, EmptyMap
<1>3. Sound(ledger, Len(done), ledger, FreshEngine)'
  BY <1>1, SameHistory, Zenon
<1>4. Sound(ledger, Len(done), staged, engine)'
  BY <1>1, <1>2, <1>3, Zenon
<1>5. Distinct(active)'
  BY <1>1 DEF Distinct
<1>6. QED
  BY <1>1, <1>2, <1>3, <1>4, <1>5, SameHistory, Zenon DEF Inv

(* A coin of the signer is in the copy as it is in the ledger: no program  *)
(* consumed it.                                                            *)
LEMMA PaidStays ==
  ASSUME NEW n, NEW state, NEW eng, Sound(ledger, n, state, eng), NEW paid \in Payments
  PROVE  /\ paid \subseteq DOMAIN state.coins
         /\ paid \cap eng.journal.created = {}
         /\ paid \cap DOMAIN eng.journal.consumed = {}
<1> DEFINE coins   == state.coins
           journal == eng.journal
<1>1. /\ DOMAIN journal.consumed \cap (DOMAIN coins \ journal.created) = {}
      /\ ledger.coins = Over(Without(coins, journal.created), journal.consumed)
      /\ \A i \in DOMAIN journal.consumed : journal.consumed[i].owner # Outside
  BY Zenon DEF Sound, Undoes, Fits, Undone
<1>2. \A i \in paid : i \in DOMAIN ledger.coins /\ ledger.coins[i].owner = Outside
  BY Zenon DEF Payments, CoinsOf
<1> HIDE DEF coins, journal
<1>3. /\ DOMAIN ledger.coins = (DOMAIN coins \ journal.created) \cup DOMAIN journal.consumed
      /\ \A i \in DOMAIN journal.consumed \ (DOMAIN coins \ journal.created) :
           ledger.coins[i] = journal.consumed[i]
  BY <1>1, Zenon DEF Over, Without, Restrict
<1>4. \A i \in paid : i \notin DOMAIN journal.consumed
  BY <1>1, <1>2, <1>3, Zenon
<1>5. \A i \in paid : i \in DOMAIN coins \ journal.created
  BY <1>2, <1>3, <1>4, Zenon
<1>6. QED
  BY <1>4, <1>5, Zenon DEF coins, journal

(* The payment is undone by the journal it was added to.                   *)
LEMMA PaySound ==
  ASSUME Inv, NEW paid \in Payments, NEW to, NEW r, r = Pay(staged, engine.journal, paid, to)
  PROVE  /\ Shaped(r.state) /\ Unpaid(r.state.coins, Tag)
         /\ Undoes(ledger, r.state, r.journal)
<1> DEFINE coins   == staged.coins
           journal == engine.journal
           made    == [i \in {OutputId(Tag, Outside, 0, 0) : x \in paid} |->
                         [owner |-> to, amount |-> Worth(coins, paid)]]
           coins2  == r.state.coins
           journal2 == r.journal
<1>1. /\ Sound(ledger, Len(done), staged, engine) /\ Shaped(staged) /\ EngineShaped(engine)
      /\ Unpaid(coins, Len(done)) /\ Undoes(ledger, staged, journal)
      /\ Len(done) \in Nat
  BY DEF Inv, Sound
<1>2. /\ paid \subseteq DOMAIN coins /\ paid \cap journal.created = {}
      /\ paid \cap DOMAIN journal.consumed = {}
  BY <1>1, PaidStays, Zenon
<1>3. /\ r.state = [staged EXCEPT !.coins = Over(Without(coins, paid), made)]
      /\ journal2 = [journal EXCEPT !.consumed = Over(Restrict(coins, paid), journal.consumed),
                                    !.created  = DOMAIN made \cup journal.created]
  BY Zenon DEF Pay
<1>4. DOMAIN made \subseteq {OutputId(Tag, Outside, 0, 0)}
  BY Zenon
<1> HIDE DEF made
<1>5. /\ r.state.scalar = staged.scalar /\ r.state.storage = staged.storage
      /\ coins2 = Over(Without(coins, paid), made)
      /\ r.state = [scalar |-> staged.scalar, storage |-> staged.storage, coins |-> coins2]
  BY <1>1, <1>3, Zenon DEF Shaped
<1>6. /\ journal2.consumed = Over(Restrict(coins, paid), journal.consumed)
      /\ journal2.created = DOMAIN made \cup journal.created
      /\ journal2.states = journal.states /\ journal2.storage = journal.storage
  BY <1>1, <1>3, Zenon DEF EngineShaped, JournalShaped
<1>7. DOMAIN made \cap DOMAIN coins = {}
  <2>1. Tag \in Nat /\ Tag > Len(done)
    BY <1>1 DEF Tag
  <2>2. QED
    BY <1>1, <1>4, <2>1, Zenon DEF Unpaid
<1>8. journal.created \subseteq DOMAIN coins /\ DOMAIN journal.consumed \cap (DOMAIN coins \ journal.created) = {}
  BY <1>1, Zenon DEF Undoes, Fits
<1> HIDE DEF coins2, journal2, coins, journal
<1>9. CoinsMoved(coins, paid, made, coins2)
  BY <1>5, <1>7, MovedCoins, Zenon
<1>10. IsMap(coins2) /\ DOMAIN coins2 = (DOMAIN coins \ paid) \cup DOMAIN made
  BY <1>9, Zenon DEF CoinsMoved
<1>11. Shaped(r.state)
  BY <1>1, <1>5, <1>10, Zenon DEF Shaped, coins2
<1>12. Unpaid(coins2, Tag)
  <2>1. Tag \in Nat /\ Tag = Len(done) + 1
    BY <1>1 DEF Tag
  <2>2. \A t \in Nat : t > Tag => t # Tag /\ t > Len(done)
    BY <1>1, <2>1
  <2>3. ASSUME NEW t \in Nat, t > Tag
        PROVE  OutputId(t, Outside, 0, 0) # OutputId(Tag, Outside, 0, 0)
    BY <2>2, <2>3, Zenon DEF OutputId
  <2>4. ASSUME NEW t \in Nat, t > Tag
        PROVE  OutputId(t, Outside, 0, 0) \notin DOMAIN coins2
    BY <1>1, <1>4, <1>10, <2>2, <2>3, <2>4, Zenon DEF Unpaid
  <2>5. QED
    BY <2>4, Zenon DEF Unpaid
<1>13. /\ journal2.consumed = Over(journal.consumed, Restrict(coins, paid \ journal.created))
       /\ journal2.created = (journal.created \ paid) \cup DOMAIN made
  <2>1. paid \ journal.created = paid /\ journal.created \ paid = journal.created
    BY <1>2, Zenon
  <2>2. Over(Restrict(coins, paid), journal.consumed) = Over(journal.consumed, Restrict(coins, paid))
    BY <1>2, Zenon DEF Over, Restrict
  <2>3. DOMAIN made \cup journal.created = journal.created \cup DOMAIN made
    BY Zenon
  <2>4. QED
    BY <1>6, <2>1, <2>2, <2>3, Zenon
<1>14. SameUndone(coins, journal.consumed, journal.created,
                  coins2, journal2.consumed, journal2.created)
  BY <1>2, <1>5, <1>7, <1>8, <1>13, RecordUndoes, Zenon
<1>15. Fits(r.state, journal2)
  BY <1>14, Zenon DEF SameUndone, Fits, coins2
<1>16. Undone(r.state, journal2) = Undone(staged, journal)
  <2>1. Over(Without(coins2, journal2.created), journal2.consumed)
          = Over(Without(coins, journal.created), journal.consumed)
    BY <1>14, Zenon DEF SameUndone
  <2>2. QED
    BY <1>5, <1>6, <2>1, Zenon DEF Undone, coins2, coins
<1>17. Undoes(ledger, r.state, journal2)
  BY <1>1, <1>15, <1>16, Zenon DEF Undoes
<1>18. QED
  BY <1>11, <1>12, <1>17, Zenon DEF coins2, journal2

(* A commit adds the journal of the copy, with the payments, to the         *)
(* history.                                                                 *)
LEMMA CommitInv == ASSUME Inv, NEW paid \in Payments, Commit(paid) PROVE Inv'
<1> DEFINE r == Pay(staged, engine.journal, paid, Self)
           entry == [journal |-> r.journal, before |-> ledger]
           n == Len(done)
<1>1. /\ ledger' = r.state /\ staged' = r.state
      /\ done' = Append(done, entry)
      /\ active' = <<>> /\ engine' = FreshEngine
  BY Zenon DEF Commit
<1> HIDE DEF r
<1>2. Shaped(r.state) /\ Unpaid(r.state.coins, Tag) /\ Undoes(ledger, r.state, r.journal)
  BY PaySound, Zenon DEF r
<1>3. PICK S : done \in Seq(S)
  BY Zenon DEF Inv
<1>4. entry.before = ledger /\ entry.journal = r.journal
  BY Zenon
<1> HIDE DEF entry
<1>5. /\ done' \in Seq(S \cup {entry}) /\ Len(done') = n + 1 /\ n \in Nat
      /\ \A k \in 1 .. n : done'[k] = done[k]
      /\ done'[n + 1] = entry
  <2>1. done \in Seq(S \cup {entry})
    BY <1>3
  <2>2. QED
    BY <1>1, <2>1
<1>6. Unpaid(r.state.coins, Len(done'))
  BY <1>2, <1>5, Zenon DEF Tag
<1>7. Sound(ledger, Len(done), ledger, FreshEngine)'
  <2>1. Sound(ledger', Len(done'), ledger', FreshEngine)
    BY <1>1, <1>2, <1>6, FreshSound, Zenon
  <2>2. QED
    BY <2>1, Zenon
<1>8. Sound(ledger, Len(done), staged, engine)'
  BY <1>1, <1>7, Zenon DEF FreshEngine, EmptyMap
<1>9. History'
  <2> SUFFICES ASSUME NEW k \in 1 .. Len(done')
               PROVE  /\ Shaped(done'[k].before) /\ Unpaid(done'[k].before.coins, k - 1)
                      /\ Undoes(done'[k].before, AfterOf(k)', done'[k].journal)
    BY Zenon DEF History
  <2>1. CASE k = n + 1
    <3>1. AfterOf(k)' = r.state
      BY <1>1, <1>5, <2>1, Zenon DEF AfterOf
    <3>2. Shaped(ledger) /\ Unpaid(ledger.coins, n)
      BY Zenon DEF Inv, Sound
    <3>3. done'[k].before = ledger /\ done'[k].journal = r.journal /\ k - 1 = n
      BY <1>4, <1>5, <2>1
    <3>4. QED
      BY <1>2, <3>1, <3>2, <3>3, Zenon
  <2>2. CASE k \in 1 .. n
    <3>1. done'[k] = done[k]
      BY <1>5, <2>2, Zenon
    <3>2. AfterOf(k)' = AfterOf(k)
      BY <1>4, <1>5, <2>2 DEF AfterOf
    <3>3. /\ Shaped(done[k].before) /\ Unpaid(done[k].before.coins, k - 1)
          /\ Undoes(done[k].before, AfterOf(k), done[k].journal)
      BY <2>2, Zenon DEF Inv, History
    <3>4. QED
      BY <3>1, <3>2, <3>3, Zenon
  <2>3. QED
    BY <1>5, <2>1, <2>2
<1>10. Distinct(active)' /\ (\E T : done \in Seq(T))'
  <2>1. Distinct(active)'
    BY <1>1 DEF Distinct
  <2>2. \E T : done' \in Seq(T)
    BY <1>5, Zenon
  <2>3. QED
    BY <2>1, <2>2, Zenon
<1>11. (~Running => staged = ledger /\ engine = FreshEngine)'
  BY <1>1, Zenon DEF FreshEngine, EmptyMap
<1>12. QED
  BY <1>7, <1>8, <1>9, <1>10, <1>11, Zenon DEF Inv

(* A sequence without its last element. *)
LEMMA FrontFacts ==
  ASSUME NEW S, NEW s \in Seq(S), s # <<>>, NEW m, m = Len(s) - 1,
         NEW front, front = SubSeq(s, 1, m)
  PROVE  /\ Len(s) \in Nat \ {0} /\ m \in Nat
         /\ front \in Seq(S) /\ Len(front) = m
         /\ \A k \in 1 .. m : front[k] = s[k]
<1>1. Len(s) \in Nat \ {0} /\ m \in Nat
  OBVIOUS
<1>2. Len(front) = m
  BY <1>1
<1>3. front \in Seq(S)
  BY <1>1
<1>4. \A k \in 1 .. m : front[k] = s[k]
  BY <1>1
<1>5. QED
  BY <1>1, <1>2, <1>3, <1>4, Zenon

(* Undoing the last invocation leads back to the state before it. *)
LEMMA RollbackInv == ASSUME Inv, Rollback PROVE Inv'
<1> DEFINE n == Len(done)
<1>1. /\ staged = ledger /\ engine = FreshEngine /\ active = <<>> /\ Distinct(active)
      /\ done # <<>> /\ History
      /\ ledger' = Undone(ledger, done[n].journal) /\ staged' = ledger'
      /\ done' = SubSeq(done, 1, n - 1)
      /\ active' = active /\ engine' = engine
  BY Zenon DEF Rollback, Inv, Running
<1>2. PICK S : done \in Seq(S)
  BY Zenon DEF Inv
<1>3. /\ n \in Nat \ {0} /\ done' \in Seq(S) /\ Len(done') = n - 1
      /\ \A k \in 1 .. n - 1 : done'[k] = done[k]
  <2> DEFINE m == n - 1
  <2>1. done # <<>> /\ m = Len(done) - 1 /\ done' = SubSeq(done, 1, m)
    BY <1>1, Zenon
  <2> HIDE DEF m
  <2>2. /\ Len(done) \in Nat \ {0} /\ done' \in Seq(S) /\ Len(done') = m
        /\ \A k \in 1 .. m : done'[k] = done[k]
    BY <1>2, <2>1, FrontFacts
  <2>3. QED
    BY <2>2, Zenon DEF m
<1>4. /\ Shaped(done[n].before) /\ Unpaid(done[n].before.coins, n - 1)
      /\ ledger' = done[n].before
  <2>1. AfterOf(n) = ledger
    BY Zenon DEF AfterOf
  <2>2. Undoes(done[n].before, AfterOf(n), done[n].journal)
        /\ Shaped(done[n].before) /\ Unpaid(done[n].before.coins, n - 1)
    BY <1>1, <1>3 DEF History
  <2>3. QED
    BY <1>1, <2>1, <2>2, Zenon DEF Undoes
<1>5. Sound(ledger', Len(done'), ledger', FreshEngine)
  BY <1>3, <1>4, FreshSound, Zenon
<1>6. History'
  <2> SUFFICES ASSUME NEW k \in 1 .. Len(done')
               PROVE  /\ Shaped(done'[k].before) /\ Unpaid(done'[k].before.coins, k - 1)
                      /\ Undoes(done'[k].before, AfterOf(k)', done'[k].journal)
    BY Zenon DEF History
  <2>1. k \in 1 .. n /\ k # n /\ done'[k] = done[k]
    BY <1>3
  <2>2. AfterOf(k) = done[k + 1].before
    BY <2>1, Zenon DEF AfterOf
  <2>3. AfterOf(k)' = done[k + 1].before
    BY <1>3, <1>4, <2>1 DEF AfterOf
  <2>4. QED
    BY <1>1, <2>1, <2>2, <2>3, Zenon DEF History
<1>7. \E T : done' \in Seq(T)
  BY <1>3, Zenon
<1>8. FreshEngine' = FreshEngine
  BY Zenon DEF FreshEngine, EmptyMap
<1>9. QED
  BY <1>1, <1>5, <1>6, <1>7, <1>8, Zenon DEF Inv

-----------------------------------------------------------------------------
(* Every instruction is one of those above or fails. *)
LEMMA InstructionAdvances == ASSUME Inv, InstructionStep PROVE Advanced \/ Fail
BY TransferAdvances, ReadAdvances, StateAdvances, StorageAdvances, CallAdvances,
   DepositAdvances, ReturnAdvances, Zenon DEF InstructionStep

(* Every step but the invocation's end is an advance.                      *)
LEMMA Steps ==
  ASSUME Inv, Next
  PROVE  Advanced \/ Fail \/ (\E paid \in Payments : Commit(paid)) \/ Rollback
BY InstructionAdvances, BeginAdvances, Zenon DEF Next

(* A stuttering step preserves the invariant. *)
LEMMA StutterInv == ASSUME Inv, UNCHANGED vars PROVE Inv'
<1>1. /\ ledger' = ledger /\ staged' = staged /\ active' = active
      /\ engine' = engine /\ done' = done
  BY Zenon DEF vars
<1>2. Sound(ledger, Len(done), staged, engine)' /\ Distinct(active)'
  BY <1>1, Zenon DEF Inv
<1>3. (~Running => staged = ledger /\ engine = FreshEngine)'
  BY <1>1, Zenon DEF Inv, Running, FreshEngine, EmptyMap
<1>4. QED
  BY <1>1, <1>2, <1>3, SameHistory, Zenon DEF Inv

(* The invariant of calls holds in every behaviour. *)
LEMMA Invariance == Spec => []Inv
<1>1. Inv /\ [Next]_vars => Inv'
  BY Steps, AdvancedInv, FailInv, CommitInv, RollbackInv, StutterInv, Zenon
<1>2. QED
  BY <1>1, InitInv, PTL DEF Spec

(* Every invocation applied can be undone, newest first, whatever programs *)
(* were called in it, in whatever nesting, and however often they wrote    *)
(* the same state or passed on the same coins: rollback accepts its        *)
(* journal, which leads to the very ledger it was applied to.              *)
THEOREM InvocationsCanBeUndone == Spec => []RollbackRestores
<1>1. Inv => RollbackRestores
  BY Zenon DEF Inv, History, RollbackRestores, AfterOf, Undoes
<1>2. QED
  BY <1>1, Invariance, PTL

(* The body of WaitingUntouched. *)
WaitersKept ==
  active' # <<>> =>
    \A k \in 1 .. Len(active) - 1 :
      LET p == active[k]
      IN  /\ staged'.scalar[p] = staged.scalar[p]
          /\ \A key \in Key : staged'.storage[<<p, key>>] = staged.storage[<<p, key>>]
          /\ CoinsOf(staged.coins, p) \subseteq CoinsOf(staged'.coins, p)

(* The programs that wait for a call find their state and storage as they  *)
(* were and all their coins, whatever the programs called do, also to one  *)
(* another: none can be entered again, and a program spends only what the  *)
(* lookup gives it, which is never another's.                              *)
THEOREM WaitersAreUntouched == Spec => WaitingUntouched
<1>1. ASSUME Inv, Next PROVE WaitersKept
  <2>1. CASE Advanced
    BY <2>1, Zenon DEF Advanced, Untouched, Unhurt, Waiting, WaitersKept
  <2>2. CASE Fail \/ \E paid \in Payments : Commit(paid)
    BY <2>2, Zenon DEF Fail, Commit, WaitersKept
  <2>3. CASE Rollback
    BY <2>3, Zenon DEF Rollback, Running, WaitersKept
  <2>4. QED
    BY <1>1, <2>1, <2>2, <2>3, Steps, Zenon
<1>2. Inv /\ [Next]_vars => [WaitersKept]_vars
  BY <1>1, Zenon
<1>3. [][WaitersKept]_vars => WaitingUntouched
  BY PTL DEF WaitersKept, WaitingUntouched
<1>4. QED
  BY <1>2, <1>3, Invariance, PTL DEF Spec

=============================================================================
