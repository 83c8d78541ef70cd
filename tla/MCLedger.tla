------------------------------ MODULE MCLedger ------------------------------
(***************************************************************************)
(* A small instance of Ledger.  The subsidy is 20 at height 1; from height *)
(* 2 on it is the tail, 10, offset by fees.  The miner burn is 1.          *)
(* Two transfers compete for the first emission coin; a deployment, a VM   *)
(* call and an asset call build on their outputs.                          *)
(***************************************************************************)
EXTENDS LedgerInv

CONSTANTS a, b, P   \* two accounts and a contract

Op(id, kind, signer, inputs, outputs, fee, size) ==
  [id |-> id, kind |-> kind, signer |-> signer, inputs |-> inputs,
   outputs |-> outputs, fee |-> fee, size |-> size, growth |-> 0, fuel |-> 0,
   program |-> Absent, nonce |-> 0, value |-> Absent, pay |-> 0, payee |-> signer,
   reads |-> EmptyMap, writes |-> EmptyMap]

To(owner, amount) == [owner |-> owner, amount |-> amount]

FirstEmission == EmissionShare(<<<<Absent, << >>>>>>, a, 20)

\* 19 in; 6 + 8 out, fee 2, burn 1 + (3 - 1)
Split == Op("split", "transfer", a, {FirstEmission}, <<To(b, 6), To(a, 8)>>, 2, 1)

\* spends the same coin: 19 in; 17 out, burn 2
Rival == Op("rival", "transfer", a, {FirstEmission}, <<To(b, 17)>>, 0, 2)

\* claims that the first emission were 9: 7 out, burn 2
Short == Op("short", "transfer", a, {FirstEmission}, <<To(b, 7)>>, 0, 2)

\* 8 in; 4 out to the contract, fee 1, burn 1 + (2 - 1) + 1
Deploy == [Op("deploy", "deploy", a, {<<"split", 1>>}, <<To(P, 4)>>, 1, 1)
             EXCEPT !.program = P, !.growth = 1]

\* 6 in; 1 out, fee 1, burn 1 + (2 + 2 - 1 - 1) + 1 fuel; the contract pays 3
Call == [Op("call", "vm", b, {<<"split", 0>>}, <<To(b, 1)>>, 1, 1)
           EXCEPT !.program = P, !.value = 7, !.pay = 3, !.payee = b, !.fuel = 1]

\* 17 in; 4 out, fee 9, burn 2 + (2 - 1) + 1; its fee offsets the whole tail
Register == [Op("register", "asset", b, {<<"rival", 0>>}, <<To(b, 4)>>, 9, 2)
               EXCEPT !.growth = 1, !.reads = [k \in AssetKey |-> Absent],
                      !.writes = [k \in AssetKey |-> 1]]

MCOperation == {Split, Rival, Short, Deploy, Call, Register}

=============================================================================
