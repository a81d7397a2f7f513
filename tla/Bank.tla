-------------------------------- MODULE Bank --------------------------------
(***************************************************************************)
(* What a transfer promises: it happens at once, and only when the source  *)
(* account can pay for it.                                                 *)
(***************************************************************************)
EXTENDS Naturals

CONSTANTS Account, Amount, InitialBalance

VARIABLE balance

Init == balance = [a \in Account |-> InitialBalance]

Transfer(from, to, amount) ==
  /\ from # to
  /\ balance[from] >= amount
  /\ balance' = [balance EXCEPT ![from] = @ - amount, ![to] = @ + amount]

Next == \E from, to \in Account, amount \in Amount : Transfer(from, to, amount)

Spec == Init /\ [][Next]_balance
=============================================================================
