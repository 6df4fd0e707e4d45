------------------------------ MODULE MCLedger ------------------------------
(* Instances of Ledger for TLC.                                            *)
EXTENDS Ledger

CONSTANTS Alice, Bob

(* Alice mines and pays Bob, once nothing but a fee and once more than a   *)
(* reward, so that she needs several outputs and both payments can take the*)
(* same; Bob pays a part back.                                             *)
TwoWallets ==
    {[from |-> Alice, to |-> Bob, amount |-> 0, fee |-> 1],
     [from |-> Alice, to |-> Bob, amount |-> 5, fee |-> 0],
     [from |-> Bob, to |-> Alice, amount |-> 1, fee |-> 0]}

(* Alice pays Bob, once or twice.                                          *)
OneWallet == {[from |-> Alice, to |-> Bob, amount |-> 1, fee |-> 0]}
TwoPayments ==
    {[from |-> Alice, to |-> Bob, amount |-> 1, fee |-> 0],
     [from |-> Alice, to |-> Bob, amount |-> 2, fee |-> 0]}
=============================================================================
