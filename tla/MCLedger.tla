------------------------------ MODULE MCLedger ------------------------------
(* Instances of Ledger for TLC. *)
EXTENDS Ledger

CONSTANTS f1, f2, o1, o2

Item(o, f, d, s) ==
    [order |-> o, fund |-> f, dir |-> d, amount |-> 4, share |-> s, fee |-> 1,
     cash |-> Keep, chg |-> Keep]

Upd(f, d, s) ==
    [fund |-> f, dir |-> d, amount |-> Keep, share |-> s, fee |-> Keep]

\* A single buy, a conversion (two legs under one order id), a batch whose
\* second row is invalid, an unknown direction, a buy with provided signed
\* values, and a dust-sized buy with no order id.
MCImports ==
    {<<Item(o1, f1, "buy", 3)>>,
     <<Item(o2, f1, "sell", 3), Item(o2, f2, "buy", 5)>>,
     <<Item(o1, f2, "buy", 3), Item(o2, f2, "sell", 0)>>,
     <<Item(o1, f1, "transfer", 3)>>,
     <<[Item(o1, f1, "buy", 3) EXCEPT !.cash = -7, !.chg = 4]>>,
     <<Item(Keep, f1, "buy", 1)>>}

MCUpdates ==
    {Upd(f2, Keep, Keep), Upd(Keep, "sell", Keep), Upd(Keep, Keep, 5),
     Upd(f1, "dividend", Keep), Upd(Keep, "swap", Keep), Upd(Keep, Keep, Keep)}

FewImports == {<<Item(o2, f1, "buy", 3), Item(o2, f2, "buy", 5)>>}
FewUpdates == {Upd(f2, Keep, Keep), Upd(Keep, "sell", Keep), Upd(Keep, Keep, 5)}
=============================================================================
