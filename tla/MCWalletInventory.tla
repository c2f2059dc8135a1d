-------------------------- MODULE MCWalletInventory --------------------------
(***************************************************************************)
(* A small instance of WalletInventory.  Accounts are interchangeable, and *)
(* so are readers: one initial state of each class of equal ones is kept,  *)
(* which unlike a symmetry set is sound for liveness.  One reader at least *)
(* is not fresh; two fresh ones could do nothing else but pass the cache.  *)
(***************************************************************************)
EXTENDS WalletInventory

CONSTANTS r1, r2, a1

MCInit ==
    /\ Init
    /\ account = [n \in Networks |-> a1]
    /\ ~call[r1].fresh

MCSpec == MCInit /\ [][Next]_vars /\ Fairness
=============================================================================
