------------------------------- MODULE MCWire -------------------------------
(***************************************************************************)
(* Module Wire on the instance of MCMultisig.  Every address has 32 bytes  *)
(* of its own, which begin like no short list.                             *)
(***************************************************************************)
EXTENDS MCMultisig, Wire

CONSTANT program

KeyOrder == <<alice, bob, carol, payer, m1, mf, t1, t2, tf, Signer, Pda(mf, 254),
              SystemProgram, program>>

MCKeyBytes ==
    [k \in Keys |->
       LET n == CHOOSE i \in DOMAIN KeyOrder : KeyOrder[i] = k
       IN  [i \in 1 .. PubkeyBytes |-> 90 + n]]

MCNesting ==
    [ix \in Instructions |-> IF ix.op = "propose_transaction" THEN 1 ELSE 0]

(* Every transaction is signed by all, so that any owner may act in it.    *)
MCAllSigners == {{payer, m1, t1, t2} \cup Owners}

WirePayloads == {Shrink, Regrow, Swap, LowerThenPay}
=============================================================================
