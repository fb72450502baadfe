----------------------------- MODULE MCClients -----------------------------
(***************************************************************************)
(* Two or three clients that share a multisig, and two addresses for       *)
(* proposals.                                                              *)
(***************************************************************************)
EXTENDS Clients

CONSTANTS a, b, c, m, t1, t2

TwoOwners == {a, b}

ThreeOwners == {a, b, c}

MCMultisigs == {m}

MCProposals == {t1, t2}

MCNonces == {255}

MCSystemProgram == "system"

(* Whose key pairs the addresses are.                                      *)
AAndB == (t1 :> a) @@ (t2 :> b)

BAndC == (t1 :> b) @@ (t2 :> c)

OnlyB == (t1 :> b) @@ (t2 :> b)

OnlyC == (t1 :> c) @@ (t2 :> c)

signer == Pda(m, 255)

(* A change of owners, which voids the open proposals, and another that    *)
(* leaves the same two; changes of threshold, which do not; and two        *)
(* payments, one of which nobody has signed for.                           *)
Shrink == <<SetOwnersIx(m, signer, <<a, b>>)>>

Reorder == <<SetOwnersIx(m, signer, <<b, a>>)>>

Raise(threshold) == <<ChangeThresholdIx(m, signer, threshold)>>

HalfSigned == <<TransferIx(signer, a, 1), TransferIx(b, a, 1)>>

SafetyPayloads == {Shrink, HalfSigned}

RaisePayloads == {Raise(3)}

VoidPayloads == {Raise(2), Reorder}

MCTeams == {{a, b}, {b, c}}

NoTeams == {}
=============================================================================
