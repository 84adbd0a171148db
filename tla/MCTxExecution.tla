--------------------------- MODULE MCTxExecution ---------------------------
(* An instance of TxExecution: bytes of base 64, so that an id, a 16-bit    *)
(* type and a length prefix take one byte each and a 64-bit integer four.   *)
EXTENDS TxExecution

\* The id of a key is its first byte: one wallet's keys share it.
MCToID(key) == SubSeq(key, 1, 1)

MCPublicKeyLen == (0 :> 1) @@ (1 :> 2) @@ (2 :> 3)
MCSignatureLen == (0 :> 2) @@ (1 :> 2) @@ (2 :> 3)
MCAuthUnits    == (0 :> 5) @@ (1 :> 10) @@ (2 :> 10)

Key(scheme, id) ==
  [ scheme    |-> scheme,
    signer    |-> [i \in 1 .. PublicKeyLen[scheme] |-> id],
    signature |-> [i \in 1 .. SignatureLen[scheme] |-> i] ]

alice == Key(ED25519ID, 5)
node  == Key(BLSID, 5)
bob   == Key(SECP256R1ID, 6)
MCAccounts == {Address(k) : k \in {alice, node, bob}}

img   == <<40>>
id1   == TxID(1)
s(n)  == [i \in 1 .. n |-> 7]

transfer(to, value)  == [type |-> TransferID, to |-> Address(to), value |-> value]
register(ps)         == [type |-> RegisterID, provingSystem |-> ps]
image(i, t, root)    == [type |-> RegisterImageID, imageID |-> i, valType |-> t, rootHash |-> root]
vote(id, yes, sig)   == [type |-> ValidatorVoteID, txID |-> id, vote |-> yes, signature |-> s(sig),
                         publicKey |-> s(3)]
sp1(i, t, timeOut)   == [type |-> SP1ID, imageID |-> i, proofValType |-> t, timeOutBlocks |-> timeOut]
jolt(i, t, timeOut)  == [sp1(i, t, timeOut) EXCEPT !.type = JoltID]
risczero(t, r0)      == [type |-> RiscZeroID, imageID |-> img, proofValType |-> t,
                         riscZeroImageID |-> r0, timeOutBlocks |-> 20]
miden(code, in, out) == [type |-> MidenID, imageID |-> img, proofValType |-> 2,
                         codeFrontEnd |-> code, inputsFrontEnd |-> in, outputsFrontEnd |-> out,
                         timeOutBlocks |-> 20]
plonky2(t, c, v)     == [type |-> Plonky2ID, imageID |-> img, proofValType |-> t,
                         commonDataValType |-> c, verifierDataValType |-> v, timeOutBlocks |-> 20]

By(auth, actions) == {[action |-> a, auth |-> auth] : a \in actions}

\* Types 1, 65 and 129 are one 16-bit type.  A string of 41 bytes fits its prefix
\* and not its record, one of 64 not even its prefix.
MCFirst ==
  By(alice, { transfer(node, 2), transfer(bob, 3), transfer(alice, 1),
              register(1), image(img, 1, <<1>>), image(img, 65, <<2, 2>>), image(img, 2, s(41)),
              sp1(img, 65, 1), sp1(img, 129, 301), jolt(img, 2, 20), risczero(2, <<3>>),
              miden(<<1>>, <<2, 3>>, <<4>>), plonky2(1, 2, 65) })
MCRefused ==
  By(alice, { transfer(bob, 0), register(0), image(img, 1, s(64)), image(EmptyID, 1, <<1>>),
              image(img, 0, <<1>>), image(img, 1, <<>>), sp1(img, 1, 0), risczero(2, <<>>),
              miden(<<1>>, <<>>, <<4>>), plonky2(1, 0, 2) })
  \cup By(node, { vote(EmptyID, TRUE, 3), vote(TxID(2), TRUE, 4), vote(TxID(2), TRUE, 0) })
MCSecond ==
  By(node, { vote(id1, TRUE, 3), vote(id1, FALSE, 2), transfer(alice, 2) })
  \cup By(alice, { image(img, 1, <<1>>), image(img, 65, <<2, 2>>), sp1(img, 65, 1),
                   plonky2(1, 2, 65), transfer(node, 1) })
MCThird ==
  By(bob, { vote(id1, TRUE, 3), transfer(node, 1) }) \cup By(alice, { sp1(img, 65, 20) })

MCRequests == << MCFirst \cup MCRefused, MCSecond, MCThird >>
=============================================================================
