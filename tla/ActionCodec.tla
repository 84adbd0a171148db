---------------------------- MODULE ActionCodec ----------------------------
(***************************************************************************)
(* The wire format of a transaction: what Marshal of each action and each  *)
(* authentication writes, what their Unmarshal functions read and refuse,  *)
(* and what Size promises of them.  The two sides are written separately   *)
(* in the program, and so are they here.                                   *)
(*                                                                         *)
(* Bytes are digits of base Radix, and the widths of ids, addresses and    *)
(* integers are parameters, so that a small instance has the same layout   *)
(* as the program (Radix 256, IDLen 32, Uint16Len 2, Uint64Len 8).         *)
(***************************************************************************)
EXTENDS Integers, SequencesExt

CONSTANTS
  Radix,          \* values of a byte
  IDLen,          \* bytes of an ids.ID
  Uint16Len,      \* bytes of a uint16, and of the length prefix of a string
  IntLen,         \* bytes of the length prefix of a byte slice
  Uint64Len,      \* bytes of a uint64
  PublicKeyLen, SignatureLen,  \* of each authentication scheme
  ToID(_)         \* utils.ToID, the hash that makes an id of a public key

BoolLen    == 1
AddressLen == 1 + IDLen
Byte == 0 .. Radix - 1

\* The number of values of n bytes.
Pow[n \in Nat] == IF n = 0 THEN 1 ELSE Radix * Pow[n - 1]

MaxUint16 == Pow[Uint16Len] - 1
MaxUint64 == Pow[Uint64Len] - 1

\* binary.BigEndian, for an integer of len bytes, and back.
BigEndian(n, len) == [i \in 1 .. len |-> (n \div Pow[len - i]) % Radix]
Uint(bytes)       == FoldLeft(LAMBDA n, b : n * Radix + b, 0, bytes)
EmptyID           == [i \in 1 .. IDLen |-> 0]

-----------------------------------------------------------------------------
(* codec.Packer of hypersdk, as the actions use it.  A reader keeps its    *)
(* first error, and every later read then yields the zero value.           *)

Reader(buf) == [buf |-> buf, off |-> 0, err |-> FALSE]

Fixed(r, n) ==
  IF ~r.err /\ r.off + n <= Len(r.buf)
  THEN [val |-> SubSeq(r.buf, r.off + 1, r.off + n), rest |-> [r EXCEPT !.off = @ + n]]
  ELSE [val |-> [i \in 1 .. n |-> 0], rest |-> [r EXCEPT !.err = TRUE]]

Refuse(u, bad) == [u EXCEPT !.rest.err = @ \/ bad]

\* A length prefix and that many bytes, at most limit.
Prefixed(r, prefixLen, limit) ==
  LET len == Fixed(r, prefixLen)
      n   == Uint(len.val)
  IN  IF n > limit THEN [val |-> <<>>, rest |-> [len.rest EXCEPT !.err = TRUE]]
                   ELSE Fixed(len.rest, n)

\* The fields of an action: as Marshal packs them, and as Unmarshal reads them,
\* which may require them to be populated.
F(kind, name)        == [kind |-> kind, name |-> name]
Read(kind, name)     == [kind |-> kind, name |-> name, required |-> FALSE, limit |-> 0]
Required(kind, name) == [kind |-> kind, name |-> name, required |-> TRUE, limit |-> 0]
Limited(name, limit) == [kind |-> "bytes", name |-> name, required |-> TRUE, limit |-> limit]

Unpack(f, r) ==
  CASE f.kind = "id"      -> LET u == Fixed(r, IDLen)
                             IN  Refuse(u, f.required /\ u.val = EmptyID)
    [] f.kind = "address" -> Fixed(r, AddressLen)
    [] f.kind = "uint64"  -> LET u == Fixed(r, Uint64Len)
                             IN  Refuse([u EXCEPT !.val = Uint(u.val)],
                                        f.required /\ Uint(u.val) = 0)
    [] f.kind = "bool"    -> LET u == Fixed(r, BoolLen)
                             IN  Refuse([u EXCEPT !.val = u.val = <<1>>], u.val[1] > 1)
    [] f.kind = "string"  -> LET u == Prefixed(r, Uint16Len, MaxUint16)
                             IN  Refuse(u, f.required /\ u.val = <<>>)
    [] f.kind = "bytes"   -> LET u == Prefixed(r, IntLen, f.limit)
                             IN  Refuse(u, f.required /\ u.val = <<>>)

Pack(f, v) ==
  CASE f.kind \in {"id", "address"} -> v
    [] f.kind = "uint64" -> BigEndian(v, Uint64Len)
    [] f.kind = "bool"   -> IF v THEN <<1>> ELSE <<0>>
    [] f.kind = "string" -> BigEndian(Len(v), Uint16Len) \o v
    [] f.kind = "bytes"  -> BigEndian(Len(v), IntLen) \o v

\* PackString refuses what its prefix cannot count.
Packable(f, v) == f.kind = "string" => Len(v) <= MaxUint16

-----------------------------------------------------------------------------
(* consts/types.go                                                         *)

TransferID      == 0
RegisterID      == 1
RegisterImageID == 2
ValidatorVoteID == 3
SP1ID           == 4
MidenID         == 5
RiscZeroID      == 6
JoltID          == 8
Plonky2ID       == 9

ED25519ID   == 0
SECP256R1ID == 1
BLSID       == 2

-----------------------------------------------------------------------------
(* The actions: GetTypeID, MaxComputeUnits, Size, Marshal, Unmarshal.  Size *)
(* is a fixed number of bytes and the lengths of some fields.              *)

Transfer ==
  [ type |-> TransferID, maxUnits |-> 1, size |-> AddressLen + Uint64Len, lens |-> {},
    marshal   |-> << F("address", "to"), F("uint64", "value") >>,
    unmarshal |-> << Read("address", "to"), Required("uint64", "value") >> ]

Register ==
  [ type |-> RegisterID, maxUnits |-> 1000, size |-> Uint64Len, lens |-> {},
    marshal   |-> << F("uint64", "provingSystem") >>,
    unmarshal |-> << Required("uint64", "provingSystem") >> ]

RegisterImage ==
  [ type |-> RegisterImageID, maxUnits |-> 4000,
    size |-> IDLen + Uint64Len, lens |-> {"rootHash"},
    marshal   |-> << F("id", "imageID"), F("uint64", "valType"), F("string", "rootHash") >>,
    unmarshal |-> << Required("id", "imageID"), Required("uint64", "valType"),
                     Required("string", "rootHash") >> ]

ValidatorVote ==
  [ type |-> ValidatorVoteID, maxUnits |-> 5000,
    size |-> IDLen + BoolLen, lens |-> {"signature", "publicKey"},
    marshal   |-> << F("id", "txID"), F("bool", "vote"), F("bytes", "signature"),
                     F("bytes", "publicKey") >>,
    unmarshal |-> << Required("id", "txID"), Read("bool", "vote"),
                     Limited("signature", SignatureLen[BLSID]),
                     Limited("publicKey", PublicKeyLen[BLSID]) >> ]

SP1 ==
  [ type |-> SP1ID, maxUnits |-> 8000, size |-> IDLen + 2 * Uint64Len, lens |-> {},
    marshal   |-> << F("id", "imageID"), F("uint64", "proofValType"),
                     F("uint64", "timeOutBlocks") >>,
    unmarshal |-> << Required("id", "imageID"), Required("uint64", "proofValType"),
                     Required("uint64", "timeOutBlocks") >> ]

Jolt == [SP1 EXCEPT !.type = JoltID, !.maxUnits = 20000]

RiscZero ==
  [ type |-> RiscZeroID, maxUnits |-> 8000,
    size |-> IDLen + 2 * Uint64Len, lens |-> {"riscZeroImageID"},
    marshal   |-> << F("id", "imageID"), F("uint64", "proofValType"),
                     F("string", "riscZeroImageID"), F("uint64", "timeOutBlocks") >>,
    unmarshal |-> << Required("id", "imageID"), Required("uint64", "proofValType"),
                     Required("string", "riscZeroImageID"),
                     Required("uint64", "timeOutBlocks") >> ]

Miden ==
  [ type |-> MidenID, maxUnits |-> 6000, size |-> IDLen + 2 * Uint64Len,
    lens |-> {"codeFrontEnd", "inputsFrontEnd", "outputsFrontEnd"},
    marshal   |-> << F("id", "imageID"), F("uint64", "proofValType"),
                     F("string", "codeFrontEnd"), F("string", "inputsFrontEnd"),
                     F("string", "outputsFrontEnd"), F("uint64", "timeOutBlocks") >>,
    unmarshal |-> << Required("id", "imageID"), Required("uint64", "proofValType"),
                     Required("string", "codeFrontEnd"), Required("string", "inputsFrontEnd"),
                     Required("string", "outputsFrontEnd"),
                     Required("uint64", "timeOutBlocks") >> ]

\* Mutant: the data types are read in the other order.
PLONKY2_Swapped ==
  [ type |-> Plonky2ID, maxUnits |-> 8000, size |-> IDLen + 2 * Uint64Len, lens |-> {},
    marshal   |-> << F("id", "imageID"), F("uint64", "proofValType"),
                     F("uint64", "commonDataValType"), F("uint64", "verifierDataValType"),
                     F("uint64", "timeOutBlocks") >>,
    unmarshal |-> << Required("id", "imageID"), Required("uint64", "proofValType"),
                     Required("uint64", "verifierDataValType"),
                     Required("uint64", "commonDataValType"),
                     Required("uint64", "timeOutBlocks") >> ]

\* Size counts two of the four integers.
PLONKY2 ==
  [ type |-> Plonky2ID, maxUnits |-> 8000, size |-> IDLen + 2 * Uint64Len, lens |-> {},
    marshal   |-> << F("id", "imageID"), F("uint64", "proofValType"),
                     F("uint64", "commonDataValType"), F("uint64", "verifierDataValType"),
                     F("uint64", "timeOutBlocks") >>,
    unmarshal |-> << Required("id", "imageID"), Required("uint64", "proofValType"),
                     Required("uint64", "commonDataValType"),
                     Required("uint64", "verifierDataValType"),
                     Required("uint64", "timeOutBlocks") >> ]

-----------------------------------------------------------------------------
(* registry.go, and the transaction that hypersdk builds around an action  *)

ActionRegistry ==
  { Transfer, Register, RegisterImage, SP1, RiscZero, Miden, Jolt, PLONKY2, ValidatorVote }
AuthRegistry == {ED25519ID, SECP256R1ID, BLSID}

\* The widths of the program are widths: a byte holds a type, and a length prefix
\* the length of a key or a signature.
ASSUME WidthAssumption ==
  /\ Radix \in Nat /\ Radix > Plonky2ID
  /\ {IDLen, Uint16Len, IntLen, Uint64Len} \subseteq Nat \ {0}
  /\ PublicKeyLen \in [AuthRegistry -> 1 .. Pow[IntLen] - 1]
  /\ SignatureLen \in [AuthRegistry -> 1 .. Pow[IntLen] - 1]

\* The format of an action value, which names its type.
Codec(type) == CHOOSE c \in ActionRegistry : c.type = type

\* Mutant: the length of a string field is left out as well.
Size_Fixed(a) == Codec(a.type).size

Size(a) ==
  LET c == Codec(a.type)
  IN  FoldLeft(LAMBDA n, f : IF f.name \in c.lens THEN n + Len(a[f.name]) ELSE n,
               c.size, c.marshal)

MarshalAction(a) ==
  FoldLeft(LAMBDA buf, f : buf \o Pack(f, a[f.name]), <<>>, Codec(a.type).marshal)

MarshalFails(a) ==
  \E i \in DOMAIN Codec(a.type).marshal :
    LET f == Codec(a.type).marshal[i] IN ~Packable(f, a[f.name])

\* The fields read, as a function of their names, and the reader after them.
UnmarshalAction(type, r) ==
  LET next(s, f) ==
        LET u == Unpack(f, s.rest)
        IN  [ val  |-> [n \in DOMAIN s.val \cup {f.name} |->
                          IF n = f.name THEN u.val ELSE s.val[n]],
              rest |-> u.rest ]
      start == [val |-> [n \in {"type"} |-> type], rest |-> r]
  IN  FoldLeft(next, start, Codec(type).unmarshal)

\* Marshal of the three schemes: the key, and the signature.
MarshalAuth(auth) == auth.signer \o auth.signature

\* UnmarshalED25519, UnmarshalSECP256R1 and UnmarshalBLS.
UnmarshalAuth(scheme, r) ==
  LET k == Fixed(r, PublicKeyLen[scheme])
      s == Fixed(k.rest, SignatureLen[scheme])
  IN  [ val |-> [scheme |-> scheme, signer |-> k.val, signature |-> s.val], rest |-> s.rest ]

\* Actor and Sponsor: the address of the signer's key under its scheme.
Address(auth) == <<auth.scheme>> \o ToID(auth.signer)

Marshal(tx) ==
  <<tx.action.type>> \o MarshalAction(tx.action) \o <<tx.auth.scheme>> \o MarshalAuth(tx.auth)

\* What Go's types say of a transaction, and no more.
TypeOf(kind) ==
  CASE kind = "id"      -> [1 .. IDLen -> Byte]
    [] kind = "address" -> [1 .. AddressLen -> Byte]
    [] kind = "uint64"  -> 0 .. MaxUint64
    [] kind = "bool"    -> BOOLEAN
    [] kind = "string"  -> Seq(Byte)
    [] kind = "bytes"   -> {b \in Seq(Byte) : Len(b) < Pow[IntLen]}

IsAction(a) ==
  \E c \in ActionRegistry :
    LET fields == {c.marshal[i] : i \in DOMAIN c.marshal}
    IN  /\ a.type = c.type
        /\ a = [name \in {"type"} \cup {f.name : f \in fields} |-> a[name]]
        /\ \A f \in fields : a[f.name] \in TypeOf(f.kind)

IsAuth(auth) ==
  /\ auth = [scheme |-> auth.scheme, signer |-> auth.signer, signature |-> auth.signature]
  /\ auth.scheme \in AuthRegistry
  /\ auth.signer \in [1 .. PublicKeyLen[auth.scheme] -> Byte]
  /\ auth.signature \in [1 .. SignatureLen[auth.scheme] -> Byte]

IsTx(tx) ==
  /\ tx = [action |-> tx.action, auth |-> tx.auth]
  /\ IsAction(tx.action) /\ IsAuth(tx.auth)

Refused == [refused |-> TRUE]

\* The library looks the two types up, reads both parts, and then refuses an
\* error of the reader or bytes left over.
UnmarshalTx(buf) ==
  IF buf = <<>> \/ ~ \E c \in ActionRegistry : c.type = buf[1] THEN Refused
  ELSE LET a == UnmarshalAction(buf[1], [Reader(buf) EXCEPT !.off = 1])
           s == Fixed(a.rest, 1)
           u == UnmarshalAuth(s.val[1], s.rest)
       IN  IF s.rest.err \/ s.val[1] \notin AuthRegistry \/ u.rest.err \/ u.rest.off # Len(buf)
           THEN Refused
           ELSE [action |-> a.val, auth |-> u.val]
=============================================================================
