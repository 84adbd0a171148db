-------------------------- MODULE TxExecutionProofs --------------------------
(***************************************************************************)
(* What is proved of TxExecution for every value of its constants: any     *)
(* widths of integers, ids, keys and signatures, any limit, and any        *)
(* requests that Go's types allow.                                         *)
(*                                                                         *)
(* RoundTrip is an induction over the fields of an action: Marshal is a    *)
(* fold that writes and Unmarshal a fold that reads, and after each field  *)
(* the reader stands where the writer stood, or has kept an error.         *)
(*                                                                         *)
(* The rest is about the store: which key a transaction writes under, that *)
(* no other record has that key, and what is read back under it.  The last *)
(* theorem puts this together: the records behave as ProofVoting says.     *)
(***************************************************************************)
EXTENDS TxExecution, Sums, SequenceTheorems

-----------------------------------------------------------------------------
(* Integers and their bytes                                                *)

\* The widths, one by one.
LEMMA Widths ==
  /\ Radix \in Nat /\ Radix > 9
  /\ IDLen \in Nat \ {0} /\ Uint16Len \in Nat \ {0} /\ IntLen \in Nat \ {0}
  /\ Uint64Len \in Nat \ {0} /\ AddressLen \in Nat \ {0}
BY WidthAssumption DEF Plonky2ID, AddressLen

\* The powers of the base.
LEMMA PowIs ==
  /\ Pow[0] = 1
  /\ \A n \in Nat : Pow[n] \in Nat \ {0} /\ Pow[n + 1] = Radix * Pow[n]
<1> DEFINE W == Nat \ {0}
           f == [x \in W |-> Radix * x]
           IsPow(p) == p = [n \in Nat |-> IF n = 0 THEN 1 ELSE Radix * p[n - 1]]
<1>1. f \in [W -> W] /\ 1 \in W
  <2>1. ASSUME NEW x \in W PROVE Radix * x \in W
    <3>1. Radix * x >= x
      BY Widths
    <3> QED BY <3>1, Widths
  <2> QED BY <2>1
<1>2. PICK p : p \in [Nat -> W] /\ Recurs(p, f, 1)
  <2> HIDE DEF W, f
  <2> QED BY <1>1, RecursionExists
<1> USE DEF Recurs
<1>3. IsPow(p)
  <2>1. ASSUME NEW n \in Nat, n # 0 PROVE p[n] = Radix * p[n - 1]
    <3>1. n - 1 \in Nat /\ (n - 1) + 1 = n
      BY <2>1
    <3>2. p[n] = f[p[n - 1]] /\ p[n - 1] \in W
      BY <1>2, <3>1
    <3> QED BY <3>2
  <2> QED BY <1>2, <2>1
<1>4. IsPow(Pow)
  <2>1. Pow = CHOOSE x : IsPow(x)
    BY DEF Pow
  <2> HIDE DEF IsPow
  <2> QED BY <1>3, <2>1
<1>5. Pow[0] = 1 /\ \A n \in Nat : Pow[n + 1] = Radix * Pow[n]
  <2>1. \A n \in Nat : n + 1 \in Nat /\ n + 1 # 0 /\ (n + 1) - 1 = n
    OBVIOUS
  <2> QED BY <1>4, <2>1
<1> DEFINE T == {n \in Nat : Pow[n] \in W}
<1>6. 0 \in T /\ \A n \in Nat : n \in T => n + 1 \in T
  <2>1. ASSUME NEW n \in Nat, Pow[n] \in W PROVE Pow[n + 1] \in W
    <3>1. Pow[n + 1] = f[Pow[n]]
      BY <1>5, <2>1
    <3> QED BY <1>1, <2>1, <3>1
  <2> QED BY <1>5, <2>1
<1>7. Nat \subseteq T
  <2> HIDE DEF T
  <2> QED BY <1>6, NatInductionOnSet
<1> QED BY <1>5, <1>7

\* They are positive.
LEMMA PowNat == \A n \in Nat : Pow[n] \in Nat \ {0}
BY PowIs

\* The largest integers of each width.
LEMMA MaxInts ==
  /\ MaxUint16 \in Nat /\ MaxUint64 \in Nat
  /\ MaxUint16 + 1 = Pow[Uint16Len] /\ MaxUint64 + 1 = Pow[Uint64Len]
BY Widths, PowNat DEF MaxUint16, MaxUint64

\* h has what was read of the bytes b after each of them.
Reads(h, b, n) == h[0] = 0 /\ \A k \in 1 .. n : h[k] = h[k - 1] * Radix + b[k]

\* The fold over the bytes of an integer reads one after the other.
LEMMA UintRuns ==
  ASSUME NEW n \in Nat, NEW b, b \in [1 .. n -> Nat]
  PROVE  \E h : h \in [0 .. n -> Nat] /\ Reads(h, b, n) /\ Uint(b) = h[n]
<1> DEFINE S == 1 .. n
           f == [p \in Nat \X Nat |-> p[1] * Radix + p[2]]
           Step(g, D) == IF D = {} THEN 0 ELSE g[D \ {Max(D)}] * Radix + b[Max(D)]
           Is(g) == g = [D \in SUBSET S |-> Step(g, D)]
           G == CHOOSE x : Is(x)
<1>1. \E x : Is(x)
  <2>1. f \in [Nat \X Nat -> Nat]
    <3>1. ASSUME NEW p \in Nat \X Nat PROVE p[1] * Radix + p[2] \in Nat
      <4> DEFINE x == p[1]
                 y == p[2]
      <4>1. x \in Nat /\ y \in Nat /\ Radix \in Nat
        BY Widths
      <4> HIDE DEF x, y
      <4>2. x * Radix \in Nat
        BY <4>1
      <4>3. x * Radix + y \in Nat
        BY <4>1, <4>2
      <4> QED BY <4>3 DEF x, y
    <3> QED BY <3>1
  <2>2. PICK g : g \in [SUBSET S -> Nat] /\ IsFold(g, f, 0, b)
    <3>1. 0 \in Nat
      OBVIOUS
    <3> HIDE DEF f
    <3> QED BY <2>1, <3>1, FoldExists
  <2> USE DEF IsFold
  <2>3. ASSUME NEW D \in SUBSET S PROVE g[D] = Step(g, D)
    <3>1. CASE D = {}
      BY <2>2, <3>1 DEF FoldStep
    <3>2. CASE D # {}
      <4>1. Max(D) \in D
        BY <3>2, MaxIn
      <4>2. b[Max(D)] \in Nat /\ g[D \ {Max(D)}] \in Nat
        BY <2>2, <4>1
      <4>3. g[D] = f[<<g[D \ {Max(D)}], b[Max(D)]>>]
        BY <2>2, <3>2 DEF FoldStep
      <4> QED BY <3>2, <4>2, <4>3
    <3> QED BY <3>1, <3>2
  <2>4. Is(g)
    <3> HIDE DEF Step
    <3> QED BY <2>2, <2>3
  <2> HIDE DEF Is
  <2> QED BY <2>4
<1>2. Is(G)
  <2> HIDE DEF Is
  <2> QED BY <1>1
<1>3. Uint(b) = G[S]
  BY DEF Uint, FoldLeft, MapThenFoldSet
<1> HIDE DEF G
<1> DEFINE h == [k \in 0 .. n |-> G[1 .. k]]
<1>4. h[0] = 0
  <2>1. 1 .. 0 = {} /\ 0 \in 0 .. n /\ {} \in SUBSET S
    OBVIOUS
  <2> QED BY <1>2, <2>1
<1>5. ASSUME NEW k \in 1 .. n PROVE h[k] = h[k - 1] * Radix + b[k]
  <2>1. Max(1 .. k) = k /\ (1 .. k) \ {Max(1 .. k)} = 1 .. (k - 1) /\ 1 .. k # {}
    <3>1. k \in Nat \ {0}
      OBVIOUS
    <3> QED BY <3>1, MaxOfPrefix
  <2>2. 1 .. k \in SUBSET S /\ k \in 0 .. n /\ k - 1 \in 0 .. n
    OBVIOUS
  <2>3. G[1 .. k] = G[1 .. (k - 1)] * Radix + b[k]
    BY <1>2, <2>1, <2>2
  <2> QED BY <2>2, <2>3
<1>6. h \in [0 .. n -> Nat]
  <2> DEFINE T == {k \in Nat : k <= n => h[k] \in Nat}
  <2> HIDE DEF h
  <2>1. 0 \in T
    BY <1>4
  <2>2. ASSUME NEW k \in Nat, k \in T PROVE k + 1 \in T
    <3>1. CASE k + 1 <= n
      <4>1. k + 1 \in 1 .. n /\ (k + 1) - 1 = k /\ h[k] \in Nat /\ b[k + 1] \in Nat
        BY <2>2, <3>1
      <4>2. h[k + 1] = h[k] * Radix + b[k + 1]
        BY <1>5, <4>1
      <4>3. h[k] * Radix + b[k + 1] \in Nat
        <5> DEFINE x == h[k]
                   y == b[k + 1]
        <5>1. x \in Nat /\ y \in Nat /\ Radix \in Nat
          BY <4>1, Widths
        <5> HIDE DEF x, y
        <5>2. x * Radix + y \in Nat
          BY <5>1
        <5> QED BY <5>2 DEF x, y
      <4> QED BY <4>2, <4>3
    <3>2. CASE ~ (k + 1 <= n)
      BY <3>2
    <3> QED BY <3>1, <3>2
  <2>3. Nat \subseteq T
    <3> HIDE DEF T
    <3> QED BY <2>1, <2>2, NatInductionOnSet
  <2>4. \A k \in 0 .. n : h[k] \in Nat
    BY <2>3
  <2> QED BY <2>4 DEF h
<1>7. Uint(b) = h[n]
  BY <1>3
<1>8. Reads(h, b, n)
  <2> HIDE DEF h
  <2> QED BY <1>4, <1>5 DEF Reads
<1> QED BY <1>6, <1>7, <1>8

\* What is read back from the bytes of an integer is the integer, where they hold it.
LEMMA UintOfBigEndian ==
  ASSUME NEW len \in Nat, NEW n \in 0 .. Pow[len] - 1
  PROVE  /\ Uint(BigEndian(n, len)) = n
         /\ BigEndian(n, len) \in [1 .. len -> Byte]
<1> DEFINE b == BigEndian(n, len)
           q(k) == n \div Pow[len - k]
<1>1. Pow[len] \in Nat \ {0} /\ n \in Nat /\ Radix \in Nat \ {0}
  BY PowNat, Widths
<1>2. \A k \in 1 .. len : b[k] = (q(k) % Radix)
  BY DEF BigEndian
<1>3. ASSUME NEW k \in 1 .. len
      PROVE  q(k - 1) * Radix + (q(k) % Radix) = q(k) /\ (q(k) % Radix) \in 0 .. Radix - 1
             /\ q(k) \in Nat
  <2>1. len - k \in Nat /\ len - (k - 1) = (len - k) + 1
    OBVIOUS
  <2> DEFINE P == Pow[len - k]
  <2>2. P \in Nat \ {0} /\ Pow[len - (k - 1)] = Radix * P
    BY <2>1, PowIs
  <2> HIDE DEF P
  <2>3. /\ (n \div (Radix * P)) * Radix + ((n \div P) % Radix) = n \div P
        /\ (n \div P) % Radix \in 0 .. Radix - 1
        /\ n \div P \in Nat
    BY <1>1, <2>2, DigitStep
  <2> QED BY <2>2, <2>3 DEF P
<1>4. q(0) = 0
  <2> DEFINE P == Pow[len]
  <2>1. P \in Nat \ {0} /\ n \in Int /\ n \in 0 .. P - 1 /\ n = P * 0 + n
    BY <1>1
  <2> HIDE DEF P
  <2>2. n \div P = 0
    BY <2>1, ModUnique
  <2> QED BY <2>2 DEF P
<1>5. q(len) = n
  <2>1. len - len = 0 /\ n \div 1 = n
    OBVIOUS
  <2> QED BY <2>1, PowIs
<1>6. b \in [1 .. len -> Byte]
  <2>1. b = [k \in 1 .. len |-> q(k) % Radix]
    BY DEF BigEndian
  <2> HIDE DEF q, b
  <2> QED BY <1>3, <2>1 DEF Byte
<1> HIDE DEF q, b
<1>7. b \in [1 .. len -> Nat]
  BY <1>6, Widths DEF Byte
<1>8. PICK h : h \in [0 .. len -> Nat] /\ Reads(h, b, len) /\ Uint(b) = h[len]
  BY <1>7, UintRuns
<1> USE DEF Reads
<1> DEFINE T == {k \in Nat : k <= len => h[k] = q(k)}
<1>9. 0 \in T
  BY <1>4, <1>8
<1>10. ASSUME NEW k \in Nat, k \in T PROVE k + 1 \in T
  <2>1. CASE k + 1 <= len
    <3>1. k + 1 \in 1 .. len /\ (k + 1) - 1 = k /\ h[k] = q(k)
      BY <1>10, <2>1
    <3>2. h[k + 1] = q(k) * Radix + (q(k + 1) % Radix)
      BY <1>2, <1>8, <3>1
    <3>3. h[k + 1] = q(k + 1)
      BY <1>3, <3>1, <3>2
    <3> QED BY <3>3
  <2>2. CASE ~ (k + 1 <= len)
    BY <2>2
  <2> QED BY <2>1, <2>2
<1>11. Nat \subseteq T
  <2> HIDE DEF T
  <2> QED BY <1>9, <1>10, NatInductionOnSet
<1>12. h[len] = q(len)
  BY <1>11
<1> QED BY <1>5, <1>6, <1>8, <1>12 DEF b

-----------------------------------------------------------------------------
(* The reader                                                              *)

\* A reader of buf at off that has had no error, and all readers of buf.
At(buf, off) == [buf |-> buf, off |-> off, err |-> FALSE]
Readers(buf) == [buf : {buf}, off : Nat, err : BOOLEAN]

\* What reading on changes of a reader.
LEMMA ReaderMoves ==
  \A buf, off, o : [At(buf, off) EXCEPT !.off = o] = At(buf, o)
<1> DEFINE e == FALSE
<1>1. \A buf, off : At(buf, off) = [buf |-> buf, off |-> off, err |-> e]
  BY DEF At
<1> HIDE DEF e
<1>2. \A buf, off, o : [[buf |-> buf, off |-> off, err |-> e] EXCEPT !.off = o]
                        = [buf |-> buf, off |-> o, err |-> e]
  OBVIOUS
<1> QED BY <1>1, <1>2

\* What fixes an array is a sequence of its length.
LEMMA ArrayIsSeq ==
  ASSUME NEW n \in Nat, NEW v, v \in [1 .. n -> Byte]
  PROVE  v \in Seq(Byte) /\ Len(v) = n
OBVIOUS

\* Three sequences, one after the other.
Cat3(x, y, z) == (x \o y) \o z

\* The middle of three sequences.
LEMMA Middle ==
  ASSUME NEW S, NEW x, x \in Seq(S), NEW y, y \in Seq(S), NEW z, z \in Seq(S)
  PROVE  /\ Cat3(x, y, z) \in Seq(S)
         /\ Len(Cat3(x, y, z)) = Len(x) + Len(y) + Len(z)
         /\ SubSeq(Cat3(x, y, z), Len(x) + 1, Len(x) + Len(y)) = y
<1> DEFINE w == Cat3(x, y, z)
           m == Len(x) + 1
           n == Len(x) + Len(y)
<1>1. /\ Len(x) \in Nat /\ Len(y) \in Nat /\ Len(z) \in Nat
      /\ x \o y \in Seq(S) /\ Len(x \o y) = Len(x) + Len(y)
      /\ \A i \in 1 .. n : (x \o y)[i] = IF i <= Len(x) THEN x[i] ELSE y[i - Len(x)]
  BY ConcatProperties, LenProperties
<1>2. /\ w \in Seq(S) /\ Len(w) = n + Len(z)
      /\ \A i \in 1 .. n + Len(z) : w[i] = IF i <= n THEN (x \o y)[i] ELSE z[i - n]
  BY <1>1, ConcatProperties DEF Cat3
<1> HIDE DEF w
<1>3. \A i \in 1 .. Len(y) : w[m + i - 1] = y[i]
  <2> SUFFICES ASSUME NEW i \in 1 .. Len(y) PROVE w[m + i - 1] = y[i]
    OBVIOUS
  <2>1. m + i - 1 = Len(x) + i /\ Len(x) + i \in 1 .. n /\ Len(x) + i \in 1 .. n + Len(z)
        /\ ~ (Len(x) + i <= Len(x)) /\ (Len(x) + i) - Len(x) = i
    BY <1>1
  <2> QED BY <1>1, <1>2, <2>1
<1>4. /\ SubSeq(w, m, n) \in Seq(S) /\ Len(SubSeq(w, m, n)) = Len(y)
      /\ \A i \in 1 .. Len(y) : SubSeq(w, m, n)[i] = w[m + i - 1]
  <2>1. m \in Int /\ n \in Int /\ n - m + 1 = Len(y) /\ (m > n => Len(y) = 0)
    BY <1>1
  <2>2. \A i \in m .. n : w[i] \in S
    <3>1. \A i \in m .. n : i \in 1 .. Len(w)
      BY <1>1, <1>2
    <3> QED BY <1>2, <3>1, ElementOfSeq
  <2> HIDE DEF m, n
  <2> QED BY <2>1, <2>2, SubSeqProperties
<1>5. SubSeq(w, m, n) = y
  BY <1>3, <1>4, SeqEqual
<1> QED BY <1>2, <1>5 DEF w

\* A field of fixed length is read where it is.
LEMMA FixedReads ==
  ASSUME NEW x, x \in Seq(Byte), NEW y, y \in Seq(Byte), NEW z, z \in Seq(Byte)
  PROVE  Fixed(At(Cat3(x, y, z), Len(x)), Len(y)) =
           [val |-> y, rest |-> At(Cat3(x, y, z), Len(x) + Len(y))]
<1> DEFINE w == Cat3(x, y, z)
           r == At(w, Len(x))
<1>1. /\ Len(w) = Len(x) + Len(y) + Len(z) /\ SubSeq(w, Len(x) + 1, Len(x) + Len(y)) = y
      /\ Len(x) \in Nat /\ Len(y) \in Nat /\ Len(z) \in Nat
  <2>1. Len(x) \in Nat /\ Len(y) \in Nat /\ Len(z) \in Nat
    OBVIOUS
  <2> QED BY <2>1, Middle
<1> HIDE DEF w
<1>2. r.buf = w /\ r.off = Len(x) /\ r.err = FALSE /\ r = [buf |-> w, off |-> r.off, err |-> FALSE]
  BY DEF At
<1>3. [r EXCEPT !.off = r.off + Len(y)] = At(w, Len(x) + Len(y))
  <2> DEFINE o == r.off + Len(y)
  <2>1. o = Len(x) + Len(y)
    BY <1>2
  <2> HIDE DEF o
  <2>2. [r EXCEPT !.off = o] = At(w, o)
    BY ReaderMoves
  <2> QED BY <2>1, <2>2 DEF o
<1>4. ~ r.err /\ r.off + Len(y) <= Len(r.buf)
  BY <1>1, <1>2
<1>5. Fixed(r, Len(y)) = [val |-> y, rest |-> At(w, Len(x) + Len(y))]
  BY <1>1, <1>2, <1>3, <1>4 DEF Fixed
<1> QED BY <1>5 DEF w

\* Whatever is read, the reader keeps the buffer and its first error, and yields
\* bytes.
LEMMA FixedType ==
  ASSUME NEW buf, buf \in Seq(Byte), NEW r, r \in Readers(buf), NEW n, n \in Nat
  PROVE  /\ Fixed(r, n) = [val |-> Fixed(r, n).val, rest |-> Fixed(r, n).rest]
         /\ Fixed(r, n).val \in Seq(Byte) /\ Len(Fixed(r, n).val) = n
         /\ Fixed(r, n).rest \in Readers(buf)
         /\ r.err => Fixed(r, n).rest.err
<1>1. r.buf = buf /\ r.off \in Nat /\ r.err \in BOOLEAN
      /\ r = [buf |-> r.buf, off |-> r.off, err |-> r.err] /\ Len(buf) \in Nat
  BY DEF Readers
<1>2. CASE ~ r.err /\ r.off + n <= Len(r.buf)
  <2>1. Fixed(r, n) = [val  |-> SubSeq(buf, r.off + 1, r.off + n),
                       rest |-> [r EXCEPT !.off = @ + n]]
    BY <1>1, <1>2 DEF Fixed
  <2>2. SubSeq(buf, r.off + 1, r.off + n) \in Seq(Byte)
        /\ Len(SubSeq(buf, r.off + 1, r.off + n)) = n
    <3> DEFINE l == r.off + 1
               h == r.off + n
    <3>1. l \in Int /\ h \in Int /\ h - l + 1 = n /\ (l > h => n = 0)
      BY <1>1
    <3>2. \A i \in l .. h : buf[i] \in Byte
      <4>1. \A i \in l .. h : i \in 1 .. Len(buf)
        BY <1>1, <1>2
      <4> QED BY <4>1, ElementOfSeq
    <3> HIDE DEF l, h
    <3>3. SubSeq(buf, l, h) \in Seq(Byte) /\ Len(SubSeq(buf, l, h)) = n
      BY <3>1, <3>2, SubSeqProperties
    <3> QED BY <3>3 DEF l, h
  <2>3. [r EXCEPT !.off = @ + n] \in Readers(buf)
    BY <1>1 DEF Readers
  <2> DEFINE v == SubSeq(buf, r.off + 1, r.off + n)
             q == [r EXCEPT !.off = @ + n]
             u == Fixed(r, n)
  <2>5. v \in Seq(Byte) /\ Len(v) = n /\ q \in Readers(buf) /\ u = [val |-> v, rest |-> q]
    BY <2>1, <2>2, <2>3
  <2> HIDE DEF v, q, u
  <2>4. u.val = v /\ u.rest = q
    BY <2>5
  <2>6. u = [val |-> u.val, rest |-> u.rest] /\ u.val \in Seq(Byte) /\ Len(u.val) = n
        /\ u.rest \in Readers(buf)
    BY <2>4, <2>5
  <2> QED BY <1>2, <2>6 DEF u
<1>3. CASE ~ (~ r.err /\ r.off + n <= Len(r.buf))
  <2>1. Fixed(r, n) = [val |-> [i \in 1 .. n |-> 0], rest |-> [r EXCEPT !.err = TRUE]]
    BY <1>3 DEF Fixed
  <2>2. [i \in 1 .. n |-> 0] \in Seq(Byte) /\ Len([i \in 1 .. n |-> 0]) = n
    <3>1. 0 \in Byte
      BY Widths DEF Byte
    <3>2. [i \in 1 .. n |-> 0] \in [1 .. n -> Byte]
      BY <3>1
    <3> QED BY <3>2, ArrayIsSeq
  <2>3. [r EXCEPT !.err = TRUE] \in Readers(buf) /\ [r EXCEPT !.err = TRUE].err
    BY <1>1 DEF Readers
  <2> DEFINE v == [i \in 1 .. n |-> 0]
             q == [r EXCEPT !.err = TRUE]
             u == Fixed(r, n)
  <2>5. v \in Seq(Byte) /\ Len(v) = n /\ q \in Readers(buf) /\ q.err
        /\ u = [val |-> v, rest |-> q]
    BY <2>1, <2>2, <2>3
  <2> HIDE DEF v, q, u
  <2>4. u.val = v /\ u.rest = q
    BY <2>5
  <2>6. u = [val |-> u.val, rest |-> u.rest] /\ u.val \in Seq(Byte) /\ Len(u.val) = n
        /\ u.rest \in Readers(buf) /\ u.rest.err
    BY <2>4, <2>5
  <2> QED BY <2>6 DEF u
<1> QED BY <1>2, <1>3

\* What a read yields: a value, and the reader after it.
IsRead(u, buf, V) ==
  u = [val |-> u.val, rest |-> u.rest] /\ u.val \in V /\ u.rest \in Readers(buf)

\* Refusing a value sets the error, and only that.
LEMMA RefuseIs ==
  ASSUME NEW buf, NEW V, NEW u, IsRead(u, buf, V), NEW bad, bad \in BOOLEAN
  PROVE  /\ IsRead(Refuse(u, bad), buf, V)
         /\ Refuse(u, bad).rest.err <=> (u.rest.err \/ bad)
         /\ ~bad => Refuse(u, bad) = u
<1> DEFINE r == u.rest
           e == r.err \/ bad
           q == [r EXCEPT !.err = e]
<1>1. /\ r = [buf |-> r.buf, off |-> r.off, err |-> r.err]
      /\ r.buf \in {buf} /\ r.off \in Nat /\ r.err \in BOOLEAN
  BY DEF IsRead, Readers
<1>2. u = [val |-> u.val, rest |-> r]
  BY DEF IsRead
<1>3. Refuse(u, bad) = [u EXCEPT !.rest = q]
  BY <1>2 DEF Refuse
<1>4. e \in BOOLEAN
  OBVIOUS
<1>5. ~bad => e = r.err
  BY <1>1
<1>6. e <=> (u.rest.err \/ bad)
  OBVIOUS
<1> HIDE DEF e
<1>7. q = [buf |-> r.buf, off |-> r.off, err |-> e]
  <2> HIDE DEF r
  <2> QED BY <1>1
<1>8. q \in Readers(buf) /\ q.err = e
  BY <1>1, <1>4, <1>7 DEF Readers
<1>9. ~bad => q = r
  BY <1>1, <1>5, <1>7
<1> HIDE DEF q, r
<1>10. [u EXCEPT !.rest = q] = [val |-> u.val, rest |-> q]
  BY <1>2
<1>11. ~bad => Refuse(u, bad) = u
  BY <1>2, <1>3, <1>9, <1>10
<1>12. Refuse(u, bad).val = u.val /\ Refuse(u, bad).rest = q
       /\ Refuse(u, bad) = [val |-> u.val, rest |-> q]
  BY <1>3, <1>10
<1>13. u.val \in V
  BY DEF IsRead
<1>14. IsRead(Refuse(u, bad), buf, V)
  BY <1>8, <1>12, <1>13 DEF IsRead
<1>15. Refuse(u, bad).rest.err <=> (u.rest.err \/ bad)
  BY <1>6, <1>8, <1>12
<1> QED BY <1>11, <1>14, <1>15

\* A read of fixed length is a read.
LEMMA FixedIsRead ==
  ASSUME NEW buf, buf \in Seq(Byte), NEW r, r \in Readers(buf), NEW n, n \in Nat
  PROVE  /\ IsRead(Fixed(r, n), buf, Seq(Byte)) /\ Len(Fixed(r, n).val) = n
         /\ r.err => Fixed(r, n).rest.err
BY FixedType DEF IsRead

\* An integer read is one.
LEMMA UintType ==
  ASSUME NEW b, b \in Seq(Byte)
  PROVE  Uint(b) \in Nat
<1>1. Len(b) \in Nat /\ b \in [1 .. Len(b) -> Nat]
  BY Widths DEF Byte
<1> DEFINE n == Len(b)
<1> HIDE DEF n
<1>2. PICK h : h \in [0 .. n -> Nat] /\ Reads(h, b, n) /\ Uint(b) = h[n]
  BY <1>1, UintRuns DEF n
<1>3. n \in 0 .. n
  BY <1>1 DEF n
<1> QED BY <1>2, <1>3

\* So is a read of a prefixed field.
LEMMA PrefixedIsRead ==
  ASSUME NEW buf, buf \in Seq(Byte), NEW r, r \in Readers(buf), NEW n, n \in Nat, NEW limit
  PROVE  /\ IsRead(Prefixed(r, n, limit), buf, Seq(Byte))
         /\ r.err => Prefixed(r, n, limit).rest.err
<1> DEFINE len == Fixed(r, n)
           m   == Uint(len.val)
           q   == [len.rest EXCEPT !.err = TRUE]
<1>1. IsRead(len, buf, Seq(Byte)) /\ (r.err => len.rest.err)
  BY FixedIsRead
<1>2. len.val \in Seq(Byte) /\ len.rest \in Readers(buf)
  BY <1>1 DEF IsRead
<1>3. m \in Nat
  BY <1>2, UintType
<1>4. Prefixed(r, n, limit) = IF m > limit THEN [val |-> <<>>, rest |-> q] ELSE Fixed(len.rest, m)
  BY DEF Prefixed
<1>5. q \in Readers(buf) /\ q.err
  <2> HIDE DEF len
  <2> QED BY <1>2 DEF Readers
<1>6. <<>> \in Seq(Byte)
  OBVIOUS
<1>7. IsRead([val |-> <<>>, rest |-> q], buf, Seq(Byte))
  <2> HIDE DEF q
  <2> QED BY <1>5, <1>6 DEF IsRead
<1> HIDE DEF len, m, q
<1>8. IsRead(Fixed(len.rest, m), buf, Seq(Byte)) /\ (len.rest.err => Fixed(len.rest, m).rest.err)
  BY <1>2, <1>3, FixedIsRead
<1>9. CASE m > limit
  <2>1. Prefixed(r, n, limit) = [val |-> <<>>, rest |-> q]
    BY <1>4, <1>9
  <2> QED BY <1>5, <1>7, <2>1
<1>10. CASE ~ (m > limit)
  <2>1. Prefixed(r, n, limit) = Fixed(len.rest, m)
    BY <1>4, <1>10
  <2> QED BY <1>1, <1>8, <2>1
<1> QED BY <1>9, <1>10

Kinds  == {"id", "address", "uint64", "bool", "string", "bytes"}
Values == Seq(Byte) \cup Nat \cup BOOLEAN

\* A read into a larger set.
LEMMA ReadGrows ==
  ASSUME NEW buf, NEW V, NEW U, V \subseteq U, NEW u, IsRead(u, buf, V)
  PROVE  IsRead(u, buf, U)
BY DEF IsRead

\* Whatever a field is, it is read as a value, and an earlier error stays.
LEMMA UnpackIsRead ==
  ASSUME NEW buf, buf \in Seq(Byte), NEW r, r \in Readers(buf),
         NEW f, f.kind \in Kinds, f.required \in BOOLEAN
  PROVE  /\ IsRead(Unpack(f, r), buf, Values)
         /\ r.err => Unpack(f, r).rest.err
<1>0. Seq(Byte) \subseteq Values
  BY DEF Values
<1>1. CASE f.kind = "id"
  <2> DEFINE u == Fixed(r, IDLen)
             bad == f.required /\ u.val = EmptyID
  <2>1. IsRead(u, buf, Seq(Byte)) /\ (r.err => u.rest.err)
    BY FixedIsRead, Widths
  <2>2. Unpack(f, r) = Refuse(u, bad) /\ bad \in BOOLEAN
    BY <1>1 DEF Unpack
  <2> HIDE DEF u, bad
  <2>3. IsRead(u, buf, Values)
    BY <1>0, <2>1, ReadGrows
  <2> QED BY <2>1, <2>2, <2>3, RefuseIs
<1>2. CASE f.kind = "address"
  <2> DEFINE u == Fixed(r, AddressLen)
  <2>1. IsRead(u, buf, Seq(Byte)) /\ (r.err => u.rest.err)
    BY FixedIsRead, Widths
  <2>2. Unpack(f, r) = u
    BY <1>2 DEF Unpack
  <2> HIDE DEF u
  <2> QED BY <1>0, <2>1, <2>2, ReadGrows
<1>3. CASE f.kind = "uint64"
  <2> DEFINE u == Fixed(r, Uint64Len)
             w == [u EXCEPT !.val = Uint(u.val)]
             bad == f.required /\ Uint(u.val) = 0
  <2>1. IsRead(u, buf, Seq(Byte)) /\ (r.err => u.rest.err)
    BY FixedIsRead, Widths
  <2>2. Unpack(f, r) = Refuse(w, bad) /\ bad \in BOOLEAN
    BY <1>3 DEF Unpack
  <2> HIDE DEF u, bad
  <2>3. IsRead(w, buf, Values) /\ w.rest = u.rest
    <3>1. u = [val |-> u.val, rest |-> u.rest] /\ u.val \in Seq(Byte) /\ u.rest \in Readers(buf)
      BY <2>1 DEF IsRead
    <3>2. Uint(u.val) \in Values
      BY <3>1, UintType DEF Values
    <3> DEFINE n == Uint(u.val)
    <3> HIDE DEF n
    <3>3. w = [val |-> n, rest |-> u.rest]
      BY <3>1 DEF n
    <3> QED BY <3>1, <3>2, <3>3 DEF IsRead, n
  <2> HIDE DEF w
  <2> QED BY <2>1, <2>2, <2>3, RefuseIs
<1>4. CASE f.kind = "bool"
  <2> DEFINE u == Fixed(r, BoolLen)
             b == u.val = <<1>>
             w == [u EXCEPT !.val = b]
             bad == u.val[1] > 1
  <2>1. IsRead(u, buf, Seq(Byte)) /\ (r.err => u.rest.err)
    BY FixedIsRead DEF BoolLen
  <2>2. Unpack(f, r) = Refuse(w, bad) /\ bad \in BOOLEAN /\ b \in BOOLEAN
    BY <1>4 DEF Unpack
  <2> HIDE DEF u, bad, b
  <2>3. IsRead(w, buf, Values) /\ w.rest = u.rest
    <3>1. u = [val |-> u.val, rest |-> u.rest] /\ u.val \in Seq(Byte) /\ u.rest \in Readers(buf)
      BY <2>1 DEF IsRead
    <3>2. b \in Values
      BY <2>2 DEF Values
    <3>3. w = [val |-> b, rest |-> u.rest]
      BY <3>1
    <3> QED BY <3>1, <3>2, <3>3 DEF IsRead
  <2> HIDE DEF w
  <2> QED BY <2>1, <2>2, <2>3, RefuseIs
<1>5. CASE f.kind \in {"string", "bytes"}
  <2>1. PICK u, bad : /\ Unpack(f, r) = Refuse(u, bad) /\ bad \in BOOLEAN
                      /\ IsRead(u, buf, Seq(Byte)) /\ (r.err => u.rest.err)
    <3>1. CASE f.kind = "string"
      <4> DEFINE u == Prefixed(r, Uint16Len, MaxUint16)
                 bad == f.required /\ u.val = <<>>
      <4>1. IsRead(u, buf, Seq(Byte)) /\ (r.err => u.rest.err)
        BY PrefixedIsRead, Widths
      <4>2. Unpack(f, r) = Refuse(u, bad) /\ bad \in BOOLEAN
        BY <3>1 DEF Unpack
      <4> HIDE DEF u, bad
      <4> QED BY <4>1, <4>2
    <3>2. CASE f.kind = "bytes"
      <4> DEFINE u == Prefixed(r, IntLen, f.limit)
                 bad == f.required /\ u.val = <<>>
      <4>1. IsRead(u, buf, Seq(Byte)) /\ (r.err => u.rest.err)
        BY PrefixedIsRead, Widths
      <4>2. Unpack(f, r) = Refuse(u, bad) /\ bad \in BOOLEAN
        BY <3>2 DEF Unpack
      <4> HIDE DEF u, bad
      <4> QED BY <4>1, <4>2
    <3> QED BY <1>5, <3>1, <3>2
  <2>2. IsRead(u, buf, Values)
    BY <1>0, <2>1, ReadGrows
  <2> QED BY <2>1, <2>2, RefuseIs
<1> QED BY <1>1, <1>2, <1>3, <1>4, <1>5 DEF Kinds

-----------------------------------------------------------------------------
(* Fields                                                                  *)

\* What is between may be taken to be more on the left, or on the right.
LEMMA CatShifts ==
  ASSUME NEW x, x \in Seq(Byte), NEW b, b \in Seq(Byte), NEW y, y \in Seq(Byte),
         NEW z, z \in Seq(Byte)
  PROVE  /\ Cat3(x, b \o y, z) = Cat3(x \o b, y, z)
         /\ Cat3(x, b \o y, z) = Cat3(x, b, y \o z)
         /\ x \o b \in Seq(Byte) /\ Len(x \o b) = Len(x) + Len(b)
         /\ b \o y \in Seq(Byte) /\ Len(b \o y) = Len(b) + Len(y)
         /\ y \o z \in Seq(Byte)
<1> DEFINE S == Byte
<1>1. x \in Seq(S) /\ b \in Seq(S) /\ y \in Seq(S) /\ z \in Seq(S)
  OBVIOUS
<1> HIDE DEF S
<1>2. x \o b \in Seq(S) /\ Len(x \o b) = Len(x) + Len(b)
      /\ b \o y \in Seq(S) /\ Len(b \o y) = Len(b) + Len(y) /\ y \o z \in Seq(S)
  BY <1>1, ConcatProperties
<1>3. (x \o b) \o y = x \o (b \o y)
  BY <1>1, ConcatAssociative
<1>4. ((x \o b) \o y) \o z = (x \o b) \o (y \o z)
  BY <1>1, <1>2, ConcatAssociative
<1> QED BY <1>2, <1>3, <1>4 DEF Cat3, S

\* A value and the reader after it.
Got(v, r) == [val |-> v, rest |-> r]

\* The bytes y with their number before them.
Counted(y, n) == BigEndian(Len(y), n) \o y

\* A prefixed field is read where it is, if it is not too long.
LEMMA PrefixedReads ==
  ASSUME NEW x, x \in Seq(Byte), NEW y, y \in Seq(Byte), NEW z, z \in Seq(Byte),
         NEW n, n \in Nat, Len(y) < Pow[n], NEW limit, limit \in Nat,
         NEW p, p = Counted(y, n), NEW w, w = Cat3(x, p, z)
  PROVE  /\ p \in Seq(Byte)
         /\ Len(y) <= limit =>
              Prefixed(At(w, Len(x)), n, limit) = Got(y, At(w, Len(x) + Len(p)))
         /\ Len(y) > limit => Prefixed(At(w, Len(x)), n, limit).rest.err
<1> DEFINE b == BigEndian(Len(y), n)
           r == At(w, Len(x))
<1>1. b \in Seq(Byte) /\ Len(b) = n /\ Uint(b) = Len(y) /\ Len(y) \in Nat /\ Len(x) \in Nat
  <2>1. Len(y) \in 0 .. Pow[n] - 1
    <3>1. Len(y) \in Nat /\ Pow[n] \in Nat
      BY PowNat
    <3> QED BY <3>1
  <2>2. Uint(b) = Len(y) /\ b \in [1 .. n -> Byte]
    BY <2>1, UintOfBigEndian
  <2> HIDE DEF b
  <2> QED BY <2>2, ArrayIsSeq
<1>2. p = b \o y
  BY DEF Counted
<1> HIDE DEF b
<1>3. /\ p \in Seq(Byte) /\ Len(p) = n + Len(y) /\ x \o b \in Seq(Byte)
      /\ Len(x \o b) = Len(x) + n /\ y \o z \in Seq(Byte)
      /\ w = Cat3(x, b, y \o z) /\ w = Cat3(x \o b, y, z)
  <2>1. /\ Cat3(x, b \o y, z) = Cat3(x \o b, y, z)
        /\ Cat3(x, b \o y, z) = Cat3(x, b, y \o z)
        /\ x \o b \in Seq(Byte) /\ Len(x \o b) = Len(x) + Len(b)
        /\ b \o y \in Seq(Byte) /\ Len(b \o y) = Len(b) + Len(y)
        /\ y \o z \in Seq(Byte)
    BY <1>1, CatShifts
  <2> QED BY <1>1, <1>2, <2>1
<1>6. Fixed(r, n) = [val |-> b, rest |-> At(w, Len(x) + n)]
  <2> DEFINE c == y \o z
  <2>1. c \in Seq(Byte) /\ w = Cat3(x, b, c)
    BY <1>3
  <2> HIDE DEF c
  <2> QED BY <1>1, <2>1, FixedReads
<1>7. Fixed(At(w, Len(x) + n), Len(y)) = [val |-> y, rest |-> At(w, Len(x) + Len(p))]
  <2> DEFINE a == x \o b
  <2>1. a \in Seq(Byte) /\ Len(a) = Len(x) + n /\ w = Cat3(a, y, z)
    BY <1>3
  <2> HIDE DEF a
  <2>2. Fixed(At(w, Len(a)), Len(y)) = [val |-> y, rest |-> At(w, Len(a) + Len(y))]
    BY <2>1, FixedReads
  <2>3. Len(a) + Len(y) = Len(x) + Len(p)
    BY <1>1, <1>3, <2>1
  <2> QED BY <2>1, <2>2, <2>3
<1>8. CASE Len(y) <= limit
  <2>1. ~ (Uint(b) > limit)
    BY <1>1, <1>8
  <2>2. Fixed(r, n).val = b /\ Fixed(r, n).rest = At(w, Len(x) + n)
    BY <1>6
  <2>3. Prefixed(r, n, limit) = Fixed(At(w, Len(x) + n), Len(y))
    <3> HIDE DEF r
    <3> QED BY <1>1, <2>1, <2>2 DEF Prefixed
  <2> QED BY <1>1, <1>3, <1>7, <1>8, <2>3 DEF Got
<1>9. CASE Len(y) > limit
  <2>1. Uint(b) > limit
    BY <1>1, <1>9
  <2>2. Fixed(r, n).val = b /\ Fixed(r, n).rest = At(w, Len(x) + n)
    BY <1>6
  <2> DEFINE q == At(w, Len(x) + n)
             t == [q EXCEPT !.err = TRUE]
  <2>3. Prefixed(r, n, limit) = [val |-> <<>>, rest |-> t]
    <3> HIDE DEF r, q
    <3>1. Fixed(r, n).rest = q
      BY <2>2 DEF q
    <3> QED BY <2>1, <2>2, <3>1 DEF Prefixed
  <2>4. t.err
    BY DEF At
  <2>5. Prefixed(r, n, limit).rest.err
    <3> HIDE DEF r, t
    <3> QED BY <2>3, <2>4
  <2> QED BY <1>1, <1>3, <1>9, <2>5
<1> QED BY <1>1, <1>8, <1>9

\* The values that Unmarshal does not take for a field.
Lacks(f, v) ==
  \/ f.required /\ f.kind = "id" /\ v = EmptyID
  \/ f.required /\ f.kind = "uint64" /\ v = 0
  \/ f.required /\ f.kind \in {"string", "bytes"} /\ v = <<>>
  \/ f.kind = "bytes" /\ Len(v) > f.limit

\* A field is read back as it was packed, wherever it is, and an error is what
\* there is if Unmarshal does not take it.
LEMMA UnpackPacked ==
  ASSUME NEW g, NEW f, f.kind = g.kind, f.kind \in Kinds, f.required \in BOOLEAN, f.limit \in Nat,
         NEW v, v \in TypeOf(g.kind), Packable(g, v),
         NEW x, x \in Seq(Byte), NEW z, z \in Seq(Byte),
         NEW p, p = Pack(g, v), NEW w, w = Cat3(x, p, z)
  PROVE  /\ p \in Seq(Byte)
         /\ ~ Lacks(f, v) => Unpack(f, At(w, Len(x))) = [val |-> v, rest |-> At(w, Len(x) + Len(p))]
         /\ Lacks(f, v) => Unpack(f, At(w, Len(x))).rest.err
<1> DEFINE r == At(w, Len(x))
           e == At(w, Len(x) + Len(p))
           Right(bad) ==
             /\ p \in Seq(Byte)
             /\ ~bad => Unpack(f, r) = [val |-> v, rest |-> e]
             /\ bad => Unpack(f, r).rest.err
<1>0. Len(x) \in Nat
  OBVIOUS
<1>1. ASSUME p \in Seq(Byte)
      PROVE  w \in Seq(Byte) /\ r \in Readers(w) /\ e \in Readers(w) /\ Len(p) \in Nat
  <2>1. w \in Seq(Byte) /\ Len(p) \in Nat
    BY <1>1, Middle
  <2> QED BY <1>0, <2>1 DEF At, Readers
<1>2. ASSUME NEW bad, bad \in BOOLEAN, NEW V, v \in V, p \in Seq(Byte),
             Unpack(f, r) = Refuse([val |-> v, rest |-> e], bad)
      PROVE  Right(bad)
  <2>1. e \in Readers(w)
    BY <1>1, <1>2
  <2> DEFINE u == [val |-> v, rest |-> e]
  <2> HIDE DEF e, r
  <2>2. IsRead(u, w, V)
    BY <1>2, <2>1 DEF IsRead
  <2> HIDE DEF u
  <2>3. /\ Refuse(u, bad).rest.err <=> (u.rest.err \/ bad)
        /\ ~bad => Refuse(u, bad) = u
    BY <1>2, <2>2, RefuseIs
  <2>4. Unpack(f, r) = Refuse(u, bad)
    BY <1>2 DEF u
  <2> QED BY <1>2, <2>3, <2>4 DEF u
<1>3. CASE g.kind \in {"id", "address"}
  <2> DEFINE n == IF g.kind = "id" THEN IDLen ELSE AddressLen
  <2>1. n \in Nat /\ v \in [1 .. n -> Byte] /\ p = v
    BY <1>3, Widths DEF TypeOf, Pack
  <2>2. p \in Seq(Byte) /\ Len(p) = n
    <3> HIDE DEF n
    <3> QED BY <2>1, ArrayIsSeq
  <2>3. Fixed(r, n) = [val |-> v, rest |-> e]
    <3> HIDE DEF n
    <3> QED BY <2>1, <2>2, FixedReads
  <2>4. CASE g.kind = "id"
    <3> DEFINE bad == f.required /\ v = EmptyID
    <3>1. Fixed(r, IDLen) = [val |-> v, rest |-> e]
      BY <2>3, <2>4
    <3>2. Fixed(r, IDLen).val = v
      BY <3>1
    <3>3. Unpack(f, r) = Refuse([val |-> v, rest |-> e], bad) /\ bad \in BOOLEAN
      <4> HIDE DEF e, r
      <4> QED BY <2>4, <3>1, <3>2 DEF Unpack
    <3>4. Right(bad)
      <4> HIDE DEF bad
      <4> QED BY <1>2, <2>2, <3>3
    <3>5. Lacks(f, v) <=> bad
      BY <2>4 DEF Lacks
    <3> QED BY <3>4, <3>5
  <2>5. CASE g.kind = "address"
    <3>1. Unpack(f, r) = [val |-> v, rest |-> e]
      <4> HIDE DEF e, r
      <4> QED BY <2>3, <2>5 DEF Unpack
    <3>2. ~ Lacks(f, v)
      BY <2>5 DEF Lacks
    <3> QED BY <2>2, <3>1, <3>2
  <2> QED BY <1>3, <2>4, <2>5
<1>4. CASE g.kind = "uint64"
  <2> DEFINE bad == f.required /\ v = 0
  <2>1. v \in Nat /\ v \in 0 .. Pow[Uint64Len] - 1 /\ p = BigEndian(v, Uint64Len)
    BY <1>4, MaxInts, PowNat, Widths DEF TypeOf, Pack, MaxUint64
  <2>2. Uint(p) = v /\ p \in [1 .. Uint64Len -> Byte]
    BY <2>1, UintOfBigEndian, Widths
  <2>3. p \in Seq(Byte) /\ Len(p) = Uint64Len
    BY <2>2, ArrayIsSeq, Widths
  <2>4. Fixed(r, Uint64Len) = [val |-> p, rest |-> e]
    BY <2>3, FixedReads
  <2> DEFINE u == Fixed(r, Uint64Len)
  <2>5. [u EXCEPT !.val = v] = [val |-> v, rest |-> e] /\ u.val = p
    <3> HIDE DEF e, r
    <3> QED BY <2>4
  <2>6. Unpack(f, r) = Refuse([val |-> v, rest |-> e], bad) /\ bad \in BOOLEAN
    <3>1. Unpack(f, r) = Refuse([u EXCEPT !.val = Uint(u.val)], f.required /\ Uint(u.val) = 0)
      BY <1>4 DEF Unpack
    <3> HIDE DEF e, r, u
    <3> QED BY <2>2, <2>5, <3>1
  <2>7. Right(bad)
    <3> HIDE DEF bad
    <3> QED BY <1>2, <2>1, <2>3, <2>6
  <2>8. Lacks(f, v) <=> bad
    BY <1>4 DEF Lacks
  <2> QED BY <2>7, <2>8
<1>5. CASE g.kind = "bool"
  <2>1. v \in BOOLEAN /\ p = (IF v THEN <<1>> ELSE <<0>>)
    BY <1>5 DEF TypeOf, Pack
  <2>2. p \in [1 .. BoolLen -> Byte]
    BY <2>1, Widths DEF Byte, BoolLen
  <2>3. p \in Seq(Byte) /\ Len(p) = BoolLen
    BY <2>2, ArrayIsSeq DEF BoolLen
  <2>4. Fixed(r, BoolLen) = [val |-> p, rest |-> e]
    BY <2>3, FixedReads
  <2> DEFINE u == Fixed(r, BoolLen)
             b == p = <<1>>
             bad == p[1] > 1
  <2>5. b = v /\ ~bad /\ b \in BOOLEAN
    BY <2>1
  <2>6. Unpack(f, r) = Refuse([u EXCEPT !.val = b], bad)
    <3>1. u.val = p
      <4> HIDE DEF e, r
      <4> QED BY <2>4
    <3>2. Unpack(f, r) = Refuse([u EXCEPT !.val = u.val = <<1>>], u.val[1] > 1)
      BY <1>5 DEF Unpack
    <3> HIDE DEF u
    <3> QED BY <3>1, <3>2
  <2>7. [u EXCEPT !.val = b] = [val |-> v, rest |-> e]
    <3> HIDE DEF e, r, b
    <3> QED BY <2>4, <2>5
  <2>8. bad \in BOOLEAN
    OBVIOUS
  <2>9. Right(bad)
    <3> HIDE DEF bad, b, u
    <3> QED BY <1>2, <2>1, <2>3, <2>6, <2>7, <2>8
  <2>10. ~ Lacks(f, v)
    BY <1>5 DEF Lacks
  <2> QED BY <2>5, <2>9, <2>10
<1>6. CASE g.kind \in {"string", "bytes"}
  <2> DEFINE n     == IF g.kind = "string" THEN Uint16Len ELSE IntLen
             limit == IF g.kind = "string" THEN MaxUint16 ELSE f.limit
             bad   == f.required /\ v = <<>>
             u     == Prefixed(r, n, limit)
  <2>1. /\ n \in Nat /\ limit \in Nat /\ v \in Seq(Byte) /\ p = Counted(v, n)
        /\ Len(v) < Pow[n]
    <3>1. CASE g.kind = "string"
      <4>1. v \in Seq(Byte) /\ p = Counted(v, Uint16Len)
        BY <3>1 DEF TypeOf, Pack, Counted
      <4>2. Len(v) <= MaxUint16
        BY <3>1 DEF Packable
      <4>3. Len(v) < Pow[Uint16Len]
        BY <4>1, <4>2, MaxInts
      <4> QED BY <3>1, <4>1, <4>3, MaxInts, Widths
    <3>2. CASE g.kind = "bytes"
      <4>1. v \in Seq(Byte) /\ Len(v) < Pow[IntLen] /\ p = Counted(v, IntLen)
        BY <3>2 DEF TypeOf, Pack, Counted
      <4> QED BY <3>2, <4>1, Widths
    <3> QED BY <1>6, <3>1, <3>2
  <2>2. Unpack(f, r) = Refuse(u, f.required /\ u.val = <<>>)
    BY <1>6 DEF Unpack
  <2>3. /\ p \in Seq(Byte)
        /\ Len(v) <= limit => u = [val |-> v, rest |-> e]
        /\ Len(v) > limit => u.rest.err
    <3> HIDE DEF n, limit
    <3>1. /\ p \in Seq(Byte)
          /\ Len(v) <= limit => Prefixed(At(w, Len(x)), n, limit) = Got(v, At(w, Len(x) + Len(p)))
          /\ Len(v) > limit => Prefixed(At(w, Len(x)), n, limit).rest.err
      <4>1. /\ p \in Seq(Byte)
            /\ Len(v) > limit => Prefixed(At(w, Len(x)), n, limit).rest.err
        BY <2>1, PrefixedReads
      <4>2. Len(p) \in Nat /\ Len(x) \in Nat
        BY <4>1
      <4>3. ASSUME Len(v) <= limit
            PROVE  Prefixed(At(w, Len(x)), n, limit) = Got(v, At(w, Len(x) + Len(p)))
        BY <2>1, <4>1, <4>2, <4>3, PrefixedReads
      <4> QED BY <4>1, <4>3
    <3> QED BY <3>1 DEF Got
  <2>4. CASE Len(v) <= limit
    <3>1. u = [val |-> v, rest |-> e] /\ u.val = v
      <4> HIDE DEF e, r, u
      <4> QED BY <2>3, <2>4
    <3>2. Unpack(f, r) = Refuse([val |-> v, rest |-> e], bad) /\ bad \in BOOLEAN
      <4> HIDE DEF e, r, u
      <4> QED BY <2>2, <3>1
    <3>3. Right(bad)
      <4> HIDE DEF bad, u
      <4> QED BY <1>2, <2>1, <2>3, <3>2
    <3>4. Lacks(f, v) <=> bad
      <4>1. Len(v) \in Nat
        BY <2>1
      <4> QED BY <1>6, <2>1, <2>4, <4>1 DEF Lacks
    <3> QED BY <3>3, <3>4
  <2>5. CASE Len(v) > limit
    <3>1. w \in Seq(Byte) /\ r \in Readers(w)
      BY <1>1, <2>3
    <3>2. IsRead(u, w, Seq(Byte))
      <4> HIDE DEF r, n, limit
      <4> QED BY <2>1, <3>1, PrefixedIsRead
    <3> DEFINE c == f.required /\ u.val = <<>>
    <3>3. c \in BOOLEAN
      OBVIOUS
    <3>4. Refuse(u, c).rest.err
      <4> HIDE DEF u, c
      <4> QED BY <2>3, <2>5, <3>2, <3>3, RefuseIs
    <3>5. Lacks(f, v)
      <4>1. CASE g.kind = "bytes"
        BY <2>5, <4>1 DEF Lacks
      <4>2. CASE g.kind = "string"
        <5>1. Len(v) <= MaxUint16 /\ Len(v) \in Nat
          BY <2>1, <4>2 DEF Packable
        <5> QED BY <2>5, <4>2, <5>1, MaxInts
      <4> QED BY <1>6, <4>1, <4>2
    <3> QED BY <2>2, <2>3, <3>4, <3>5
  <2>6. Len(v) <= limit \/ Len(v) > limit
    <3>1. Len(v) \in Nat
      BY <2>1
    <3> HIDE DEF limit
    <3> QED BY <2>1, <3>1
  <2> QED BY <2>4, <2>5, <2>6
<1> QED BY <1>3, <1>4, <1>5, <1>6 DEF Kinds

-----------------------------------------------------------------------------
(* The fields of an action, in order                                       *)

\* What is packed is bytes.
LEMMA PackIsBytes ==
  ASSUME NEW g, g.kind \in Kinds, NEW v, v \in TypeOf(g.kind), Packable(g, v)
  PROVE  Pack(g, v) \in Seq(Byte)
<1> DEFINE e == FALSE
           f == [kind |-> g.kind, required |-> e, limit |-> 0]
           x == <<>>
           p == Pack(g, v)
           w == Cat3(x, p, x)
<1>1. e \in BOOLEAN /\ x \in Seq(Byte)
  OBVIOUS
<1> HIDE DEF e, x
<1>2. f.kind = g.kind /\ f.required \in BOOLEAN /\ f.limit \in Nat /\ f.kind \in Kinds
  BY <1>1
<1>3. p = Pack(g, v) /\ w = Cat3(x, p, x)
  OBVIOUS
<1> HIDE DEF f, p, w
<1>4. p \in Seq(Byte)
  BY <1>1, <1>2, <1>3, UnpackPacked
<1> QED BY <1>4 DEF p

\* The fields of an action, in the order q, have values that can be packed.
Fills(a, q, n) ==
  \A i \in 1 .. n : /\ q[i].kind \in Kinds /\ a[q[i].name] \in TypeOf(q[i].kind)
                    /\ Packable(q[i], a[q[i].name])

\* h has the bytes written after each field, and end after the last.
Wrote(h, a, q, n, end) ==
  h[0] = <<>> /\ h[n] = end /\ \A k \in 1 .. n : h[k] = h[k - 1] \o Pack(q[k], a[q[k].name])

\* Marshal writes the fields one after the other.
LEMMA MarshalRuns ==
  ASSUME NEW a, NEW n, n \in Nat, NEW q, DOMAIN q = 1 .. n, Fills(a, q, n),
         q = [i \in 1 .. n |-> q[i]], q = Codec(a.type).marshal,
         NEW end, end = MarshalAction(a)
  PROVE  \E h : h \in [0 .. n -> Seq(Byte)] /\ Wrote(h, a, q, n, end)
<1> DEFINE S == 1 .. n
           W == Seq(Byte)
           E == {q[i] : i \in S}
           f == [p \in W \X E |-> p[1] \o Pack(p[2], a[p[2].name])]
           Step(g, D) == IF D = {} THEN <<>>
                         ELSE g[D \ {Max(D)}] \o Pack(q[Max(D)], a[q[Max(D)].name])
           Is(g) == g = [D \in SUBSET S |-> Step(g, D)]
           G == CHOOSE x : Is(x)
           Solution(c) ==
             CHOOSE x : x = [D \in SUBSET DOMAIN c |->
                               IF D = {} THEN <<>>
                               ELSE x[D \ {Max(D)}] \o Pack(c[Max(D)], a[c[Max(D)].name])]
<1>1. f \in [W \X E -> W]
  <2>1. ASSUME NEW p \in W \X E PROVE p[1] \o Pack(p[2], a[p[2].name]) \in W
    <3>1. PICK i \in S : p[2] = q[i]
      OBVIOUS
    <3>2. Pack(q[i], a[q[i].name]) \in W
      BY PackIsBytes DEF Fills
    <3>3. p[1] \in W
      OBVIOUS
    <3> QED BY <3>1, <3>2, <3>3
  <2> QED BY <2>1
<1>2. q \in [S -> E] /\ <<>> \in W
  OBVIOUS
<1>3. \A s \in W, e \in E : f[<<s, e>>] = s \o Pack(e, a[e.name])
  OBVIOUS
<1>4. \E x : Is(x)
  <2>1. PICK g : g \in [SUBSET S -> W] /\ IsFold(g, f, <<>>, q)
    <3> HIDE DEF f, W, E
    <3> QED BY <1>1, <1>2, FoldExists
  <2>2. \A D \in SUBSET S : g[D] = FoldStep(g, f, <<>>, q, D)
    BY <2>1 DEF IsFold
  <2> HIDE DEF f, W, E
  <2>3. ASSUME NEW D \in SUBSET S PROVE g[D] = Step(g, D)
    <3>1. CASE D = {}
      BY <2>2, <3>1 DEF FoldStep
    <3>2. CASE D # {}
      <4>1. Max(D) \in D
        BY <3>2, MaxIn
      <4>2. q[Max(D)] \in E /\ g[D \ {Max(D)}] \in W
        BY <1>2, <2>1, <4>1
      <4>3. g[D] = f[<<g[D \ {Max(D)}], q[Max(D)]>>]
        BY <2>2, <3>2 DEF FoldStep
      <4> QED BY <1>3, <3>2, <4>2, <4>3
    <3> QED BY <3>1, <3>2
  <2>4. Is(g)
    <3> HIDE DEF Step
    <3> QED BY <2>1, <2>3
  <2> HIDE DEF Is
  <2> QED BY <2>4
<1>5. Is(G)
  <2> HIDE DEF Is
  <2> QED BY <1>4
<1>6. MarshalAction(a) = G[S]
  <2>1. MarshalAction(a) = Solution(Codec(a.type).marshal)[DOMAIN Codec(a.type).marshal]
    BY DEF MarshalAction, FoldLeft, MapThenFoldSet
  <2>2. Solution(q) = G
    OBVIOUS
  <2> HIDE DEF Solution, G
  <2> QED BY <2>1, <2>2
<1>7. G[{}] = <<>>
  <2> HIDE DEF G
  <2> QED BY <1>5
<1>8. ASSUME NEW D \in SUBSET S, D # {}, G[D \ {Max(D)}] \in W
      PROVE  G[D] = f[<<G[D \ {Max(D)}], q[Max(D)]>>]
  <2> HIDE DEF G, f, W, E
  <2>1. Max(D) \in D
    BY <1>8, MaxIn
  <2>2. q[Max(D)] \in E
    BY <1>2, <2>1
  <2>3. G[D] = G[D \ {Max(D)}] \o Pack(q[Max(D)], a[q[Max(D)].name])
    BY <1>5, <1>8
  <2> QED BY <1>3, <1>8, <2>2, <2>3
<1> HIDE DEF G, f, W, E, Is
<1>9. PICK h : h \in [0 .. n -> W] /\ Runs(h, f, <<>>, q, n, G[1 .. n])
  <2> DEFINE base == <<>>
  <2>1. base \in W /\ Backward(G, f, base, q, n, W)
    BY <1>2, <1>7, <1>8 DEF Backward
  <2> HIDE DEF base
  <2>2. \E h : h \in [0 .. n -> W] /\ Runs(h, f, base, q, n, G[1 .. n])
    BY <1>1, <1>2, <2>1, FoldRuns
  <2> QED BY <2>2 DEF base
<1>10. ASSUME NEW k \in 1 .. n PROVE h[k] = h[k - 1] \o Pack(q[k], a[q[k].name])
  <2>1. h[k - 1] \in W /\ q[k] \in E
    <3>1. k - 1 \in 0 .. n
      OBVIOUS
    <3> QED BY <1>2, <1>9, <3>1
  <2>2. h[k] = f[<<h[k - 1], q[k]>>]
    BY <1>9 DEF Runs
  <2> QED BY <1>3, <2>1, <2>2
<1>11. Wrote(h, a, q, n, end)
  BY <1>6, <1>9, <1>10 DEF Wrote, Runs
<1> QED BY <1>9, <1>11 DEF W

\* Fields that Unmarshal can read.
Readable(q, n) == \A i \in 1 .. n : q[i].kind \in Kinds /\ q[i].required \in BOOLEAN

\* What has been read of the fields named in N, and the reader after them.
States(N, buf) == [val : UNION {[M -> Values] : M \in SUBSET N}, rest : Readers(buf)]

\* Reading one more field.
Took(s, f) ==
  Got([m \in DOMAIN s.val \cup {f.name} |->
         IF m = f.name THEN Unpack(f, s.rest).val ELSE s.val[m]],
      Unpack(f, s.rest).rest)

\* Before the first field.
Start(type, r) == [val |-> [n \in {"type"} |-> type], rest |-> r]

\* h has what was read after each field, from start to end.
ReadAll(h, q, n, start, end) ==
  h[0] = start /\ h[n] = end /\ \A k \in 1 .. n : h[k] = Took(h[k - 1], q[k])

\* One more field makes one of those states of another.
LEMMA TookType ==
  ASSUME NEW buf, buf \in Seq(Byte), NEW N, NEW s, s \in States(N, buf),
         NEW f, f.kind \in Kinds, f.required \in BOOLEAN, f.name \in N
  PROVE  Took(s, f) \in States(N, buf) /\ (s.rest.err => Took(s, f).rest.err)
<1> DEFINE u == Unpack(f, s.rest)
           M == DOMAIN s.val \cup {f.name}
           v == [m \in M |-> IF m = f.name THEN u.val ELSE s.val[m]]
<1>1. s.rest \in Readers(buf) /\ s.val \in UNION {[K -> Values] : K \in SUBSET N}
  BY DEF States
<1>2. IsRead(u, buf, Values) /\ (s.rest.err => u.rest.err)
  BY <1>1, UnpackIsRead
<1> HIDE DEF u
<1>3. u.val \in Values /\ u.rest \in Readers(buf)
  BY <1>2 DEF IsRead
<1>4. PICK K \in SUBSET N : s.val \in [K -> Values]
  BY <1>1
<1>5. M \in SUBSET N /\ v \in [M -> Values]
  BY <1>3, <1>4
<1>6. Took(s, f) = [val |-> v, rest |-> u.rest]
  BY DEF Took, Got, u
<1> HIDE DEF v, M
<1>7. v \in UNION {[L -> Values] : L \in SUBSET N}
  BY <1>5
<1> DEFINE V == UNION {[L -> Values] : L \in SUBSET N}
           w == u.rest
<1>8. v \in V /\ w \in Readers(buf) /\ Took(s, f) = [val |-> v, rest |-> w]
  BY <1>3, <1>6, <1>7
<1>9. States(N, buf) = [val : V, rest : Readers(buf)]
  BY DEF States
<1>10. s.rest.err => w.err
  BY <1>2
<1> HIDE DEF V, w
<1>11. Took(s, f) \in States(N, buf) /\ Took(s, f).rest = w
  BY <1>8, <1>9
<1> QED BY <1>10, <1>11

\* Unmarshal reads the fields one after the other.
LEMMA UnmarshalRuns ==
  ASSUME NEW type, type \in Nat, NEW n, n \in Nat, NEW q, DOMAIN q = 1 .. n, Readable(q, n),
         q = [i \in 1 .. n |-> q[i]], q = Codec(type).unmarshal,
         NEW N, \A i \in 1 .. n : q[i].name \in N, "type" \in N,
         NEW buf, buf \in Seq(Byte), NEW r, r \in Readers(buf),
         NEW end, end = UnmarshalAction(type, r)
  PROVE  \E h : h \in [0 .. n -> States(N, buf)] /\ ReadAll(h, q, n, Start(type, r), end)
<1> DEFINE S == 1 .. n
           W == States(N, buf)
           E == {q[i] : i \in S}
           f == [p \in W \X E |-> Took(p[1], p[2])]
           base == Start(type, r)
           Step(g, D) == IF D = {} THEN base ELSE Took(g[D \ {Max(D)}], q[Max(D)])
           Is(g) == g = [D \in SUBSET S |-> Step(g, D)]
           G == CHOOSE x : Is(x)
           Solution(c) ==
             CHOOSE x : x = [D \in SUBSET DOMAIN c |->
                               IF D = {} THEN base ELSE Took(x[D \ {Max(D)}], c[Max(D)])]
<1>1. f \in [W \X E -> W]
  <2>1. ASSUME NEW p \in W \X E PROVE Took(p[1], p[2]) \in W
    <3>1. PICK i \in S : p[2] = q[i]
      OBVIOUS
    <3>2. q[i].kind \in Kinds /\ q[i].required \in BOOLEAN /\ q[i].name \in N
      BY DEF Readable
    <3>3. p[1] \in W
      OBVIOUS
    <3> QED BY <3>1, <3>2, <3>3, TookType
  <2> QED BY <2>1
<1>2. q \in [S -> E]
  OBVIOUS
<1>3. base \in W
  <2> DEFINE v == [m \in {"type"} |-> type]
  <2>1. v \in [{"type"} -> Values] /\ {"type"} \in SUBSET N
    BY DEF Values
  <2>2. base = [val |-> v, rest |-> r]
    BY DEF Start
  <2>3. v \in UNION {[M -> Values] : M \in SUBSET N}
    <3> HIDE DEF v
    <3> QED BY <2>1
  <2> HIDE DEF v, base
  <2> QED BY <2>2, <2>3 DEF States
<1>4. \A s \in W, e \in E : f[<<s, e>>] = Took(s, e)
  OBVIOUS
<1>5. \E x : Is(x)
  <2> HIDE DEF base
  <2>1. PICK g : g \in [SUBSET S -> W] /\ IsFold(g, f, base, q)
    <3> HIDE DEF f, W, E
    <3> QED BY <1>1, <1>2, <1>3, FoldExists
  <2>2. \A D \in SUBSET S : g[D] = FoldStep(g, f, base, q, D)
    BY <2>1 DEF IsFold
  <2> HIDE DEF f, W, E
  <2>3. ASSUME NEW D \in SUBSET S PROVE g[D] = Step(g, D)
    <3>1. CASE D = {}
      BY <2>2, <3>1 DEF FoldStep
    <3>2. CASE D # {}
      <4>1. Max(D) \in D
        BY <3>2, MaxIn
      <4>2. q[Max(D)] \in E /\ g[D \ {Max(D)}] \in W
        BY <1>2, <2>1, <4>1
      <4>3. g[D] = f[<<g[D \ {Max(D)}], q[Max(D)]>>]
        BY <2>2, <3>2 DEF FoldStep
      <4> QED BY <1>4, <3>2, <4>2, <4>3
    <3> QED BY <3>1, <3>2
  <2>4. Is(g)
    <3> HIDE DEF Step
    <3> QED BY <2>1, <2>3
  <2> HIDE DEF Is
  <2> QED BY <2>4
<1>6. Is(G)
  <2> HIDE DEF Is
  <2> QED BY <1>5
<1>7. end = G[S]
  <2>1. end = Solution(Codec(type).unmarshal)[DOMAIN Codec(type).unmarshal]
    BY DEF UnmarshalAction, FoldLeft, MapThenFoldSet, Took, Got, Start
  <2>2. Solution(q) = G
    OBVIOUS
  <2> HIDE DEF Solution, G
  <2> QED BY <2>1, <2>2
<1> HIDE DEF base
<1>8. G[{}] = base
  <2> HIDE DEF G
  <2> QED BY <1>6
<1>9. ASSUME NEW D \in SUBSET S, D # {}, G[D \ {Max(D)}] \in W
      PROVE  G[D] = f[<<G[D \ {Max(D)}], q[Max(D)]>>]
  <2> HIDE DEF G, f, W, E
  <2>1. Max(D) \in D
    BY <1>9, MaxIn
  <2>2. q[Max(D)] \in E
    BY <1>2, <2>1
  <2>3. G[D] = Took(G[D \ {Max(D)}], q[Max(D)])
    BY <1>6, <1>9
  <2> QED BY <1>4, <1>9, <2>2, <2>3
<1> HIDE DEF G, f, W, E, Is
<1>10. PICK h : h \in [0 .. n -> W] /\ Runs(h, f, base, q, n, G[1 .. n])
  <2>1. Backward(G, f, base, q, n, W)
    BY <1>8, <1>9 DEF Backward
  <2> QED BY <1>1, <1>2, <1>3, <2>1, FoldRuns
<1>11. ASSUME NEW k \in 1 .. n PROVE h[k] = Took(h[k - 1], q[k])
  <2>1. h[k - 1] \in W /\ q[k] \in E
    <3>1. k - 1 \in 0 .. n
      OBVIOUS
    <3> QED BY <1>2, <1>10, <3>1
  <2>2. h[k] = f[<<h[k - 1], q[k]>>]
    BY <1>10 DEF Runs
  <2> QED BY <1>4, <2>1, <2>2
<1>12. ReadAll(h, q, n, base, end)
  BY <1>7, <1>10, <1>11 DEF ReadAll, Runs
<1> QED BY <1>10, <1>12 DEF W, base

\* The end is what there is, and t.
Followed(y, t, end) == end = y \o t

\* A prefix of what is written is followed by the rest of it.
LEMMA WroteOn ==
  ASSUME NEW a, NEW n, n \in Nat, NEW q, Fills(a, q, n), NEW end,
         NEW h, h \in [0 .. n -> Seq(Byte)], Wrote(h, a, q, n, end), NEW j, j \in 0 .. n
  PROVE  \E t : t \in Seq(Byte) /\ Followed(h[j], t, end)
<1> DEFINE On(k) == \E t : t \in Seq(Byte) /\ h[k] = h[j] \o t
           T == {k \in Nat : j <= k /\ k <= n => On(k)}
<1>1. ASSUME NEW k \in 0 .. n, k = j PROVE On(k)
  <2>1. <<>> \in Seq(Byte) /\ h[k] = h[j] \o <<>>
    BY <1>1
  <2> QED BY <2>1
<1>2. ASSUME NEW k \in 0 .. n, k + 1 <= n, On(k) PROVE On(k + 1)
  <2>1. PICK t : t \in Seq(Byte) /\ h[k] = h[j] \o t
    BY <1>2
  <2> DEFINE i == k + 1
  <2>2. i \in 1 .. n /\ i - 1 = k
    BY <1>2
  <2> HIDE DEF i
  <2> DEFINE p == Pack(q[i], a[q[i].name])
  <2>3. p \in Seq(Byte)
    BY <2>2, PackIsBytes DEF Fills
  <2>4. h[i] = h[k] \o p
    BY <2>2 DEF Wrote
  <2> HIDE DEF p
  <2> DEFINE B == Byte
             x == h[j]
  <2>5. x \in Seq(B) /\ t \in Seq(B) /\ p \in Seq(B)
    BY <2>1, <2>3
  <2> HIDE DEF B, x
  <2>6. (x \o t) \o p = x \o (t \o p) /\ t \o p \in Seq(B)
    BY <2>5, ConcatAssociative, ConcatProperties
  <2>7. \E s : s \in Seq(Byte) /\ h[i] = h[j] \o s
    BY <2>1, <2>4, <2>6 DEF B, x
  <2> QED BY <2>7 DEF i
<1> HIDE DEF On
<1>3. 0 \in T
  BY <1>1
<1>4. ASSUME NEW k \in Nat, k \in T PROVE k + 1 \in T
  <2>1. CASE j <= k + 1 /\ k + 1 <= n
    <3>1. CASE j = k + 1
      <4> DEFINE i == k + 1
      <4>1. i \in 0 .. n /\ i = j
        BY <2>1, <3>1
      <4> HIDE DEF i
      <4>2. On(i)
        BY <1>1, <4>1
      <4> QED BY <4>2 DEF i
    <3>2. CASE j # k + 1
      <4>1. j <= k /\ k <= n /\ k \in 0 .. n
        BY <2>1, <3>2
      <4>2. On(k)
        BY <1>4, <4>1
      <4> QED BY <1>2, <2>1, <4>1, <4>2
    <3> QED BY <3>1, <3>2
  <2>2. CASE ~ (j <= k + 1 /\ k + 1 <= n)
    BY <2>2
  <2> QED BY <2>1, <2>2
<1>5. Nat \subseteq T
  <2> HIDE DEF T
  <2> QED BY <1>3, <1>4, NatInductionOnSet
<1>6. On(n)
  <2>1. n \in T /\ j <= n /\ n <= n
    BY <1>5
  <2> QED BY <2>1
<1> QED BY <1>6 DEF On, Wrote, Followed

\* The two sides of the format of an action, field by field.
Aligned(m, u, n) ==
  /\ DOMAIN m = 1 .. n /\ m = [i \in 1 .. n |-> m[i]]
  /\ DOMAIN u = 1 .. n /\ u = [i \in 1 .. n |-> u[i]]
  /\ \A i \in 1 .. n : /\ u[i].kind = m[i].kind /\ u[i].name = m[i].name
                       /\ u[i].kind \in Kinds /\ u[i].required \in BOOLEAN
                       /\ u[i].limit \in Nat

\* The names of the type and of the first k fields, and their values.
Names(q, k)     == {"type"} \cup {q[i].name : i \in 1 .. k}
ValuesOf(a, q, k) == [m \in Names(q, k) |-> a[m]]

\* No field of the first k is one that Unmarshal does not take.
Fine(a, q, k) == \A i \in 1 .. k : ~ Lacks(q[i], a[q[i].name])

\* What is read of the fields up to k, whether one is not taken or none.
Right(s, a, q, k, w, off) ==
  /\ Fine(a, q, k) => s = Got(ValuesOf(a, q, k), At(w, off))
  /\ ~ Fine(a, q, k) => s.rest.err

\* One more field.
LEMMA RightStep ==
  ASSUME NEW a, NEW n, n \in Nat, NEW m, NEW u, Aligned(m, u, n), Fills(a, m, n),
         NEW k, k \in 1 .. n,
         NEW x, x \in Seq(Byte), NEW z, z \in Seq(Byte),
         NEW p, p = Pack(m[k], a[m[k].name]), NEW w, w = Cat3(x, p, z), w \in Seq(Byte),
         NEW off, off = Len(x) + Len(p),
         NEW N, u[k].name \in N, NEW s, s \in States(N, w), Right(s, a, u, k - 1, w, Len(x))
  PROVE  Right(Took(s, u[k]), a, u, k, w, off)
<1> DEFINE f == u[k]
           name == f.name
           v == a[name]
<1>1. /\ f.kind = m[k].kind /\ m[k].name = name /\ f.kind \in Kinds /\ f.required \in BOOLEAN
      /\ f.limit \in Nat /\ f.name \in N
      /\ v \in TypeOf(m[k].kind) /\ Packable(m[k], v) /\ p = Pack(m[k], v)
  BY DEF Aligned, Fills
<1>2. Fine(a, u, k) <=> Fine(a, u, k - 1) /\ ~ Lacks(f, v)
  <2>1. \A i : i \in 1 .. k <=> (i \in 1 .. (k - 1) \/ i = k)
    OBVIOUS
  <2> HIDE DEF f
  <2> QED BY <2>1 DEF Fine, f
<1>3. Names(u, k) = Names(u, k - 1) \cup {name}
  <2>1. \A i : i \in 1 .. k <=> (i \in 1 .. (k - 1) \/ i = k)
    OBVIOUS
  <2> QED BY <2>1 DEF Names
<1> HIDE DEF f, v, name
<1>4. /\ ~ Lacks(f, v) => Unpack(f, At(w, Len(x))) = [val |-> v, rest |-> At(w, Len(x) + Len(p))]
      /\ Lacks(f, v) => Unpack(f, At(w, Len(x))).rest.err
  <2> DEFINE g == m[k]
  <2>1. f.kind = g.kind /\ v \in TypeOf(g.kind) /\ Packable(g, v) /\ p = Pack(g, v)
    BY <1>1
  <2> HIDE DEF g
  <2>2. Len(x) \in Nat
    OBVIOUS
  <2>3. p \in Seq(Byte) /\ (Lacks(f, v) => Unpack(f, At(w, Len(x))).rest.err)
    BY <1>1, <2>1, UnpackPacked
  <2>4. Len(p) \in Nat
    BY <2>3
  <2>5. ASSUME ~ Lacks(f, v)
        PROVE  Unpack(f, At(w, Len(x))) = [val |-> v, rest |-> At(w, Len(x) + Len(p))]
    BY <1>1, <2>1, <2>2, <2>4, <2>5, UnpackPacked
  <2> QED BY <2>3, <2>5
<1>5. CASE ~ Fine(a, u, k - 1)
  <2>1. s.rest.err
    BY <1>5 DEF Right
  <2>2. Took(s, f).rest.err
    BY <1>1, <2>1, TookType
  <2> QED BY <1>2, <1>5, <2>2 DEF Right, f
<1>6. CASE Fine(a, u, k - 1)
  <2> DEFINE D == Names(u, k - 1)
             g == ValuesOf(a, u, k - 1)
             r == At(w, Len(x))
             y == Unpack(f, r)
  <2>1. s = Got(g, r) /\ DOMAIN g = D /\ \A i \in D : g[i] = a[i]
    BY <1>6 DEF Right, ValuesOf
  <2>2. s.val = g /\ s.rest = r
    <3> HIDE DEF g, r
    <3> QED BY <2>1 DEF Got
  <2>3. Took(s, f) = Got([i \in D \cup {name} |-> IF i = name THEN y.val ELSE g[i]], y.rest)
    <3> HIDE DEF g, r, D
    <3> QED BY <2>1, <2>2 DEF Took, name
  <2>4. CASE Lacks(f, v)
    <3>1. y.rest.err
      BY <1>4, <2>4
    <3>2. Took(s, f).rest = y.rest
      <4> HIDE DEF g, y, D
      <4> QED BY <2>3 DEF Got
    <3> QED BY <1>2, <2>4, <3>1, <3>2 DEF Right, f
  <2>5. CASE ~ Lacks(f, v)
    <3> DEFINE e == At(w, off)
    <3>1. y.val = v /\ y.rest = e
      <4>1. y = [val |-> v, rest |-> e]
        BY <1>4, <2>5
      <4> HIDE DEF y, e
      <4> QED BY <4>1
    <3>2. [i \in D \cup {name} |-> IF i = name THEN y.val ELSE g[i]] = ValuesOf(a, u, k)
      <4>1. \A i \in D \cup {name} : (IF i = name THEN y.val ELSE g[i]) = a[i]
        <5> HIDE DEF g, y, D
        <5> QED BY <2>1, <3>1 DEF v
      <4> HIDE DEF g, y, D
      <4>2. [i \in D \cup {name} |-> IF i = name THEN y.val ELSE g[i]]
              = [i \in D \cup {name} |-> a[i]]
        BY <4>1
      <4> QED BY <1>3, <4>2 DEF ValuesOf, D
    <3>3. Took(s, f) = Got(ValuesOf(a, u, k), e)
      <4> HIDE DEF g, y, D, e
      <4> QED BY <2>3, <3>1, <3>2
    <3> QED BY <1>2, <1>6, <2>5, <3>3 DEF Right, f
  <2> QED BY <2>4, <2>5
<1> QED BY <1>5, <1>6

\* What Marshal of an action writes is bytes.
LEMMA MarshalIsBytes ==
  ASSUME NEW a, NEW n, n \in Nat, NEW m, m = Codec(a.type).marshal, NEW u,
         Aligned(m, u, n), Fills(a, m, n), NEW b, b = MarshalAction(a)
  PROVE  b \in Seq(Byte)
<1>1. DOMAIN m = 1 .. n /\ m = [i \in 1 .. n |-> m[i]]
  BY DEF Aligned
<1>2. PICK h : h \in [0 .. n -> Seq(Byte)] /\ Wrote(h, a, m, n, b)
  BY <1>1, MarshalRuns
<1>3. n \in 0 .. n
  OBVIOUS
<1> QED BY <1>2, <1>3 DEF Wrote

\* Unmarshal of an action, wherever it is, reads what Marshal wrote, or has an
\* error if a field is one that it does not take.
LEMMA ActionReads ==
  ASSUME NEW a, a.type \in Nat, NEW n, n \in Nat,
         NEW m, m = Codec(a.type).marshal, NEW u, u = Codec(a.type).unmarshal,
         Aligned(m, u, n), Fills(a, m, n),
         NEW x, x \in Seq(Byte), NEW z, z \in Seq(Byte),
         NEW b, b = MarshalAction(a), NEW w, w = Cat3(x, b, z),
         NEW off, off = Len(x) + Len(b),
         NEW end, end = UnmarshalAction(a.type, At(w, Len(x)))
  PROVE  b \in Seq(Byte) /\ w \in Seq(Byte) /\ end.rest \in Readers(w)
         /\ Right(end, a, u, n, w, off)
<1> DEFINE r == At(w, Len(x))
           N == {"type"} \cup {u[i].name : i \in 1 .. n}
<1>1. DOMAIN m = 1 .. n /\ m = [i \in 1 .. n |-> m[i]]
      /\ DOMAIN u = 1 .. n /\ u = [i \in 1 .. n |-> u[i]]
  BY DEF Aligned
<1>2. PICK h : h \in [0 .. n -> Seq(Byte)] /\ Wrote(h, a, m, n, b)
  BY <1>1, MarshalRuns
<1>3. b \in Seq(Byte) /\ Len(x) \in Nat
  <2>1. b \in Seq(Byte)
    BY MarshalIsBytes
  <2>2. Len(x) \in Nat
    OBVIOUS
  <2> QED BY <2>1, <2>2
<1>4. w \in Seq(Byte)
  BY <1>3, Middle
<1>5. r \in Readers(w)
  BY <1>3 DEF At, Readers
<1>6. Readable(u, n) /\ (\A i \in 1 .. n : u[i].name \in N) /\ "type" \in N
  BY DEF Aligned, Readable
<1> HIDE DEF r, N
<1>7. PICK H : H \in [0 .. n -> States(N, w)] /\ ReadAll(H, u, n, Start(a.type, r), end)
  <2> DEFINE t == a.type
  <2>1. t \in Nat /\ u = Codec(t).unmarshal /\ end = UnmarshalAction(t, r)
    BY DEF r
  <2> HIDE DEF t
  <2>2. \E H : H \in [0 .. n -> States(N, w)] /\ ReadAll(H, u, n, Start(t, r), end)
    BY <1>1, <1>4, <1>5, <1>6, <2>1, UnmarshalRuns
  <2> QED BY <2>2 DEF t
<1> DEFINE Off(k) == Len(x) + Len(h[k])
           Good(k) == Right(H[k], a, u, k, w, Off(k))
           T == {k \in Nat : k <= n => Good(k)}
<1>8. Good(0)
  <2>1. H[0] = Start(a.type, r)
    BY <1>7 DEF ReadAll
  <2>2. Names(u, 0) = {"type"}
    <3>1. 1 .. 0 = {}
      OBVIOUS
    <3> QED BY <3>1 DEF Names
  <2>3. ValuesOf(a, u, 0) = [i \in {"type"} |-> a.type]
    BY <2>2 DEF ValuesOf
  <2>4. Off(0) = Len(x)
    <3>1. h[0] = <<>>
      BY <1>2 DEF Wrote
    <3> QED BY <1>3, <3>1
  <2>5. Start(a.type, r) = Got(ValuesOf(a, u, 0), r)
    BY <2>3 DEF Start, Got
  <2>6. Fine(a, u, 0)
    BY DEF Fine
  <2> QED BY <2>1, <2>4, <2>5, <2>6 DEF Right, r
<1>9. ASSUME NEW j \in Nat, j + 1 <= n, Good(j) PROVE Good(j + 1)
  <2> DEFINE k == j + 1
  <2>1. k \in 1 .. n /\ k - 1 = j /\ j \in 0 .. n /\ k \in 0 .. n
    BY <1>9
  <2> HIDE DEF k
  <2> DEFINE p == Pack(m[k], a[m[k].name])
             y == x \o h[j]
  <2>2. PICK t : t \in Seq(Byte) /\ b = h[k] \o t
    <3>1. PICK t : t \in Seq(Byte) /\ Followed(h[k], t, b)
      BY <1>2, <2>1, WroteOn
    <3> QED BY <3>1 DEF Followed
  <2>3. h[k] = h[j] \o p /\ h[j] \in Seq(Byte)
    BY <1>2, <2>1 DEF Wrote
  <2>4. p \in Seq(Byte)
    BY <2>1, PackIsBytes DEF Aligned, Fills
  <2> DEFINE c == h[j]
             d == t \o z
  <2>5. /\ w = Cat3(y, p, d) /\ y \in Seq(Byte) /\ Len(y) = Len(x) + Len(c) /\ d \in Seq(Byte)
        /\ Len(h[k]) = Len(c) + Len(p)
    <3>1. c \in Seq(Byte) /\ b = (c \o p) \o t /\ h[k] = c \o p
      BY <2>2, <2>3
    <3> HIDE DEF c, p
    <3> DEFINE e == c \o p
    <3>2. e \in Seq(Byte) /\ Len(e) = Len(c) + Len(p)
      BY <2>4, <3>1, CatShifts
    <3>3. Cat3(x, b, z) = Cat3(x, e, d) /\ d \in Seq(Byte)
      <4>1. b = e \o t
        BY <3>1
      <4> HIDE DEF e
      <4>2. Cat3(x, e \o t, z) = Cat3(x, e, t \o z) /\ t \o z \in Seq(Byte)
        BY <2>2, <3>2, CatShifts
      <4> QED BY <4>1, <4>2
    <3>4. Cat3(x, e, d) = Cat3(y, p, d) /\ y \in Seq(Byte) /\ Len(y) = Len(x) + Len(c)
      <4>1. y = x \o c
        BY DEF c
      <4> HIDE DEF d, y
      <4>2. Cat3(x, c \o p, d) = Cat3(x \o c, p, d) /\ x \o c \in Seq(Byte)
            /\ Len(x \o c) = Len(x) + Len(c)
        BY <2>4, <3>1, <3>3, CatShifts
      <4> QED BY <4>1, <4>2
    <3> QED BY <3>1, <3>2, <3>3, <3>4 DEF e
  <2> DEFINE o == Off(k)
             s == H[j]
  <2>6. o = Len(y) + Len(p) /\ Len(y) = Off(j)
    <3>1. Len(c) \in Nat /\ Len(p) \in Nat
      BY <2>3, <2>4
    <3> HIDE DEF p, y, d
    <3> QED BY <1>3, <2>5, <3>1
  <2>7. s \in States(N, w) /\ H[k] = Took(s, u[k]) /\ u[k].name \in N
    BY <1>6, <1>7, <2>1 DEF ReadAll
  <2>8. Right(s, a, u, k - 1, w, Len(y))
    BY <1>9, <2>1, <2>6
  <2> HIDE DEF p, y, d, c, o, s
  <2>9. p = Pack(m[k], a[m[k].name])
    BY DEF p
  <2>10. Right(Took(s, u[k]), a, u, k, w, o)
    BY <1>4, <2>1, <2>5, <2>6, <2>7, <2>8, <2>9, RightStep
  <2> QED BY <2>7, <2>10 DEF o, k
<1>10. Nat \subseteq T
  <2> HIDE DEF Good
  <2>1. 0 \in T
    BY <1>8
  <2>2. ASSUME NEW j \in Nat, j \in T PROVE j + 1 \in T
    BY <1>9, <2>2
  <2> HIDE DEF T
  <2> QED BY <2>1, <2>2, NatInductionOnSet
<1>11. Good(n)
  <2>1. n \in T /\ n <= n
    BY <1>10
  <2> HIDE DEF Good
  <2> QED BY <2>1
<1>12. H[n] = end /\ h[n] = b
  BY <1>2, <1>7 DEF ReadAll, Wrote
<1>13. end.rest \in Readers(w)
  <2>1. end \in States(N, w)
    <3>1. n \in 0 .. n
      OBVIOUS
    <3> QED BY <1>7, <1>12, <3>1
  <2> QED BY <2>1 DEF States
<1> QED BY <1>3, <1>4, <1>11, <1>12, <1>13

-----------------------------------------------------------------------------
(* The formats                                                             *)

\* The types of the actions.
LEMMA TypesAre ==
  /\ Transfer.type = 0 /\ Register.type = 1 /\ RegisterImage.type = 2
  /\ ValidatorVote.type = 3 /\ SP1.type = 4 /\ Miden.type = 5 /\ RiscZero.type = 6
  /\ Jolt.type = 8 /\ PLONKY2.type = 9
BY DEF Transfer, Register, RegisterImage, ValidatorVote, SP1, Miden, RiscZero, Jolt, PLONKY2,
       TransferID, RegisterID, RegisterImageID, ValidatorVoteID, SP1ID, MidenID, RiscZeroID,
       JoltID, Plonky2ID

\* Each type of action has one format.
LEMMA CodecOfType == \A c \in ActionRegistry : Codec(c.type) = c /\ c.type \in Byte
<1>1. \A c, d \in ActionRegistry : c.type = d.type => c = d
  BY TypesAre DEF ActionRegistry
<1>2. \A c \in ActionRegistry : c.type \in 0 .. 9
  BY TypesAre DEF ActionRegistry
<1>3. \A c \in ActionRegistry : c.type \in Byte
  BY <1>2, Widths DEF Byte
<1> QED BY <1>1, <1>3 DEF Codec

IDNames     == {"imageID", "txID"}
IntNames    == {"value", "provingSystem", "valType", "proofValType", "commonDataValType",
                "verifierDataValType", "timeOutBlocks"}
StringNames == {"rootHash", "riscZeroImageID", "codeFrontEnd", "inputsFrontEnd",
                "outputsFrontEnd"}

\* What a field of a format is, by its name.
Described(f) ==
  /\ f.kind \in Kinds /\ f.required \in BOOLEAN /\ f.limit \in Nat
  /\ f.required <=> f.kind \in {"id", "uint64", "string", "bytes"}
  /\ f.kind = "id" <=> f.name \in IDNames
  /\ f.kind = "uint64" <=> f.name \in IntNames
  /\ f.kind = "string" <=> f.name \in StringNames
  /\ f.kind = "bytes" <=> f.name \in {"signature", "publicKey"}
  /\ f.name = "signature" => f.limit = SignatureLen[BLSID]
  /\ f.name = "publicKey" => f.limit = PublicKeyLen[BLSID]

\* The two sides agree on a field, and it is what its name says.
Same(f, g) == f.kind = g.kind /\ f.name = g.name /\ Described(g)

\* The limits of a key and a signature are numbers.
LEMMA Limits == SignatureLen[BLSID] \in Nat /\ PublicKeyLen[BLSID] \in Nat
<1>1. BLSID \in AuthRegistry
  BY DEF AuthRegistry
<1>2. Pow[IntLen] \in Nat
  BY PowNat, Widths
<1> QED BY <1>1, <1>2, WidthAssumption

\* Each field that some action has.
LEMMA FieldsSame ==
  /\ \A name \in IDNames : Same(F("id", name), Required("id", name))
  /\ \A name \in IntNames : Same(F("uint64", name), Required("uint64", name))
  /\ \A name \in StringNames : Same(F("string", name), Required("string", name))
  /\ Same(F("address", "to"), Read("address", "to"))
  /\ Same(F("bool", "vote"), Read("bool", "vote"))
  /\ Same(F("bytes", "signature"), Limited("signature", SignatureLen[BLSID]))
  /\ Same(F("bytes", "publicKey"), Limited("publicKey", PublicKeyLen[BLSID]))
BY Limits DEF Same, Described, Kinds, F, Required, Read, Limited, IDNames, IntNames, StringNames

\* The two sides of a format, of n fields.
Sides(c, n) ==
  /\ DOMAIN c.marshal = 1 .. n /\ c.marshal = [i \in 1 .. n |-> c.marshal[i]]
  /\ DOMAIN c.unmarshal = 1 .. n /\ c.unmarshal = [i \in 1 .. n |-> c.unmarshal[i]]
  /\ \A i \in 1 .. n : Same(c.marshal[i], c.unmarshal[i])

\* Marshal and Unmarshal of every action agree on their fields.
LEMMA SidesSame ==
  \A c \in ActionRegistry : \E n \in Nat : Sides(c, n)
<1>1. Sides(Transfer, 2)
  BY FieldsSame DEF Sides, Transfer, IntNames
<1>2. Sides(Register, 1)
  BY FieldsSame DEF Sides, Register, IntNames
<1>3. Sides(RegisterImage, 3)
  BY FieldsSame DEF Sides, RegisterImage, IDNames, IntNames, StringNames
<1>4. Sides(ValidatorVote, 4)
  BY FieldsSame DEF Sides, ValidatorVote, IDNames
<1>5. Sides(SP1, 3)
  BY FieldsSame DEF Sides, SP1, IDNames, IntNames
<1>6. Sides(Jolt, 3)
  BY FieldsSame DEF Sides, SP1, Jolt, IDNames, IntNames
<1>7. Sides(RiscZero, 4)
  BY FieldsSame DEF Sides, RiscZero, IDNames, IntNames, StringNames
<1>8. Sides(Miden, 6)
  BY FieldsSame DEF Sides, Miden, IDNames, IntNames, StringNames
<1>9. Sides(PLONKY2, 5)
  BY FieldsSame DEF Sides, PLONKY2, IDNames, IntNames
<1> QED BY <1>1, <1>2, <1>3, <1>4, <1>5, <1>6, <1>7, <1>8, <1>9 DEF ActionRegistry

\* a has the fields of the format c, with values of their types.
IsOf(a, c) ==
  /\ c \in ActionRegistry /\ a.type = c.type
  /\ a = [name \in {"type"} \cup {c.marshal[i].name : i \in DOMAIN c.marshal} |-> a[name]]
  /\ \A i \in DOMAIN c.marshal : a[c.marshal[i].name] \in TypeOf(c.marshal[i].kind)

\* That is what IsAction says.
LEMMA ActionIsOf == \A a : IsAction(a) => \E c : IsOf(a, c)
<1> SUFFICES ASSUME NEW a, IsAction(a) PROVE \E c : IsOf(a, c)
  OBVIOUS
<1> DEFINE fields(c) == {c.marshal[i] : i \in DOMAIN c.marshal}
           names(c)  == {"type"} \cup {f.name : f \in fields(c)}
<1>1. PICK c \in ActionRegistry :
        /\ a.type = c.type /\ a = [name \in names(c) |-> a[name]]
        /\ \A f \in fields(c) : a[f.name] \in TypeOf(f.kind)
  BY DEF IsAction
<1>2. names(c) = {"type"} \cup {c.marshal[i].name : i \in DOMAIN c.marshal}
  OBVIOUS
<1>3. \A i \in DOMAIN c.marshal : a[c.marshal[i].name] \in TypeOf(c.marshal[i].kind)
  BY <1>1
<1> HIDE DEF names
<1>4. IsOf(a, c)
  BY <1>1, <1>2, <1>3 DEF IsOf
<1> QED BY <1>4

\* The value v is wanting in a field of that name.
WantingIn(name, v) ==
  \/ name \in IDNames /\ v = EmptyID
  \/ name \in IntNames /\ v = 0
  \/ name \in StringNames /\ Len(v) \notin 1 .. MaxUint16
  \/ name = "signature" /\ Len(v) \notin 1 .. SignatureLen[BLSID]
  \/ name = "publicKey" /\ Len(v) \notin 1 .. PublicKeyLen[BLSID]

\* A value is wanting exactly if it cannot be packed or is not taken.
LEMMA WantingField ==
  ASSUME NEW f, NEW g, Same(f, g), NEW v, v \in TypeOf(f.kind)
  PROVE  WantingIn(g.name, v) <=> ~ Packable(f, v) \/ Lacks(g, v)
<1>1. MaxUint16 \in Nat /\ SignatureLen[BLSID] \in Nat /\ PublicKeyLen[BLSID] \in Nat
  BY MaxInts, Limits
<1>2. f.kind = g.kind /\ Described(g) /\ g.kind \in Kinds
  BY DEF Same, Described
<1> USE DEF Described, WantingIn, Packable, Lacks
<1>3. CASE g.kind = "id"
  <2>1. g.name \in IDNames /\ g.name \notin IntNames /\ g.name \notin StringNames
        /\ g.name \notin {"signature", "publicKey"} /\ g.required
    BY <1>2, <1>3
  <2> QED BY <1>2, <1>3, <2>1
<1>4. CASE g.kind = "uint64"
  <2>1. g.name \in IntNames /\ g.name \notin IDNames /\ g.name \notin StringNames
        /\ g.name \notin {"signature", "publicKey"} /\ g.required
    BY <1>2, <1>4
  <2> QED BY <1>2, <1>4, <2>1
<1>5. CASE g.kind \in {"address", "bool"}
  <2>1. g.name \notin IntNames /\ g.name \notin IDNames /\ g.name \notin StringNames
        /\ g.name \notin {"signature", "publicKey"} /\ ~ g.required
    BY <1>2, <1>5
  <2> QED BY <1>2, <1>5, <2>1
<1>6. CASE g.kind = "string"
  <2>1. g.name \notin IntNames /\ g.name \notin IDNames /\ g.name \in StringNames
        /\ g.name \notin {"signature", "publicKey"} /\ g.required
    BY <1>2, <1>6
  <2>2. v \in Seq(Byte)
    BY <1>2, <1>6 DEF TypeOf
  <2>3. Len(v) \in Nat /\ (v = <<>> <=> Len(v) = 0)
    BY <2>2
  <2> QED BY <1>1, <1>2, <1>6, <2>1, <2>3
<1>7. CASE g.kind = "bytes"
  <2>1. g.name \notin IntNames /\ g.name \notin IDNames /\ g.name \notin StringNames
        /\ g.name \in {"signature", "publicKey"} /\ g.required
    BY <1>2, <1>7
  <2>2. v \in Seq(Byte)
    BY <1>2, <1>7 DEF TypeOf
  <2>3. Len(v) \in Nat /\ (v = <<>> <=> Len(v) = 0)
    BY <2>2
  <2>4. WantingIn(g.name, v) <=> Len(v) \notin 1 .. g.limit
    BY <1>2, <2>1
  <2>5. Len(v) \notin 1 .. g.limit <=> v = <<>> \/ Len(v) > g.limit
    BY <1>2, <2>3
  <2>6. Packable(f, v) /\ (Lacks(g, v) <=> v = <<>> \/ Len(v) > g.limit)
    BY <1>2, <1>7, <2>1
  <2> QED BY <2>4, <2>5, <2>6
<1> QED BY <1>2, <1>3, <1>4, <1>5, <1>6, <1>7 DEF Kinds

\* An action is wanting exactly if Marshal fails or Unmarshal does not take it.
LEMMA WantingIs ==
  ASSUME NEW a, NEW c, IsOf(a, c), NEW n \in Nat, Sides(c, n)
  PROVE  /\ Wanting(a) <=> MarshalFails(a) \/ ~ Fine(a, c.unmarshal, n)
         /\ ValuesOf(a, c.unmarshal, n) = a
<1> DEFINE m == c.marshal
           u == c.unmarshal
           N == {m[i].name : i \in 1 .. n}
<1>1. Codec(a.type) = c /\ c \in ActionRegistry
  BY CodecOfType DEF IsOf
<1>2. DOMAIN m = 1 .. n /\ \A i \in 1 .. n : Same(m[i], u[i]) /\ m[i].name = u[i].name
  BY DEF Sides, Same
<1>3. /\ a = [name \in {"type"} \cup N |-> a[name]]
      /\ \A i \in 1 .. n : a[m[i].name] \in TypeOf(m[i].kind)
  BY <1>2 DEF IsOf
<1> HIDE DEF m, u
<1>4. Wanting(a) <=> \E name \in DOMAIN a : WantingIn(name, a[name])
  BY DEF Wanting, WantingIn, IDNames, IntNames, StringNames
<1>5. DOMAIN a = {"type"} \cup N
  <2> HIDE DEF N
  <2> QED BY <1>3
<1>6. \A v : ~ WantingIn("type", v)
  BY DEF WantingIn, IDNames, IntNames, StringNames
<1>7. Wanting(a) <=> \E i \in 1 .. n : WantingIn(u[i].name, a[u[i].name])
  BY <1>2, <1>4, <1>5, <1>6
<1>8. \A i \in 1 .. n : WantingIn(u[i].name, a[u[i].name])
                          <=> ~ Packable(m[i], a[u[i].name]) \/ Lacks(u[i], a[u[i].name])
  BY <1>2, <1>3, WantingField
<1>9. MarshalFails(a) <=> \E i \in 1 .. n : ~ Packable(m[i], a[u[i].name])
  BY <1>1, <1>2 DEF MarshalFails, m
<1>10. Fine(a, u, n) <=> \A i \in 1 .. n : ~ Lacks(u[i], a[u[i].name])
  BY DEF Fine
<1>11. Names(u, n) = {"type"} \cup N
  BY <1>2 DEF Names
<1>12. ValuesOf(a, u, n) = a
  <2> HIDE DEF N
  <2> QED BY <1>3, <1>11 DEF ValuesOf
<1> QED BY <1>7, <1>8, <1>9, <1>10, <1>12 DEF u

\* The key and the signature are read where they are.
LEMMA AuthReads ==
  ASSUME NEW x, x \in Seq(Byte), NEW auth, IsAuth(auth), NEW w, w = x \o MarshalAuth(auth)
  PROVE  /\ MarshalAuth(auth) \in Seq(Byte)
         /\ UnmarshalAuth(auth.scheme, At(w, Len(x))) = Got(auth, At(w, Len(w)))
<1> DEFINE k == auth.signer
           g == auth.signature
           l == PublicKeyLen[auth.scheme]
           d == SignatureLen[auth.scheme]
           e == <<>>
<1>1. l \in Nat /\ d \in Nat
  <2>1. auth.scheme \in AuthRegistry /\ Pow[IntLen] \in Nat
    BY PowNat, Widths DEF IsAuth
  <2> QED BY <2>1, WidthAssumption
<1>2. /\ auth = [scheme |-> auth.scheme, signer |-> k, signature |-> g]
      /\ k \in [1 .. l -> Byte] /\ g \in [1 .. d -> Byte]
  BY DEF IsAuth
<1> HIDE DEF k, g, l, d
<1>3. k \in Seq(Byte) /\ Len(k) = l /\ g \in Seq(Byte) /\ Len(g) = d /\ e \in Seq(Byte)
  BY <1>1, <1>2, ArrayIsSeq
<1>4. MarshalAuth(auth) = k \o g
  BY DEF MarshalAuth, k, g
<1> DEFINE y == x \o k
<1>5. /\ w = y \o g /\ y \in Seq(Byte) /\ Len(y) = Len(x) + l
      /\ k \o g \in Seq(Byte) /\ Len(w) = Len(y) + d /\ w \in Seq(Byte)
  <2> DEFINE B == Byte
  <2>1. x \in Seq(B) /\ k \in Seq(B) /\ g \in Seq(B)
    BY <1>3
  <2> HIDE DEF B
  <2>2. y \in Seq(B) /\ Len(y) = Len(x) + Len(k) /\ k \o g \in Seq(B)
    BY <2>1, ConcatProperties
  <2>3. x \o (k \o g) = (x \o k) \o g
    BY <2>1, ConcatAssociative
  <2>4. w = y \o g
    BY <1>4, <2>3
  <2> HIDE DEF y
  <2>5. w \in Seq(B) /\ Len(w) = Len(y) + Len(g)
    BY <2>1, <2>2, <2>4, ConcatProperties
  <2> QED BY <1>3, <2>2, <2>4, <2>5 DEF B
<1>6. w = Cat3(x, k, g)
  BY <1>5 DEF Cat3
<1> HIDE DEF y
<1>7. w = Cat3(y, g, e)
  <2>1. y \o g = (y \o g) \o <<>>
    BY <1>3, <1>5
  <2> QED BY <1>5, <2>1 DEF Cat3
<1> HIDE DEF e
<1>8. Fixed(At(w, Len(x)), l) = [val |-> k, rest |-> At(w, Len(y))]
  <2>1. Fixed(At(w, Len(x)), Len(k)) = [val |-> k, rest |-> At(w, Len(x) + Len(k))]
    BY <1>3, <1>6, FixedReads
  <2> QED BY <1>3, <1>5, <2>1
<1>9. Fixed(At(w, Len(y)), d) = [val |-> g, rest |-> At(w, Len(w))]
  <2>1. Fixed(At(w, Len(y)), Len(g)) = [val |-> g, rest |-> At(w, Len(y) + Len(g))]
    BY <1>3, <1>5, <1>7, FixedReads
  <2> QED BY <1>3, <1>5, <2>1
<1> DEFINE r == At(w, Len(x))
           q == At(w, Len(y))
           z == At(w, Len(w))
<1> HIDE DEF r, q, z
<1>10. Fixed(r, l).val = k /\ Fixed(r, l).rest = q /\ Fixed(q, d).val = g /\ Fixed(q, d).rest = z
  BY <1>8, <1>9 DEF r, q, z
<1>11. UnmarshalAuth(auth.scheme, r)
         = [val |-> [scheme |-> auth.scheme, signer |-> k, signature |-> g], rest |-> z]
  BY <1>10 DEF UnmarshalAuth, l, d
<1> QED BY <1>2, <1>4, <1>5, <1>11 DEF Got, r, z

-----------------------------------------------------------------------------
(* A transaction                                                           *)

\* The parts of the bytes of a transaction: the type, the action, the scheme, the rest.
Parts(x, b, y, z) == x \o b \o y \o z

\* Where they are.
LEMMA PartsAre ==
  ASSUME NEW x, x \in Seq(Byte), NEW b, b \in Seq(Byte), NEW y, y \in Seq(Byte),
         NEW z, z \in Seq(Byte), NEW w, w = Parts(x, b, y, z)
  PROVE  /\ w = Cat3(x, b, y \o z) /\ w = Cat3(x \o b, y, z) /\ w = ((x \o b) \o y) \o z
         /\ x \o b \in Seq(Byte) /\ Len(x \o b) = Len(x) + Len(b) /\ y \o z \in Seq(Byte)
         /\ (x \o b) \o y \in Seq(Byte) /\ Len((x \o b) \o y) = Len(x \o b) + Len(y)
<1>1. w = ((x \o b) \o y) \o z
  BY DEF Parts
<1> DEFINE S == Byte
<1>2. x \in Seq(S) /\ b \in Seq(S) /\ y \in Seq(S) /\ z \in Seq(S)
  OBVIOUS
<1> HIDE DEF S
<1>3. x \o b \in Seq(S) /\ Len(x \o b) = Len(x) + Len(b) /\ y \o z \in Seq(S)
  BY <1>2, ConcatProperties
<1> DEFINE p == x \o b
<1>4. p \in Seq(S)
  BY <1>3
<1> HIDE DEF p
<1>5. p \o y \in Seq(S) /\ Len(p \o y) = Len(p) + Len(y)
  BY <1>2, <1>4, ConcatProperties
<1>6. (p \o y) \o z = p \o (y \o z)
  BY <1>2, <1>4, ConcatAssociative
<1> QED BY <1>1, <1>3, <1>5, <1>6 DEF Cat3, p, S

\* What begins with one byte has it first.
LEMMA HeadIs ==
  ASSUME NEW S, NEW x, x \in Seq(S), Len(x) = 1, NEW b, b \in Seq(S), NEW y, y \in Seq(S),
         NEW w, w = Cat3(x, b, y)
  PROVE  w # <<>> /\ w[1] = x[1]
<1>0. x \in Seq(S) /\ b \in Seq(S) /\ y \in Seq(S)
  OBVIOUS
<1>1. /\ Len(b) \in Nat /\ Len(y) \in Nat
      /\ x \o b \in Seq(S) /\ Len(x \o b) = Len(x) + Len(b)
      /\ \A i \in 1 .. Len(x) + Len(b) :
           (x \o b)[i] = IF i <= Len(x) THEN x[i] ELSE b[i - Len(x)]
  BY <1>0, ConcatProperties, LenProperties
<1> DEFINE p == x \o b
<1>2. p \in Seq(S) /\ Len(p) = 1 + Len(b) /\ p[1] = x[1]
  BY <1>1
<1>3. w = p \o y
  BY DEF Cat3
<1> HIDE DEF p
<1>4. /\ Len(p \o y) = Len(p) + Len(y)
      /\ \A i \in 1 .. Len(p) + Len(y) :
           (p \o y)[i] = IF i <= Len(p) THEN p[i] ELSE y[i - Len(p)]
  BY <1>0, <1>2, ConcatProperties
<1>5. Len(w) # 0 /\ w[1] = x[1] /\ Len(<<>>) = 0
  BY <1>1, <1>2, <1>3, <1>4
<1> QED BY <1>5

\* What UnmarshalTx does after it has found the type.
LEMMA UnmarshalTxIs ==
  ASSUME NEW w, w # <<>>, NEW c, c \in ActionRegistry, c.type = w[1],
         NEW end, end = UnmarshalAction(w[1], At(w, 1)),
         NEW s, s = Fixed(end.rest, 1), NEW u, u = UnmarshalAuth(s.val[1], s.rest)
  PROVE  UnmarshalTx(w) =
           IF s.rest.err \/ s.val[1] \notin AuthRegistry \/ u.rest.err \/ u.rest.off # Len(w)
           THEN Refused ELSE [action |-> end.val, auth |-> u.val]
<1>1. [Reader(w) EXCEPT !.off = 1] = At(w, 1)
  <2>1. Reader(w) = At(w, 0)
    BY DEF Reader, At
  <2> QED BY <2>1, ReaderMoves
<1>2. \E d \in ActionRegistry : d.type = w[1]
  OBVIOUS
<1> QED BY <1>1, <1>2 DEF UnmarshalTx

\* A transaction is parsed as it was signed, and refused if a field is wanting.
LEMMA TxReads ==
  ASSUME NEW r, IsTx(r)
  PROVE  UnmarshalTx(Wire(r)) = IF Wanting(r.action) THEN Refused ELSE r
<1> DEFINE a == r.action
           auth == r.auth
<1>1. r = [action |-> a, auth |-> auth] /\ IsAction(a) /\ IsAuth(auth)
  BY DEF IsTx
<1> HIDE DEF a, auth
<1>2. PICK c : IsOf(a, c)
  BY <1>1, ActionIsOf
<1>3. c \in ActionRegistry /\ a.type = c.type
  BY <1>2 DEF IsOf
<1>4. PICK n \in Nat : Sides(c, n)
  BY <1>3, SidesSame
<1> DEFINE m == c.marshal
           u == c.unmarshal
<1>5. Codec(a.type) = c /\ a.type \in Byte
  BY <1>3, CodecOfType
<1>6. /\ Wanting(a) <=> MarshalFails(a) \/ ~ Fine(a, u, n)
      /\ ValuesOf(a, u, n) = a
  BY <1>2, <1>4, WantingIs
<1>7. CASE MarshalFails(a)
  <2>1. Wire(r) = <<>>
    BY <1>7 DEF Wire, a
  <2>2. UnmarshalTx(<<>>) = Refused
    BY DEF UnmarshalTx
  <2> QED BY <1>6, <1>7, <2>1, <2>2 DEF a
<1>8. CASE ~ MarshalFails(a)
  <2> DEFINE t == a.type
             x == <<t>>
             b == MarshalAction(a)
             y == <<auth.scheme>>
             z == MarshalAuth(auth)
             w == Parts(x, b, y, z)
             end == UnmarshalAction(t, At(w, Len(x)))
             off == Len(x) + Len(b)
             s == Fixed(end.rest, 1)
             v == UnmarshalAuth(s.val[1], s.rest)
  <2>1. Wire(r) = w
    BY <1>8 DEF Wire, Marshal, Parts, a, auth
  <2>2. auth.scheme \in AuthRegistry /\ auth.scheme \in Byte
    BY <1>1, Widths DEF IsAuth, AuthRegistry, ED25519ID, SECP256R1ID, BLSID, Byte
  <2>3. x \in Seq(Byte) /\ Len(x) = 1 /\ y \in Seq(Byte) /\ Len(y) = 1
    BY <1>5, <2>2
  <2>4. z \in Seq(Byte)
    <3>1. \A p : p \in Seq(Byte) => MarshalAuth(auth) \in Seq(Byte)
      BY <1>1, AuthReads
    <3> QED BY <2>3, <3>1
  <2>5. Aligned(m, u, n) /\ Fills(a, m, n)
    <3>1. \A i \in 1 .. n : Same(m[i], u[i]) /\ a[m[i].name] \in TypeOf(m[i].kind)
      BY <1>2, <1>4 DEF Sides, IsOf
    <3>2. \A i \in 1 .. n : Packable(m[i], a[m[i].name])
      BY <1>4, <1>5, <1>8 DEF MarshalFails, Sides
    <3>3. Aligned(m, u, n)
      BY <1>4, <3>1 DEF Aligned, Sides, Same, Described
    <3>4. Fills(a, m, n)
      BY <3>1, <3>2 DEF Fills, Same, Described
    <3> QED BY <3>3, <3>4
  <2>6. t \in Nat /\ m = Codec(a.type).marshal /\ u = Codec(a.type).unmarshal
    BY <1>5, Widths DEF Byte
  <2>7. b \in Seq(Byte) /\ w \in Seq(Byte) /\ end.rest \in Readers(w)
        /\ Right(end, a, u, n, w, off)
    <3> DEFINE d == y \o z
    <3> HIDE DEF m, u, b, x, y, z
    <3>1. d \in Seq(Byte)
      BY <2>3, <2>4, CatShifts
    <3> HIDE DEF d
    <3> DEFINE q == Cat3(x, b, d)
               g == UnmarshalAction(a.type, At(q, Len(x)))
    <3>2. b = MarshalAction(a) /\ q = Cat3(x, b, d) /\ g = UnmarshalAction(a.type, At(q, Len(x)))
          /\ off = Len(x) + Len(b)
      BY DEF b
    <3> HIDE DEF q, g, off
    <3>6. b \in Seq(Byte)
      BY <2>5, <2>6, <3>2, MarshalIsBytes
    <3>7. Len(b) \in Nat /\ Len(x) \in Nat
      BY <2>3, <3>6
    <3>3. b \in Seq(Byte) /\ q \in Seq(Byte) /\ g.rest \in Readers(q)
          /\ Right(g, a, u, n, q, off)
      BY <2>3, <2>5, <2>6, <3>1, <3>2, <3>6, <3>7, ActionReads
    <3>4. w = q
      <4>1. w = Cat3(x, b, y \o z)
        BY <2>3, <2>4, <3>3, PartsAre
      <4> QED BY <3>2, <4>1 DEF d
    <3>5. end = g
      BY <3>2, <3>4
    <3> HIDE DEF w, end
    <3> QED BY <3>3, <3>4, <3>5
  <2> HIDE DEF m, u, b, z
  <2>8. /\ w = Cat3(x \o b, y, z) /\ w = ((x \o b) \o y) \o z
        /\ x \o b \in Seq(Byte) /\ Len(x \o b) = off
        /\ (x \o b) \o y \in Seq(Byte) /\ Len((x \o b) \o y) = off + 1
        /\ Len(b) \in Nat /\ off \in Nat
    <3>1. Len(b) \in Nat /\ Len(x) \in Nat /\ Len(y) \in Nat
      BY <2>3, <2>7
    <3>3. w = Parts(x, b, y, z)
      OBVIOUS
    <3> HIDE DEF x, y, w
    <3> DEFINE p == x \o b
    <3>4. /\ w = Cat3(x \o b, y, z) /\ w = ((x \o b) \o y) \o z
          /\ x \o b \in Seq(Byte) /\ (x \o b) \o y \in Seq(Byte)
      <4>1. b \in Seq(Byte)
        BY <2>7
      <4>2. w = Cat3(x \o b, y, z)
        BY <2>3, <2>4, <3>3, <4>1, PartsAre
      <4>3. x \o b \in Seq(Byte)
        BY <2>3, <2>4, <3>3, <4>1, PartsAre
      <4>4. (x \o b) \o y \in Seq(Byte)
        BY <2>3, <2>4, <3>3, <4>1, PartsAre
      <4>5. w = ((x \o b) \o y) \o z
        BY <3>3 DEF Parts
      <4> QED BY <4>2, <4>3, <4>4, <4>5
    <3>5. Len(x \o b) = Len(x) + Len(b)
      BY <2>3, <2>7, CatShifts
    <3>6. p \in Seq(Byte)
      BY <3>4
    <3> HIDE DEF p
    <3>7. Len(p \o y) = Len(p) + Len(y)
      BY <2>3, <3>6, CatShifts
    <3>2. /\ w = Cat3(x \o b, y, z) /\ w = ((x \o b) \o y) \o z
          /\ x \o b \in Seq(Byte) /\ Len(x \o b) = Len(x) + Len(b)
          /\ (x \o b) \o y \in Seq(Byte) /\ Len((x \o b) \o y) = Len(x \o b) + Len(y)
      BY <3>4, <3>5, <3>7 DEF p
    <3> QED BY <2>3, <3>1, <3>2
  <2>9. w # <<>> /\ w[1] = t
    <3> DEFINE d == y \o z
    <3>1. w = Parts(x, b, y, z) /\ x[1] = t
      OBVIOUS
    <3> HIDE DEF x, y, w
    <3>2. w = Cat3(x, b, d)
      BY <2>3, <2>4, <2>7, <3>1, PartsAre
    <3>3. d \in Seq(Byte)
      BY <2>3, <2>4, CatShifts
    <3> HIDE DEF d
    <3> QED BY <2>3, <2>7, <3>1, <3>2, <3>3, HeadIs
  <2>10. UnmarshalTx(w) =
           IF s.rest.err \/ s.val[1] \notin AuthRegistry \/ v.rest.err \/ v.rest.off # Len(w)
           THEN Refused ELSE [action |-> end.val, auth |-> v.val]
    <3>1. end = UnmarshalAction(w[1], At(w, 1)) /\ c.type = w[1]
      BY <1>3, <2>3, <2>9
    <3>2. s = Fixed(end.rest, 1) /\ v = UnmarshalAuth(s.val[1], s.rest)
      OBVIOUS
    <3> HIDE DEF end, s, v, w
    <3> QED BY <1>3, <2>9, <3>1, <3>2, UnmarshalTxIs
  <2>11. CASE ~ Fine(a, u, n)
    <3>1. end.rest.err
      BY <2>7, <2>11 DEF Right
    <3> DEFINE q == end.rest
    <3>2. q \in Readers(w) /\ q.err /\ s = Fixed(q, 1)
      BY <2>7, <3>1
    <3> HIDE DEF q, w, s
    <3>3. s.rest.err
      BY <2>7, <3>2, FixedIsRead
    <3> HIDE DEF v, end
    <3>4. UnmarshalTx(w) = Refused
      BY <2>10, <3>3
    <3> QED BY <1>6, <1>8, <2>1, <2>11, <3>4 DEF u, a, w
  <2>12. CASE Fine(a, u, n)
    <3>1. end = Got(a, At(w, off))
      BY <1>6, <2>7, <2>12 DEF Right, u
    <3> DEFINE p == x \o b
               g == p \o y
    <3>2. s = [val |-> y, rest |-> At(w, off + 1)]
      <4>1. end.rest = At(w, off)
        <5> HIDE DEF end, off, w
        <5> QED BY <3>1 DEF Got
      <4>2. w = Cat3(p, y, z) /\ p \in Seq(Byte) /\ Len(p) = off
        BY <2>8
      <4> HIDE DEF p, w, y, end
      <4>3. Fixed(At(w, Len(p)), Len(y)) = [val |-> y, rest |-> At(w, Len(p) + Len(y))]
        BY <2>3, <2>4, <4>2, FixedReads
      <4> HIDE DEF off
      <4> QED BY <2>3, <4>1, <4>2, <4>3
    <3>3. v = Got(auth, At(w, Len(w)))
      <4>1. w = g \o z /\ g \in Seq(Byte) /\ Len(g) = off + 1
        BY <2>8
      <4>2. s.val[1] = auth.scheme /\ s.rest = At(w, off + 1)
        <5> DEFINE e == At(w, off + 1)
        <5> HIDE DEF e, s
        <5> QED BY <3>2 DEF e
      <4> HIDE DEF g, w, s
      <4>3. w = g \o MarshalAuth(auth)
        BY <4>1 DEF z
      <4>4. UnmarshalAuth(auth.scheme, At(w, Len(g))) = Got(auth, At(w, Len(w)))
        BY <1>1, <4>1, <4>3, AuthReads
      <4> HIDE DEF off
      <4> QED BY <4>1, <4>2, <4>4
    <3>4. ~ s.rest.err /\ s.val[1] \in AuthRegistry
      <4>1. ~ At(w, off + 1).err
        BY DEF At
      <4> DEFINE e == At(w, off + 1)
      <4>2. s = [val |-> y, rest |-> e] /\ ~ e.err
        BY <3>2, <4>1
      <4> HIDE DEF e, s
      <4>3. s.rest = e /\ s.val = y
        BY <4>2
      <4> QED BY <2>2, <4>2, <4>3
    <3>5. ~ v.rest.err /\ v.rest.off = Len(w) /\ v.val = auth
      <4> DEFINE e == At(w, Len(w))
      <4>1. ~ e.err /\ e.off = Len(w)
        BY DEF At
      <4>2. v = Got(auth, e)
        BY <3>3
      <4> HIDE DEF e, v, w
      <4>3. v.val = auth /\ v.rest = e
        BY <4>2 DEF Got
      <4> QED BY <4>1, <4>3
    <3>6. end.val = a
      <4> HIDE DEF end, w, off
      <4> QED BY <3>1 DEF Got
    <3> HIDE DEF end, s, v, w
    <3>7. UnmarshalTx(w) = [action |-> a, auth |-> auth]
      BY <2>10, <3>4, <3>5, <3>6
    <3> QED BY <1>1, <1>6, <1>8, <2>1, <2>12, <3>7 DEF u, a, w
  <2> QED BY <2>11, <2>12
<1> QED BY <1>7, <1>8

-----------------------------------------------------------------------------
(* What was sent                                                           *)

\* The requests there are, and what is noted of each that is made.
AllRequests == UNION Range(Requests)
SentOf(r)   == [request |-> r, size |-> Len(Wire(r)), tx |-> UnmarshalTx(Wire(r))]

\* Every entry of sent is such a note.
SentInv == sent \in Seq({SentOf(r) : r \in AllRequests})

\* It is so from the start, and every step keeps it so.
LEMMA SentInductive ==
  /\ Init => SentInv
  /\ SentInv /\ [Next]_vars => SentInv'
<1>1. Init => SentInv
  BY DEF Init, SentInv
<1>2. ASSUME SentInv, [Next]_vars PROVE SentInv'
  <2>1. ASSUME NEW r \in Requests[Len(sent) + 1], Len(sent) < Len(Requests), Send(r)
        PROVE  SentInv'
    <3>1. Len(sent) + 1 \in DOMAIN Requests
      BY <1>2, <2>1, RequestAssumption DEF SentInv
    <3>2. r \in AllRequests
      BY <2>1, <3>1 DEF AllRequests, Range
    <3>3. sent' = Append(sent, SentOf(r))
      BY <2>1 DEF Send, SentOf
    <3> DEFINE S == {SentOf(q) : q \in AllRequests}
               e == SentOf(r)
    <3>4. e \in S /\ sent \in Seq(S)
      BY <1>2, <3>2 DEF SentInv
    <3> HIDE DEF S, e
    <3>5. Append(sent, e) \in Seq(S)
      BY <3>4
    <3> QED BY <3>3, <3>5 DEF SentInv, S, e
  <2>2. ASSUME UNCHANGED sent PROVE SentInv'
    BY <1>2, <2>2 DEF SentInv
  <2> QED BY <1>2, <2>1, <2>2 DEF Next, vars, Process, Block, Accepted
<1> QED BY <1>1, <1>2

\* What is noted of a request is what the round trip is.
LEMMA SentRoundTrips == SentInv => RoundTrip
<1> SUFFICES ASSUME SentInv, NEW n \in DOMAIN sent
             PROVE  sent[n].tx = IF Wanting(sent[n].request.action) THEN Refused
                                 ELSE sent[n].request
  BY DEF RoundTrip
<1>1. PICK r \in AllRequests : sent[n] = SentOf(r)
  <2> DEFINE S == {SentOf(q) : q \in AllRequests}
  <2>1. sent[n] \in S
    <3> HIDE DEF S
    <3>1. sent \in Seq(S)
      BY DEF SentInv, S
    <3> QED BY <3>1
  <2> QED BY <2>1
<1>2. IsTx(r)
  BY RequestAssumption DEF AllRequests
<1>3. UnmarshalTx(Wire(r)) = IF Wanting(r.action) THEN Refused ELSE r
  BY <1>2, TxReads
<1>4. sent[n].request = r /\ sent[n].tx = UnmarshalTx(Wire(r))
  BY <1>1 DEF SentOf
<1> QED BY <1>3, <1>4

\* Unmarshal reads what Marshal was given, and refuses exactly what is wanting: the
\* round trip of every action under every authentication, for any widths.
THEOREM TxRoundTrip == Spec => []RoundTrip
BY SentRoundTrips, SentInductive, PTL DEF Spec

-----------------------------------------------------------------------------
(* Keys                                                                    *)

\* Any number is cut to bytes.
LEMMA BigEndianBytes ==
  ASSUME NEW n, n \in Nat, NEW len, len \in Nat
  PROVE  /\ BigEndian(n, len) \in [1 .. len -> Byte]
         /\ BigEndian(n, len) \in Seq(Byte) /\ Len(BigEndian(n, len)) = len
<1> DEFINE b == BigEndian(n, len)
<1>1. ASSUME NEW k \in 1 .. len PROVE (n \div Pow[len - k]) % Radix \in Byte
  <2>1. len - k \in Nat
    OBVIOUS
  <2> DEFINE P == Pow[len - k]
  <2>2. P \in Nat \ {0} /\ Radix \in Nat \ {0}
    BY <2>1, PowNat, Widths
  <2> HIDE DEF P
  <2>3. (n \div P) % Radix \in 0 .. Radix - 1
    BY <2>2, DigitStep
  <2> QED BY <2>3 DEF P, Byte
<1>2. b \in [1 .. len -> Byte]
  BY <1>1 DEF BigEndian
<1> HIDE DEF b
<1>3. b \in Seq(Byte) /\ Len(b) = len
  BY <1>2, ArrayIsSeq
<1> QED BY <1>2, <1>3 DEF b

\* The number of chunks at the end of a key.
LEMMA SuffixIs ==
  ASSUME NEW c, c \in 0 .. 9
  PROVE  Suffix(c) \in Seq(Byte) /\ Len(Suffix(c)) = Uint16Len /\ Uint(Suffix(c)) = c
<1>1. Uint16Len \in Nat /\ Uint16Len # 0 /\ Radix \in Nat /\ Radix > 9
  BY Widths
<1>2. c < Pow[Uint16Len] /\ Pow[Uint16Len] \in Nat
  <2> DEFINE k == Uint16Len - 1
             P == Pow[k]
  <2>1. k \in Nat /\ k + 1 = Uint16Len
    BY <1>1
  <2>2. P \in Nat \ {0} /\ Pow[Uint16Len] = Radix * P
    <3> HIDE DEF k
    <3> QED BY <2>1, PowIs
  <2> HIDE DEF P
  <2>3. Radix * P >= Radix /\ Radix * P \in Nat
    BY <1>1, <2>2
  <2> DEFINE q == Radix * P
  <2>4. q >= Radix /\ q \in Nat /\ Pow[Uint16Len] = q
    BY <2>2, <2>3
  <2> HIDE DEF q
  <2> QED BY <1>1, <2>4
<1>3. c \in Nat /\ c \in 0 .. Pow[Uint16Len] - 1
  BY <1>2
<1>4. BigEndian(c, Uint16Len) \in Seq(Byte) /\ Len(BigEndian(c, Uint16Len)) = Uint16Len
  BY <1>1, <1>3, BigEndianBytes
<1>5. Uint(BigEndian(c, Uint16Len)) = c
  BY <1>1, <1>3, UintOfBigEndian
<1> QED BY <1>4, <1>5 DEF Suffix

\* Bytes are numbers.
LEMMA BytesAreNats == \A b : b \in Seq(Byte) => b \in Seq(Nat)
<1>1. Byte \subseteq Nat
  BY Widths DEF Byte
<1> SUFFICES ASSUME NEW b, b \in Seq(Byte) PROVE b \in Seq(Nat)
  OBVIOUS
<1> DEFINE S == Byte
<1>2. b \in Seq(S) /\ S \subseteq Nat
  BY <1>1
<1> HIDE DEF S
<1>3. Len(b) \in Nat /\ b \in [1 .. Len(b) -> S]
  BY <1>2, LenProperties
<1>4. b \in [1 .. Len(b) -> Nat]
  BY <1>2, <1>3
<1> DEFINE n == Len(b)
<1> HIDE DEF n
<1>5. n \in Nat /\ b \in [1 .. n -> Nat]
  BY <1>3, <1>4 DEF n
<1> QED BY <1>5

\* The sequence of one natural.
LEMMA OneNat == \A p \in Nat : <<p>> \in Seq(Nat) /\ Len(<<p>>) = 1 /\ <<p>>[1] = p
OBVIOUS

\* A key begins with its prefix, and ends with its chunks.
KeyIs(p, id, c) == Cat3(<<p>>, id, Suffix(c))

HasParts(key, p, id, c) ==
  /\ key[1] = p
  /\ SubSeq(key, 2, 1 + Len(id)) = id
  /\ SubSeq(key, Len(key) - Uint16Len + 1, Len(key)) = Suffix(c)

\* Those are the parts of a key.
LEMMA KeyParts ==
  ASSUME NEW p, p \in Nat, NEW id, id \in Seq(Byte), NEW c, c \in 0 .. 9,
         NEW key, key = KeyIs(p, id, c)
  PROVE  HasParts(key, p, id, c)
<1> DEFINE x == <<p>>
           s == Suffix(c)
           e == <<>>
           y == x \o id
           S == Nat
<1>1. x \in Seq(S) /\ Len(x) = 1 /\ x[1] = p /\ e \in Seq(S) /\ Len(e) = 0
  BY OneNat
<1>2. id \in Seq(S) /\ s \in Seq(S) /\ Len(s) = Uint16Len /\ Uint16Len \in Nat
      /\ Len(id) \in Nat
  <2>1. s \in Seq(Byte) /\ Len(s) = Uint16Len
    BY SuffixIs
  <2>2. Len(id) \in Nat
    OBVIOUS
  <2> HIDE DEF s
  <2> QED BY <2>1, <2>2, BytesAreNats, Widths
<1> HIDE DEF x, s, e, S
<1>3. key = Cat3(x, id, s)
  BY DEF KeyIs, x, s
<1>4. key[1] = p
  BY <1>1, <1>2, <1>3, HeadIs
<1>5. SubSeq(key, 2, 1 + Len(id)) = id
  <2>0. x \in Seq(S) /\ id \in Seq(S) /\ s \in Seq(S)
    BY <1>1, <1>2
  <2>1. SubSeq(Cat3(x, id, s), Len(x) + 1, Len(x) + Len(id)) = id
    BY <2>0, Middle
  <2>2. Len(x) + 1 = 2 /\ Len(x) + Len(id) = 1 + Len(id)
    BY <1>1
  <2> QED BY <1>3, <2>1, <2>2
<1>6. y \in Seq(S) /\ Len(y) = 1 + Len(id)
  <2>1. x \o id \in Seq(S) /\ Len(x \o id) = Len(x) + Len(id)
    BY <1>1, <1>2, ConcatProperties
  <2> QED BY <1>1, <2>1
<1>7. key = Cat3(y, s, e)
  <2> DEFINE z == y \o s
  <2>1. z \in Seq(S)
    <3> HIDE DEF y
    <3> QED BY <1>2, <1>6, ConcatProperties
  <2>2. key = z
    BY <1>3 DEF Cat3
  <2> HIDE DEF z
  <2>3. z \o <<>> = z
    BY <2>1, ConcatEmptySeq
  <2> QED BY <2>2, <2>3 DEF Cat3, e, z
<1> HIDE DEF y
<1>8. /\ Len(key) = Len(y) + Len(s) + Len(e)
      /\ SubSeq(key, Len(y) + 1, Len(y) + Len(s)) = s
  <2>1. y \in Seq(S) /\ s \in Seq(S) /\ e \in Seq(S)
    BY <1>1, <1>2, <1>6
  <2>2. Len(Cat3(y, s, e)) = Len(y) + Len(s) + Len(e)
    BY <2>1, Middle
  <2>3. SubSeq(Cat3(y, s, e), Len(y) + 1, Len(y) + Len(s)) = s
    BY <2>1, Middle
  <2> QED BY <1>7, <2>2, <2>3
<1>9. Len(key) - Uint16Len + 1 = Len(y) + 1 /\ Len(key) = Len(y) + Len(s)
  BY <1>1, <1>2, <1>6, <1>8
<1>10. SubSeq(key, Len(key) - Uint16Len + 1, Len(key)) = s
  BY <1>8, <1>9
<1> QED BY <1>4, <1>5, <1>10 DEF s, HasParts

\* The prefixes of the keys, and what else the proofs need of them.
LEMMA KeysAre ==
  /\ \A id \in Seq(Byte) :
       /\ BalanceKey(id)[1] = 0 /\ TimeOutKey(id)[1] = 8 /\ WeightKey(id)[1] = 9
       /\ StatusKey(id)[1] = 10
  /\ \A id, actor \in Seq(Byte) : VoteKey(id, actor)[1] = 11
  /\ \A id \in Seq(Byte), t \in Nat : HashKey(id, t)[1] = 7
  /\ \A k \in BlockKeys : k[1] \in {1, 2, 3}
<1>0. BalanceChunks \in 0 .. 9 /\ TimeOutChunks \in 0 .. 9 /\ 1 \in 0 .. 9
  BY DEF BalanceChunks, TimeOutChunks
<1>1. ASSUME NEW id, id \in Seq(Byte)
      PROVE  /\ BalanceKey(id)[1] = 0 /\ TimeOutKey(id)[1] = 8 /\ WeightKey(id)[1] = 9
             /\ StatusKey(id)[1] = 10
  <2>1. /\ BalanceKey(id) = KeyIs(0, id, BalanceChunks)
        /\ TimeOutKey(id) = KeyIs(8, id, TimeOutChunks)
        /\ WeightKey(id) = KeyIs(9, id, TimeOutChunks)
        /\ StatusKey(id) = KeyIs(10, id, TimeOutChunks)
    BY DEF BalanceKey, TimeOutKey, WeightKey, StatusKey, KeyIs, Cat3, balancePrefix,
           timeOutPrefix, weightPrefix, statusPrefix
  <2>2. \A p \in Nat, c \in 0 .. 9 : KeyIs(p, id, c)[1] = p
    <3> SUFFICES ASSUME NEW p \in Nat, NEW c \in 0 .. 9 PROVE KeyIs(p, id, c)[1] = p
      OBVIOUS
    <3> DEFINE key == KeyIs(p, id, c)
    <3>1. key = KeyIs(p, id, c)
      OBVIOUS
    <3> HIDE DEF key
    <3>2. key[1] = p
      BY <1>1, <3>1, KeyParts DEF HasParts
    <3> QED BY <3>1, <3>2
  <2> QED BY <1>0, <2>1, <2>2
<1>2. ASSUME NEW id, id \in Seq(Byte), NEW b, b \in Seq(Byte), NEW s, s \in Seq(Nat),
             NEW p \in Nat, NEW key, key = <<p>> \o id \o b \o s
      PROVE  key[1] = p
  <2> DEFINE x == <<p>>
             y == x \o id
  <2>1. x \in Seq(Nat) /\ Len(x) = 1 /\ x[1] = p /\ <<>> \in Seq(Nat)
    BY OneNat
  <2>2. id \in Seq(Nat) /\ b \in Seq(Nat)
    BY <1>2, BytesAreNats
  <2> HIDE DEF x
  <2> DEFINE d == id \o b
  <2>3. d \in Seq(Nat) /\ x \o d = y \o b
    <3>1. d \in Seq(Nat)
      BY <2>2, ConcatProperties
    <3>2. x \o (id \o b) = (x \o id) \o b
      <4> DEFINE S == Nat
      <4>1. x \in Seq(S) /\ id \in Seq(S) /\ b \in Seq(S)
        BY <2>1, <2>2
      <4> HIDE DEF S
      <4> QED BY <4>1, ConcatAssociative
    <3> QED BY <3>1, <3>2
  <2>4. key = (x \o d) \o s
    BY <1>2, <2>3 DEF x
  <2> HIDE DEF d
  <2>5. key = Cat3(x, d, s)
    BY <2>4 DEF Cat3
  <2> QED BY <1>2, <2>1, <2>3, <2>5, HeadIs
<1>3. ASSUME NEW id, id \in Seq(Byte), NEW actor, actor \in Seq(Byte)
      PROVE  VoteKey(id, actor)[1] = 11
  <2>1. Suffix(TimeOutChunks) \in Seq(Nat)
    BY <1>0, SuffixIs, BytesAreNats
  <2>2. VoteKey(id, actor) = <<11>> \o id \o actor \o Suffix(TimeOutChunks) /\ 11 \in Nat
    BY DEF VoteKey, votePrefix
  <2> QED BY <1>2, <1>3, <2>1, <2>2
<1>4. ASSUME NEW id, id \in Seq(Byte), NEW t, t \in Nat
      PROVE  HashKey(id, t)[1] = 7
  <2> DEFINE n == Uint16(t)
             b == BigEndian(n, Uint16Len)
             s == Suffix(HashChunksMax)
  <2>1. n \in Nat
    <3> DEFINE P == Pow[Uint16Len]
    <3>1. P \in Nat \ {0}
      BY PowNat, Widths
    <3> HIDE DEF P
    <3>2. (t % P) \in Nat
      BY <1>4, <3>1
    <3> QED BY <3>2 DEF P, Uint16
  <2> HIDE DEF n
  <2>2. b \in Seq(Byte)
    BY <2>1, BigEndianBytes, Widths
  <2>3. s \in Seq(Nat)
    <3>1. BigEndian(10, Uint16Len) \in Seq(Byte)
      BY BigEndianBytes, Widths
    <3> QED BY <3>1, BytesAreNats DEF Suffix, HashChunksMax
  <2>4. HashKey(id, t) = <<7>> \o id \o b \o s /\ 7 \in Nat
    BY DEF HashKey, deployPrefix, n
  <2> HIDE DEF b, s
  <2> QED BY <1>2, <1>4, <2>2, <2>3, <2>4
<1>5. ASSUME NEW k \in BlockKeys PROVE k[1] \in {1, 2, 3}
  <2>1. PICK p \in {1, 2, 3} : k = <<p>> \o Suffix(1)
    BY DEF BlockKeys, heightPrefix, timestampPrefix, feePrefix
  <2> DEFINE x == <<p>>
             s == Suffix(1)
             e == <<>>
  <2>2. x \in Seq(Nat) /\ Len(x) = 1 /\ x[1] = p /\ e \in Seq(Nat) /\ s \in Seq(Nat)
    <3>1. s \in Seq(Byte)
      BY <1>0, SuffixIs
    <3>2. s \in Seq(Nat)
      BY <3>1, BytesAreNats
    <3> QED BY <3>2, OneNat
  <2> HIDE DEF x, s
  <2> DEFINE z == x \o s
  <2>3. z \in Seq(Nat) /\ k = z
    BY <2>1, <2>2, ConcatProperties DEF x, s
  <2> HIDE DEF z
  <2>4. z \o <<>> = z
    BY <2>3, ConcatEmptySeq
  <2>5. k = Cat3(x, s, e)
    BY <2>3, <2>4 DEF Cat3, z
  <2> HIDE DEF e
  <2>6. k[1] = x[1]
    BY <2>2, <2>5, HeadIs
  <2> QED BY <2>2, <2>6
<1>6. \A id \in Seq(Byte) :
       /\ BalanceKey(id)[1] = 0 /\ TimeOutKey(id)[1] = 8 /\ WeightKey(id)[1] = 9
       /\ StatusKey(id)[1] = 10
  BY <1>1
<1>7. \A id, actor \in Seq(Byte) : VoteKey(id, actor)[1] = 11
  BY <1>3
<1>8. \A id \in Seq(Byte), t \in Nat : HashKey(id, t)[1] = 7
  BY <1>4
<1>9. \A k \in BlockKeys : k[1] \in {1, 2, 3}
  BY <1>5
<1> QED BY <1>6, <1>7, <1>8, <1>9

-----------------------------------------------------------------------------
(* Views                                                                   *)

\* A view of a store, that may write to the keys K.
IsView(v, K) ==
  v = [store |-> v.store, keys |-> K, failed |-> v.failed] /\ v.failed \in BOOLEAN

\* The stores s and t differ at the keys K at most.
Only(s, t, K) ==
  \A k : k \notin K => /\ k \in DOMAIN s <=> k \in DOMAIN t
                       /\ k \in DOMAIN s => t[k] = s[k]

\* Changes at the keys of two sets are changes at those of both.
LEMMA OnlyBoth ==
  ASSUME NEW s, NEW t, NEW u, NEW K, NEW L, NEW M, Only(s, t, K), Only(t, u, L),
         K \subseteq M, L \subseteq M
  PROVE  Only(s, u, M)
BY DEF Only

\* Putting a value somewhere changes nothing else.
LEMMA PutIs ==
  ASSUME NEW s, NEW key, NEW val
  PROVE  /\ Only(s, Put(s, key, val), {key})
         /\ key \in DOMAIN Put(s, key, val) /\ Put(s, key, val)[key] = val
BY DEF Put, Only

\* The view of a store.
LEMMA ViewIs == \A s, K : IsView(View(s, K), K) /\ View(s, K).store = s /\ ~ View(s, K).failed
BY DEF View, IsView

\* A write that does not fail is done, and changes nothing else; one that the view
\* may not make changes nothing.
Inserted(v, K, key, val, w) ==
  /\ IsView(w, K) /\ Only(v.store, w.store, {key} \cap K)
  /\ w.store \in {v.store, Put(v.store, key, val)}
  /\ ~ w.failed => ~ v.failed /\ w.store = Put(v.store, key, val)
  /\ key \in K /\ Allowed(key, val) => w.store = Put(v.store, key, val) /\ w.failed = v.failed

\* That is what Insert does.
LEMMA InsertIs ==
  ASSUME NEW v, NEW K, IsView(v, K), NEW key, NEW val, NEW w, w = Insert(v, key, val)
  PROVE  Inserted(v, K, key, val, w)
<1> DEFINE p == Put(v.store, key, val)
           s == v.store
           b == TRUE
<1>1. v = [store |-> s, keys |-> K, failed |-> v.failed] /\ v.failed \in BOOLEAN /\ v.keys = K
  BY DEF IsView
<1>2. Only(s, p, {key}) /\ Only(s, s, {})
  BY PutIs DEF Only
<1> HIDE DEF b
<1>3. CASE key \in K /\ Allowed(key, val)
  <2>1. w = [v EXCEPT !.store = p]
    BY <1>1, <1>3 DEF Insert
  <2> HIDE DEF p, s
  <2>2. w = [store |-> p, keys |-> K, failed |-> v.failed]
    BY <1>1, <2>1
  <2>3. w.store = p /\ w.failed = v.failed /\ w.keys = K
    BY <2>2
  <2>4. IsView(w, K)
    BY <1>1, <2>2, <2>3 DEF IsView
  <2>5. {key} \cap K = {key}
    BY <1>3
  <2> QED BY <1>2, <1>3, <2>3, <2>4, <2>5 DEF p, s, Inserted
<1>4. CASE ~ (key \in K /\ Allowed(key, val))
  <2>1. w = [v EXCEPT !.failed = b]
    BY <1>1, <1>4 DEF Insert, b
  <2> HIDE DEF p, s
  <2>2. w = [store |-> s, keys |-> K, failed |-> b]
    BY <1>1, <2>1
  <2>3. w.store = s /\ w.failed = b /\ w.keys = K
    BY <2>2
  <2>4. b
    BY DEF b
  <2>5. IsView(w, K)
    BY <2>2, <2>3, <2>4 DEF IsView
  <2>6. Only(s, s, {key} \cap K)
    BY DEF Only
  <2> QED BY <1>4, <2>3, <2>4, <2>5, <2>6 DEF p, s, Inserted
<1> QED BY <1>3, <1>4

\* So is an erasure.
Erased(v, K, key, w) ==
  /\ IsView(w, K) /\ Only(v.store, w.store, {key} \cap K)
  /\ w.store \in {v.store, Restrict(v.store, DOMAIN v.store \ {key})}
  /\ ~ w.failed => ~ v.failed /\ w.store = Restrict(v.store, DOMAIN v.store \ {key})
  /\ key \in K => w.store = Restrict(v.store, DOMAIN v.store \ {key}) /\ w.failed = v.failed

\* That is what Erase does.
LEMMA EraseIs ==
  ASSUME NEW v, NEW K, IsView(v, K), NEW key, NEW w, w = Erase(v, key)
  PROVE  Erased(v, K, key, w)
<1> DEFINE s == v.store
           p == Restrict(s, DOMAIN s \ {key})
           b == TRUE
<1>1. v = [store |-> s, keys |-> K, failed |-> v.failed] /\ v.failed \in BOOLEAN /\ v.keys = K
  BY DEF IsView
<1>2. Only(s, p, {key}) /\ key \notin DOMAIN p
  BY DEF Only, Restrict
<1> HIDE DEF b
<1>3. CASE key \in K
  <2>1. w = [v EXCEPT !.store = p]
    BY <1>1, <1>3 DEF Erase
  <2> HIDE DEF p, s
  <2>2. w = [store |-> p, keys |-> K, failed |-> v.failed]
    BY <1>1, <2>1
  <2>3. w.store = p /\ w.failed = v.failed /\ w.keys = K
    BY <2>2
  <2>4. IsView(w, K)
    BY <1>1, <2>2, <2>3 DEF IsView
  <2>5. {key} \cap K = {key}
    BY <1>3
  <2> QED BY <1>2, <1>3, <2>3, <2>4, <2>5 DEF p, s, Erased
<1>4. CASE ~ (key \in K)
  <2>1. w = [v EXCEPT !.failed = b]
    BY <1>1, <1>4 DEF Erase, b
  <2> HIDE DEF p, s
  <2>2. w = [store |-> s, keys |-> K, failed |-> b]
    BY <1>1, <2>1
  <2>3. w.store = s /\ w.failed = b /\ w.keys = K
    BY <2>2
  <2>4. b
    BY DEF b
  <2>5. IsView(w, K)
    BY <2>2, <2>3, <2>4 DEF IsView
  <2>6. Only(s, s, {key} \cap K) /\ Only(s, s, {key})
    BY DEF Only
  <2> QED BY <1>4, <2>3, <2>4, <2>5, <2>6 DEF p, s, Erased
<1> QED BY <1>3, <1>4

\* A failed view is a view of the same store.
LEMMA FailIs ==
  ASSUME NEW v, NEW K, IsView(v, K)
  PROVE  IsView(Fail(v), K) /\ Fail(v).store = v.store /\ Fail(v).failed
<1> DEFINE b == TRUE
           s == v.store
           w == Fail(v)
<1>1. v = [store |-> s, keys |-> K, failed |-> v.failed]
  BY DEF IsView
<1>2. w = [v EXCEPT !.failed = b]
  BY DEF Fail
<1>6. b \in BOOLEAN
  OBVIOUS
<1> HIDE DEF b, s, w
<1>3. w = [store |-> s, keys |-> K, failed |-> b]
  BY <1>1, <1>2
<1>4. w.store = s /\ w.failed = b /\ w.keys = K
  BY <1>3
<1>5. IsView(w, K)
  BY <1>3, <1>4, <1>6 DEF IsView
<1>7. b
  BY DEF b
<1> QED BY <1>4, <1>5, <1>7 DEF s, w

\* Where the caller ignores the error, the writes stay.
LEMMA DropIs ==
  ASSUME NEW v, NEW w, NEW K, IsView(v, K), IsView(w, K)
  PROVE  IsView(Drop(v, w), K) /\ Drop(v, w).store = w.store /\ Drop(v, w).failed = v.failed
<1> DEFINE b == v.failed
           s == w.store
           d == Drop(v, w)
<1>1. w = [store |-> s, keys |-> K, failed |-> w.failed] /\ b \in BOOLEAN
  BY DEF IsView
<1>2. d = [w EXCEPT !.failed = b]
  BY DEF Drop
<1> HIDE DEF b, s, d
<1>3. d = [store |-> s, keys |-> K, failed |-> b]
  BY <1>1, <1>2
<1>4. d.store = s /\ d.failed = b /\ d.keys = K
  BY <1>3
<1>5. IsView(d, K)
  BY <1>1, <1>3, <1>4 DEF IsView
<1> QED BY <1>4, <1>5 DEF b, s, d

-----------------------------------------------------------------------------
(* What the actions write                                                  *)

IDs == [1 .. IDLen -> Byte]

\* The fields that Execute writes something of.
LEMMA FieldTypes ==
  ASSUME NEW a, IsAction(a)
  PROVE  /\ a.type \in {0, 1, 2, 3} \/ IsVerify(a)
         /\ a.type \in {0, 1, 2, 3} => ~ IsVerify(a)
         /\ a.type = TransferID => a.to \in [1 .. AddressLen -> Byte] /\ a.value \in 0 .. MaxUint64
         /\ a.type = RegisterImageID => a.imageID \in IDs /\ a.valType \in Nat
                                      /\ a.rootHash \in Seq(Byte)
         /\ a.type = ValidatorVoteID => a.txID \in IDs
         /\ IsVerify(a) => a.timeOutBlocks \in Nat
<1>1. PICK c : IsOf(a, c)
  BY ActionIsOf
<1>2. /\ c \in ActionRegistry /\ a.type = c.type
      /\ \A i \in DOMAIN c.marshal : a[c.marshal[i].name] \in TypeOf(c.marshal[i].kind)
  BY <1>1 DEF IsOf
<1>3. /\ c = Transfer => a.to \in TypeOf("address") /\ a.value \in TypeOf("uint64")
      /\ c = RegisterImage => /\ a.imageID \in TypeOf("id") /\ a.valType \in TypeOf("uint64")
                              /\ a.rootHash \in TypeOf("string")
      /\ c = ValidatorVote => a.txID \in TypeOf("id")
  <2>1. CASE c = Transfer
    <3>1. 1 \in DOMAIN c.marshal /\ 2 \in DOMAIN c.marshal
          /\ c.marshal[1] = F("address", "to") /\ c.marshal[2] = F("uint64", "value")
      BY <2>1 DEF Transfer
    <3>2. a.to \in TypeOf("address") /\ a.value \in TypeOf("uint64")
      BY <1>2, <3>1 DEF F
    <3> QED BY <2>1, <3>2, TypesAre
  <2>2. CASE c = RegisterImage
    <3>1. 1 \in DOMAIN c.marshal /\ 2 \in DOMAIN c.marshal /\ 3 \in DOMAIN c.marshal
          /\ c.marshal[1] = F("id", "imageID") /\ c.marshal[2] = F("uint64", "valType")
          /\ c.marshal[3] = F("string", "rootHash")
      BY <2>2 DEF RegisterImage
    <3>2. a.imageID \in TypeOf("id") /\ a.valType \in TypeOf("uint64") /\ a.rootHash \in TypeOf("string")
      BY <1>2, <3>1 DEF F
    <3> QED BY <2>2, <3>2, TypesAre
  <2>3. CASE c = ValidatorVote
    <3>1. 1 \in DOMAIN c.marshal /\ c.marshal[1] = F("id", "txID")
      BY <2>3 DEF ValidatorVote
    <3>2. a.txID \in TypeOf("id")
      BY <1>2, <3>1 DEF F
    <3> QED BY <2>3, <3>2, TypesAre
  <2> QED BY <2>1, <2>2, <2>3
<1>4. c \in {SP1, Jolt, RiscZero, Miden, PLONKY2} => a.timeOutBlocks \in TypeOf("uint64")
  <2>1. ASSUME NEW i \in DOMAIN c.marshal, c.marshal[i] = F("uint64", "timeOutBlocks")
        PROVE  a.timeOutBlocks \in TypeOf("uint64")
    BY <1>2, <2>1 DEF F
  <2>2. CASE c = SP1
    <3>1. 3 \in DOMAIN c.marshal /\ c.marshal[3] = F("uint64", "timeOutBlocks")
      BY <2>2 DEF SP1
    <3> QED BY <2>1, <3>1
  <2>3. CASE c = Jolt
    <3>1. 3 \in DOMAIN c.marshal /\ c.marshal[3] = F("uint64", "timeOutBlocks")
      BY <2>3 DEF Jolt, SP1
    <3> QED BY <2>1, <3>1
  <2>4. CASE c = RiscZero
    <3>1. 4 \in DOMAIN c.marshal /\ c.marshal[4] = F("uint64", "timeOutBlocks")
      BY <2>4 DEF RiscZero
    <3> QED BY <2>1, <3>1
  <2>5. CASE c = Miden
    <3>1. 6 \in DOMAIN c.marshal /\ c.marshal[6] = F("uint64", "timeOutBlocks")
      BY <2>5 DEF Miden
    <3> QED BY <2>1, <3>1
  <2>6. CASE c = PLONKY2
    <3>1. 5 \in DOMAIN c.marshal /\ c.marshal[5] = F("uint64", "timeOutBlocks")
      BY <2>6 DEF PLONKY2
    <3> QED BY <2>1, <3>1
  <2> QED BY <2>2, <2>3, <2>4, <2>5, <2>6
<1>5. /\ TypeOf("address") = [1 .. AddressLen -> Byte] /\ TypeOf("id") = IDs
      /\ TypeOf("uint64") = 0 .. MaxUint64 /\ TypeOf("uint64") \subseteq Nat
      /\ TypeOf("string") = Seq(Byte)
  BY MaxInts DEF TypeOf, IDs
<1>6. /\ a.type = TransferID => c = Transfer
      /\ a.type = RegisterImageID => c = RegisterImage
      /\ a.type = ValidatorVoteID => c = ValidatorVote
      /\ IsVerify(a) => c \in {SP1, Jolt, RiscZero, Miden, PLONKY2}
      /\ a.type \in {0, 1, 2, 3} \/ IsVerify(a)
      /\ a.type \in {0, 1, 2, 3} => ~ IsVerify(a)
  BY <1>2, TypesAre DEF ActionRegistry, IsVerify, TransferID, RegisterImageID, ValidatorVoteID,
     SP1ID, RiscZeroID, MidenID, JoltID, Plonky2ID
<1> QED BY <1>3, <1>4, <1>5, <1>6

\* An integer fits one chunk.
LEMMA IntegerFits ==
  ASSUME NEW p, p \in Nat, NEW id, id \in Seq(Byte), NEW key, key = KeyIs(p, id, 1),
         NEW val, Len(val) = Uint64Len \/ Len(val) = Uint16Len
  PROVE  Allowed(key, val)
<1>1. PICK c \in 0 .. 9 : c = 1
  OBVIOUS
<1>2. SubSeq(key, Len(key) - Uint16Len + 1, Len(key)) = Suffix(c)
  <2>1. key = KeyIs(p, id, c)
    BY <1>1
  <2>2. HasParts(key, p, id, c)
    BY <2>1, KeyParts
  <2> QED BY <2>2 DEF HasParts
<1>3. Uint(Suffix(c)) = c
  BY <1>1, SuffixIs
<1>4. ChunkSize * c = ChunkSize /\ Len(val) <= ChunkSize
  BY <1>1, ChunkAssumption
<1> QED BY <1>2, <1>3, <1>4 DEF Allowed

\* The record of a window is written, and nothing else.
TimedOut(v, w, K, key) ==
  /\ IsView(w, K) /\ w.failed = v.failed /\ Only(v.store, w.store, {key})
  /\ key \in DOMAIN w.store /\ w.store[key] # <<>>

\* That is what StoreTimeOut does, in a view that may.
LEMMA TimeOutIs ==
  ASSUME NEW v, NEW K, IsView(v, K), NEW id, id \in Seq(Byte), TimeOutKey(id) \in K,
         NEW timeOut, timeOut \in Nat, NEW ts, ts \in Nat, NEW w, w = StoreTimeOut(v, id, timeOut, ts)
  PROVE  TimedOut(v, w, K, TimeOutKey(id))
<1> DEFINE clamped == IF timeOut < 20 THEN 20 ELSE IF timeOut > 300 THEN 300 ELSE timeOut
           n   == ts + clamped * 1000
           val == BigEndian(n, Uint64Len)
           key == TimeOutKey(id)
<1>1. n \in Nat
  OBVIOUS
<1>2. w = Insert(v, key, val) /\ key \in K /\ IsView(v, K)
  BY DEF StoreTimeOut
<1> HIDE DEF n
<1>3. Len(val) = Uint64Len /\ Uint64Len \in Nat \ {0}
  BY <1>1, BigEndianBytes, Widths
<1> HIDE DEF val
<1>4. val # <<>>
  <2>1. Len(<<>>) = 0 /\ Len(val) # 0
    BY <1>3
  <2> QED BY <2>1
<1>5. key = KeyIs(8, id, 1) /\ 8 \in Nat
  BY DEF TimeOutKey, KeyIs, Cat3, timeOutPrefix, TimeOutChunks
<1> HIDE DEF key
<1>6. Allowed(key, val)
  BY <1>3, <1>5, IntegerFits
<1>7. IsView(w, K) /\ w.store = Put(v.store, key, val) /\ w.failed = v.failed
  <2>1. Inserted(v, K, key, val, w)
    BY <1>2, InsertIs
  <2> QED BY <1>2, <1>6, <2>1 DEF Inserted
<1> DEFINE s == Put(v.store, key, val)
<1>8. Only(v.store, s, {key}) /\ key \in DOMAIN s /\ s[key] = val
  BY PutIs
<1> HIDE DEF s
<1>9. w.store = s
  BY <1>7 DEF s
<1>10. Only(v.store, w.store, {key}) /\ key \in DOMAIN w.store /\ w.store[key] = val
  BY <1>8, <1>9
<1> QED BY <1>4, <1>7, <1>10 DEF key, TimedOut

-----------------------------------------------------------------------------
(* What the functions of storage.go write                                  *)

\* The records of a store are bytes that fit their keys.
Sound(s) == \A k \in DOMAIN s : s[k] \in Seq(Byte) /\ Allowed(k, s[k])

\* From view v to view w, only the keys L are written.
Writes(v, w, K, L) == IsView(w, K) /\ Only(v.store, w.store, L) /\ Sound(w.store)

\* One after the other.
LEMMA WritesBoth ==
  ASSUME NEW u, NEW v, NEW w, NEW K, NEW L, NEW M, NEW N, Writes(u, v, K, L), Writes(v, w, K, M),
         L \subseteq N, M \subseteq N
  PROVE  Writes(u, w, K, N)
<1>1. Only(u.store, w.store, N)
  BY OnlyBoth DEF Writes
<1> QED BY <1>1 DEF Writes

\* Nothing is written.
LEMMA WritesNone ==
  ASSUME NEW v, NEW K, IsView(v, K), Sound(v.store), NEW L
  PROVE  Writes(v, v, K, L) /\ Writes(v, Fail(v), K, L)
<1>1. Only(v.store, v.store, L)
  BY DEF Only
<1>2. IsView(Fail(v), K) /\ Fail(v).store = v.store
  BY FailIs
<1> QED BY <1>1, <1>2 DEF Writes

\* The error is dropped, and the writes stay.
LEMMA DropWrites ==
  ASSUME NEW v, NEW w, NEW K, NEW L, IsView(v, K), Writes(v, w, K, L)
  PROVE  Writes(v, Drop(v, w), K, L)
<1>1. IsView(w, K)
  BY DEF Writes
<1>2. IsView(Drop(v, w), K) /\ Drop(v, w).store = w.store
  BY <1>1, DropIs
<1> QED BY <1>2 DEF Writes

\* Insert writes one key, and a value that fits.
LEMMA InsertWrites ==
  ASSUME NEW v, NEW K, IsView(v, K), Sound(v.store), NEW key, NEW val, val \in Seq(Byte),
         NEW w, w = Insert(v, key, val)
  PROVE  Writes(v, w, K, {key} \cap K)
<1>1. Inserted(v, K, key, val, w)
  BY InsertIs
<1>2. CASE key \in K /\ Allowed(key, val)
  <2>1. w.store = Put(v.store, key, val)
    BY <1>1, <1>2 DEF Inserted
  <2>2. Sound(w.store)
    BY <1>2, <2>1 DEF Sound, Put
  <2> QED BY <1>1, <2>2 DEF Writes, Inserted
<1>3. CASE ~ (key \in K /\ Allowed(key, val))
  <2>1. w.store = v.store
    <3> DEFINE b == TRUE
               s == v.store
    <3>1. w = [v EXCEPT !.failed = b] /\ v = [store |-> s, keys |-> K, failed |-> v.failed]
      BY <1>3 DEF Insert, IsView
    <3> HIDE DEF b, s
    <3>2. w = [store |-> s, keys |-> K, failed |-> b]
      BY <3>1
    <3> QED BY <3>2 DEF s
  <2> QED BY <1>1, <2>1 DEF Writes, Inserted
<1> QED BY <1>2, <1>3

\* Erase erases one key.
LEMMA EraseWrites ==
  ASSUME NEW v, NEW K, IsView(v, K), Sound(v.store), NEW key, NEW w, w = Erase(v, key)
  PROVE  Writes(v, w, K, {key} \cap K)
<1>1. Erased(v, K, key, w)
  BY EraseIs
<1>2. Sound(w.store)
  BY <1>1 DEF Sound, Erased, Restrict
<1> QED BY <1>1, <1>2 DEF Writes, Erased

\* What is read is bytes, and a number.
LEMMA GetIs == \A s, k : Sound(s) => Get(s, k) \in Seq(Byte) /\ Uint(Get(s, k)) \in Nat
<1> SUFFICES ASSUME NEW s, NEW k, Sound(s) PROVE Get(s, k) \in Seq(Byte) /\ Uint(Get(s, k)) \in Nat
  OBVIOUS
<1>1. Get(s, k) \in Seq(Byte)
  BY DEF Sound, Get, NotFound
<1> QED BY <1>1, UintType

\* Integers of one width are bytes.
LEMMA IntegersAreBytes ==
  \A n \in Nat : BigEndian(n, Uint64Len) \in Seq(Byte) /\ BigEndian(n, Uint16Len) \in Seq(Byte)
BY BigEndianBytes, Widths

\* A vote writes a weight and a vote; it does not declare the status that it would set.
LEMMA VoteIs ==
  ASSUME NEW v, NEW K, IsView(v, K), Sound(v.store), NEW id, StatusKey(id) \notin K,
         NEW weight, weight \in Nat, NEW total, NEW w, w = UpdateWeight(v, id, weight, total)
  PROVE  Writes(v, w, K, {WeightKey(id)})
<1> DEFINE val == Get(v.store, WeightKey(id))
           nW  == (Uint(val) + weight) % (MaxUint64 + 1)
           one == BigEndian(1, Uint16Len)
           i   == Insert(v, StatusKey(id), one)
           d   == Drop(v, i)
           m   == IF nW > total THEN d ELSE v
           key == WeightKey(id)
           none == {StatusKey(id)} \cap K
<1>0. nW \in Nat
  <2> DEFINE W == MaxUint64 + 1
             x == Uint(val)
  <2>1. W \in Nat \ {0} /\ x \in Nat
    BY MaxInts, GetIs
  <2> HIDE DEF W, x
  <2>2. ((x + weight) % W) \in Nat
    BY <2>1
  <2> QED BY <2>2 DEF W, x
<1>1. Writes(v, i, K, none)
  <2>1. one \in Seq(Byte)
    BY IntegersAreBytes
  <2> HIDE DEF one
  <2> QED BY <2>1, InsertWrites
<1>2. Writes(v, m, K, {})
  <2>1. Writes(v, d, K, none)
    <3> HIDE DEF i, none
    <3> QED BY <1>1, DropWrites
  <2>2. Writes(v, v, K, {})
    BY WritesNone
  <2>3. none = {}
    OBVIOUS
  <2> HIDE DEF d, nW, none
  <2> QED BY <2>1, <2>2, <2>3
<1> HIDE DEF i, none
<1>3. \E u, x : w = Insert(u, key, x) /\ u \in {v, m} /\ x \in Seq(Byte)
  <2> DEFINE b == BigEndian(weight, Uint64Len)
             c == BigEndian(nW, Uint64Len)
  <2>1. w = IF val = NotFound THEN Insert(v, key, b) ELSE Insert(m, key, c)
    BY DEF UpdateWeight, i
  <2>2. b \in Seq(Byte) /\ c \in Seq(Byte)
    <3> HIDE DEF nW
    <3> QED BY <1>0, IntegersAreBytes
  <2> HIDE DEF m, nW, val, b, c
  <2> QED BY <2>1, <2>2
<1> HIDE DEF m, key
<1>4. PICK u, x : w = Insert(u, key, x) /\ u \in {v, m} /\ x \in Seq(Byte)
  BY <1>3
<1>5. Writes(v, u, K, {})
  <2>1. Writes(v, v, K, {})
    BY WritesNone
  <2> QED BY <1>2, <1>4, <2>1
<1>6. Writes(u, w, K, {key} \cap K)
  <2>1. IsView(u, K) /\ Sound(u.store)
    BY <1>5 DEF Writes
  <2> QED BY <1>4, <2>1, InsertWrites
<1>7. Writes(v, w, K, {key})
  BY <1>5, <1>6, WritesBoth
<1> QED BY <1>7 DEF key

-----------------------------------------------------------------------------
(* What the actions write                                                  *)

\* An amount that is taken, or added, is written to one balance.
LEMMA SubWrites ==
  ASSUME NEW v, NEW K, IsView(v, K), Sound(v.store), NEW addr, NEW amount, amount \in Nat,
         NEW w, w = SubBalance(v, addr, amount)
  PROVE  Writes(v, w, K, {BalanceKey(addr)})
<1> DEFINE bal == GetBalance(v.store, addr)
           rem == bal - amount
           val == BigEndian(rem, Uint64Len)
           key == BalanceKey(addr)
<1>1. bal \in Nat
  BY GetIs DEF GetBalance
<1>2. \/ w = Fail(v)
      \/ w = Erase(v, key)
      \/ bal > amount /\ w = Insert(v, key, val)
  <2> HIDE DEF val, key
  <2>1. w = CASE bal < amount -> Fail(v) [] bal = amount -> Erase(v, key)
              [] bal > amount -> Insert(v, key, val)
    BY DEF SubBalance, SetBalance, val, key
  <2> HIDE DEF bal
  <2>2. bal < amount \/ bal = amount \/ bal > amount
    BY <1>1
  <2> QED BY <1>1, <2>1, <2>2
<1>3. CASE w = Fail(v)
  BY <1>3, WritesNone
<1>4. Writes(v, w, K, {key} \cap K) => Writes(v, w, K, {key})
  BY DEF Writes, Only
<1>5. CASE w = Erase(v, key)
  <2> HIDE DEF key
  <2>1. Writes(v, w, K, {key} \cap K)
    BY <1>5, EraseWrites
  <2> QED BY <1>4, <2>1 DEF key
<1>6. CASE bal > amount /\ w = Insert(v, key, val)
  <2>1. rem \in Nat
    BY <1>1, <1>6
  <2> HIDE DEF rem
  <2>2. val \in Seq(Byte)
    BY <2>1, IntegersAreBytes
  <2> HIDE DEF val, key, bal
  <2>3. Writes(v, w, K, {key} \cap K)
    BY <1>6, <2>2, InsertWrites
  <2> QED BY <1>4, <2>3 DEF key
<1> QED BY <1>2, <1>3, <1>5, <1>6

\* So is what is added.
LEMMA AddWrites ==
  ASSUME NEW v, NEW K, IsView(v, K), Sound(v.store), NEW addr, NEW amount, amount \in Nat,
         NEW w, w = AddBalance(v, addr, amount)
  PROVE  Writes(v, w, K, {BalanceKey(addr)})
<1> DEFINE bal == GetBalance(v.store, addr)
           sum == bal + amount
           val == BigEndian(sum, Uint64Len)
           key == BalanceKey(addr)
<1>1. bal \in Nat
  BY GetIs DEF GetBalance
<1>2. w = Fail(v) \/ w = Insert(v, key, val)
  BY DEF AddBalance, SetBalance
<1>3. CASE w = Fail(v)
  BY <1>3, WritesNone
<1>4. Writes(v, w, K, {key} \cap K) => Writes(v, w, K, {key})
  BY DEF Writes, Only
<1>6. CASE w = Insert(v, key, val)
  <2>1. sum \in Nat
    BY <1>1
  <2> HIDE DEF sum
  <2>2. val \in Seq(Byte)
    BY <2>1, IntegersAreBytes
  <2> HIDE DEF val, key
  <2>3. Writes(v, w, K, {key} \cap K)
    BY <1>6, <2>2, InsertWrites
  <2> QED BY <1>4, <2>3 DEF key
<1> QED BY <1>2, <1>3, <1>6

\* The keys that Execute writes, of those that it declares.
Written(a, actor, id) ==
  IF IsVerify(a) THEN {TimeOutKey(id)}
  ELSE IF a.type = TransferID THEN {BalanceKey(actor), BalanceKey(a.to)}
  ELSE IF a.type = RegisterImageID THEN {HashKey(a.imageID, a.valType)}
  ELSE IF a.type = ValidatorVoteID THEN {WeightKey(a.txID), VoteKey(a.txID, actor)}
  ELSE {}

\* A transfer writes two balances.
LEMMA TransferWrites ==
  ASSUME NEW v, NEW K, IsView(v, K), Sound(v.store), NEW a, a.value \in Nat, NEW actor,
         NEW w, w = ExecuteTransfer(v, a, actor)
  PROVE  Writes(v, w, K, {BalanceKey(actor), BalanceKey(a.to)})
<1> DEFINE amount == a.value
           taken == SubBalance(v, actor, amount)
           L == {BalanceKey(actor)}
           M == {BalanceKey(a.to)}
           N == {BalanceKey(actor), BalanceKey(a.to)}
           given == AddBalance(taken, a.to, amount)
<1>0. amount \in Nat
  OBVIOUS
<1>1. w = IF amount = 0 THEN Fail(v) ELSE IF taken.failed THEN taken ELSE given
  BY DEF ExecuteTransfer
<1> HIDE DEF amount
<1>2. Writes(v, taken, K, L)
  <2> HIDE DEF taken
  <2>1. taken = SubBalance(v, actor, amount)
    BY DEF taken
  <2> QED BY <1>0, <2>1, SubWrites
<1>3. IsView(taken, K) /\ Sound(taken.store)
  BY <1>2 DEF Writes
<1> HIDE DEF taken
<1>4. Writes(taken, given, K, M)
  <2>1. given = AddBalance(taken, a.to, amount)
    OBVIOUS
  <2> HIDE DEF given
  <2> QED BY <1>0, <1>3, <2>1, AddWrites
<1>5. L \subseteq N /\ M \subseteq N /\ {} \subseteq N
  OBVIOUS
<1>6. Writes(v, Fail(v), K, N) /\ Writes(v, v, K, {})
  BY WritesNone
<1> HIDE DEF given, L, M, N
<1>7. Writes(v, given, K, N)
  BY <1>2, <1>4, <1>5, WritesBoth
<1>8. Writes(v, taken, K, N)
  BY <1>2, <1>5, <1>6, WritesBoth
<1> QED BY <1>1, <1>6, <1>7, <1>8 DEF N

\* A vote writes a weight and a mark.
LEMMA ValidatorVoteWrites ==
  ASSUME NEW v, NEW K, IsView(v, K), Sound(v.store), NEW a, NEW actor, NEW outcome,
         StatusKey(a.txID) \notin K, NEW w, w = ExecuteValidatorVote(v, a, actor, outcome)
  PROVE  Writes(v, w, K, {WeightKey(a.txID), VoteKey(a.txID, actor)})
<1> DEFINE id == a.txID
           u == UpdateWeight(v, id, Weight, Weight)
           d == Drop(v, u)
           x == IF a.vote THEN d ELSE v
           one == BigEndian(1, Uint16Len)
           y == Insert(x, VoteKey(id, actor), one)
           z == Drop(x, y)
           L == {WeightKey(id)}
           M == {VoteKey(id, actor)}
           N == {WeightKey(id), VoteKey(id, actor)}
<1>0. Weight \in Nat
  BY ChainAssumption, MaxInts
<1>1. Writes(v, u, K, L)
  <2>1. u = UpdateWeight(v, id, Weight, Weight) /\ StatusKey(id) \notin K
    OBVIOUS
  <2> HIDE DEF u, id
  <2> QED BY <1>0, <2>1, VoteIs
<1>2. Writes(v, v, K, L) /\ Writes(v, v, K, N) /\ Writes(v, Fail(v), K, N)
  BY WritesNone
<1>3. Writes(v, x, K, L)
  <2>1. Writes(v, d, K, L)
    <3> HIDE DEF u, L
    <3> QED BY <1>1, DropWrites
  <2> HIDE DEF d, L
  <2> QED BY <1>2, <2>1
<1>4. w = Drop(v, y) \/ w = v \/ w = Fail(v)
  BY DEF ExecuteValidatorVote, StoreVote
<1> HIDE DEF x
<1>5. Writes(x, y, K, M \cap K)
  <2>1. IsView(x, K) /\ Sound(x.store)
    BY <1>3 DEF Writes
  <2>2. one \in Seq(Byte)
    BY IntegersAreBytes
  <2> HIDE DEF one
  <2>3. y = Insert(x, VoteKey(id, actor), one)
    OBVIOUS
  <2> HIDE DEF y, id
  <2> QED BY <2>1, <2>2, <2>3, InsertWrites
<1>6. L \subseteq N /\ M \cap K \subseteq N
  OBVIOUS
<1> DEFINE P == M \cap K
<1> HIDE DEF y, L, N, M
<1>7. Writes(v, y, K, N)
  <2>1. Writes(x, y, K, P) /\ P \subseteq N
    BY <1>5, <1>6
  <2> HIDE DEF P
  <2> QED BY <1>3, <1>6, <2>1, WritesBoth
<1>8. Writes(v, Drop(v, y), K, N)
  BY <1>7, DropWrites
<1> QED BY <1>2, <1>4, <1>8 DEF N

-----------------------------------------------------------------------------
(* What a transaction writes                                               *)

\* The two accounts of a transfer, and the authors of any transaction, are bytes.
LEMMA ArraysAreBytes ==
  /\ IDs \subseteq Seq(Byte) /\ Accounts \subseteq Seq(Byte)
  /\ [1 .. AddressLen -> Byte] \subseteq Seq(Byte)
  /\ \A x \in IDs : Len(x) = IDLen
  /\ \A x \in [1 .. AddressLen -> Byte] : Len(x) = AddressLen
<1>1. IDLen \in Nat /\ AddressLen \in Nat
  BY Widths
<1>2. \A x \in IDs : x \in Seq(Byte) /\ Len(x) = IDLen
  BY <1>1, ArrayIsSeq DEF IDs
<1>3. \A x \in [1 .. AddressLen -> Byte] : x \in Seq(Byte) /\ Len(x) = AddressLen
  BY <1>1, ArrayIsSeq
<1> DEFINE A == [1 .. AddressLen -> Byte]
           T == Seq(Byte)
<1>4. Accounts \subseteq A /\ \A x \in A : x \in T
  BY <1>3, ChainAssumption
<1> HIDE DEF A, T
<1>5. Accounts \subseteq T /\ A \subseteq T
  BY <1>4
<1>6. Accounts \subseteq Seq(Byte) /\ [1 .. AddressLen -> Byte] \subseteq Seq(Byte)
  BY <1>5 DEF A, T
<1>7. IDs \subseteq Seq(Byte)
  <2> DEFINE I == IDs
  <2>1. \A x \in I : x \in T
    BY <1>2 DEF T
  <2> HIDE DEF I
  <2>2. I \subseteq T
    BY <2>1
  <2> QED BY <2>2 DEF I, T
<1> QED BY <1>2, <1>3, <1>6, <1>7

\* Ids are ids.
LEMMA TxIDsAre == \A n \in Nat : TxID(n) \in IDs
BY BigEndianBytes, Widths DEF TxID, IDs

\* Keys of one prefix, or of two, are told apart by what they are the keys of.
LEMMA KeysDiffer ==
  ASSUME NEW p, p \in Nat, NEW q, q \in Nat, NEW x, x \in Seq(Byte), NEW y, y \in Seq(Byte),
         Len(x) = Len(y), NEW c, c \in 0 .. 9, NEW d, d \in 0 .. 9, KeyIs(p, x, c) = KeyIs(q, y, d)
  PROVE  p = q /\ x = y
<1> DEFINE key == KeyIs(p, x, c)
<1>1. key = KeyIs(p, x, c) /\ key = KeyIs(q, y, d)
  OBVIOUS
<1> HIDE DEF key
<1>2. HasParts(key, p, x, c)
  BY <1>1, KeyParts
<1>3. HasParts(key, q, y, d)
  BY <1>1, KeyParts
<1> QED BY <1>2, <1>3 DEF HasParts

\* No vote declares the key of the status of what it votes on.
LEMMA StatusNotDeclared ==
  ASSUME NEW x, x \in IDs, NEW id, id \in IDs, x # id, NEW actor, actor \in Seq(Byte)
  PROVE  StatusKey(x) \notin {TimeOutKey(x), WeightKey(x), StatusKey(id), VoteKey(x, actor)}
<1>1. x \in Seq(Byte) /\ id \in Seq(Byte) /\ Len(x) = Len(id)
  BY ArraysAreBytes
<1>2. StatusKey(x)[1] = 10 /\ TimeOutKey(x)[1] = 8 /\ WeightKey(x)[1] = 9 /\ VoteKey(x, actor)[1] = 11
  BY <1>1, KeysAre
<1>3. StatusKey(x) # StatusKey(id)
  <2>1. \A y \in Seq(Byte) : StatusKey(y) = KeyIs(10, y, TimeOutChunks)
    BY DEF StatusKey, KeyIs, Cat3, statusPrefix
  <2>2. PICK p \in Nat, c \in 0 .. 9 : p = 10 /\ c = TimeOutChunks
    BY DEF TimeOutChunks
  <2>3. StatusKey(x) = KeyIs(p, x, c) /\ StatusKey(id) = KeyIs(p, id, c)
    BY <1>1, <2>1, <2>2
  <2>4. KeyIs(p, x, c) # KeyIs(p, id, c)
    <3> SUFFICES ASSUME KeyIs(p, x, c) = KeyIs(p, id, c) PROVE FALSE
      OBVIOUS
    <3>1. x = id
      BY <1>1, KeysDiffer
    <3> QED BY <3>1
  <2> QED BY <2>3, <2>4
<1> QED BY <1>2, <1>3

\* The store after a transaction differs at the keys L, and is sound.
Effect(w, L) == w.failed \in BOOLEAN /\ Only(store, w.store, L) /\ Sound(w.store)

\* A verification writes the record of its window.
Opens(w, id) ==
  ~ w.failed /\ TimeOutKey(id) \in DOMAIN w.store /\ w.store[TimeOutKey(id)] # <<>>

\* What a view of the store ends with, the store does.
LEMMA EffectIs ==
  ASSUME NEW K, NEW L, NEW w, Writes(View(store, K), w, K, L)
  PROVE  Effect(w, L)
BY ViewIs DEF Effect, Writes, IsView

\* Execute writes what Written says, and does not fail a verification.
LEMMA ExecuteWrites ==
  ASSUME NEW a, IsAction(a), NEW actor, actor \in Seq(Byte), NEW id, id \in IDs,
         a.type = ValidatorVoteID => a.txID # id, NEW outcome, Sound(store), now \in Nat,
         NEW w, w = Execute(a, actor, id, outcome)
  PROVE  Effect(w, Written(a, actor, id)) /\ (IsVerify(a) => Opens(w, id))
<1> DEFINE K == StateKeys(a, actor, id)
           v == View(store, K)
           L == Written(a, actor, id)
<1>1. IsView(v, K) /\ v.store = store /\ Sound(v.store) /\ ~ v.failed
  <2>1. IsView(v, K) /\ v.store = store /\ ~ v.failed
    BY ViewIs
  <2> QED BY <2>1
<1>2. /\ a.type \in {0, 1, 2, 3} \/ IsVerify(a)
      /\ a.type \in {0, 1, 2, 3} => ~ IsVerify(a)
  BY FieldTypes
<1>3. id \in Seq(Byte)
  BY ArraysAreBytes
<1>4. CASE IsVerify(a)
  <2>1. w = ExecuteVerify(v, a, id)
    BY <1>2, <1>4 DEF Execute, TransferID, RegisterID, RegisterImageID, ValidatorVoteID
  <2>2. K = {TimeOutKey(id)} /\ L = {TimeOutKey(id)}
    BY <1>2, <1>4 DEF StateKeys, Written, TransferID, RegisterID, RegisterImageID, ValidatorVoteID
  <2>3. a.timeOutBlocks \in Nat /\ TimeOutKey(id) \in K
    BY <1>4, <2>2, FieldTypes
  <2>4. w = StoreTimeOut(v, id, a.timeOutBlocks, now)
    BY <2>1 DEF ExecuteVerify
  <2> DEFINE t == a.timeOutBlocks
             val == BigEndian(now + (IF t < 20 THEN 20 ELSE IF t > 300 THEN 300 ELSE t) * 1000, Uint64Len)
             key == TimeOutKey(id)
  <2>5. w = Insert(v, key, val)
    BY <2>4 DEF StoreTimeOut
  <2>6. val \in Seq(Byte)
    <3> DEFINE n == now + (IF t < 20 THEN 20 ELSE IF t > 300 THEN 300 ELSE t) * 1000
    <3>1. n \in Nat
      <4>1. t \in Nat
        BY <2>3
      <4> HIDE DEF t
      <4> QED BY <4>1
    <3> HIDE DEF n
    <3>2. BigEndian(n, Uint64Len) \in Seq(Byte)
      BY <3>1, IntegersAreBytes
    <3> QED BY <3>2 DEF n
  <2> HIDE DEF v, K, L
  <2>7. TimedOut(v, w, K, TimeOutKey(id))
    <3> HIDE DEF val, key
    <3> DEFINE u == a.timeOutBlocks
    <3>1. u \in Nat /\ w = StoreTimeOut(v, id, u, now)
      BY <2>3, <2>4
    <3> HIDE DEF u
    <3> QED BY <1>1, <1>3, <2>3, <3>1, TimeOutIs
  <2>8. Writes(v, w, K, {key} \cap K)
    <3> HIDE DEF val, key
    <3> QED BY <1>1, <2>5, <2>6, InsertWrites
  <2>9. {key} \cap K = L
    BY <2>2
  <2>10. Writes(v, w, K, L)
    BY <2>8, <2>9
  <2>11. Effect(w, L)
    BY <2>10, EffectIs DEF v
  <2>12. Opens(w, id)
    BY <1>1, <2>7 DEF Opens, TimedOut
  <2> QED BY <2>11, <2>12 DEF L
<1>5. ASSUME ~ IsVerify(a), Writes(v, w, K, L)
      PROVE  Effect(w, Written(a, actor, id)) /\ (IsVerify(a) => Opens(w, id))
  <2> HIDE DEF L, K
  <2>1. Effect(w, L)
    BY <1>5, EffectIs
  <2> QED BY <1>5, <2>1 DEF L
<1>6. CASE a.type = TransferID
  <2>1. ~ IsVerify(a)
    BY <1>2, <1>6 DEF TransferID
  <2>2. w = ExecuteTransfer(v, a, actor) /\ L = {BalanceKey(actor), BalanceKey(a.to)}
    BY <1>6, <2>1 DEF Execute, Written, TransferID, RegisterID, RegisterImageID, ValidatorVoteID
  <2>3. a.value \in Nat
    BY <1>6, FieldTypes, MaxInts
  <2> HIDE DEF v, K, L
  <2>4. Writes(v, w, K, L)
    BY <1>1, <2>2, <2>3, TransferWrites
  <2> QED BY <1>5, <2>1, <2>4 DEF v
<1>7. CASE a.type = RegisterID
  <2>1. ~ IsVerify(a)
    BY <1>2, <1>7 DEF RegisterID
  <2>2. w = v
    BY <1>7, <2>1 DEF Execute, ExecuteRegister, TransferID, RegisterID, RegisterImageID, ValidatorVoteID
  <2> HIDE DEF v, K, L
  <2>4. Writes(v, w, K, L)
    BY <1>1, <2>2, WritesNone
  <2> QED BY <1>5, <2>1, <2>4 DEF v
<1>8. CASE a.type = RegisterImageID
  <2>1. ~ IsVerify(a)
    BY <1>2, <1>8 DEF RegisterImageID
  <2> DEFINE key == HashKey(a.imageID, a.valType)
             val == a.rootHash
  <2>2. w = Insert(v, key, val) /\ L = {key} /\ K = {key}
    BY <1>8, <2>1 DEF Execute, ExecuteRegisterImage, StoreHashKeyType, Written, StateKeys,
       TransferID, RegisterID, RegisterImageID, ValidatorVoteID
  <2>3. val \in Seq(Byte)
    BY <1>8, FieldTypes
  <2> HIDE DEF v, K, L, key, val
  <2>4. Writes(v, w, K, {key} \cap K)
    BY <1>1, <2>2, <2>3, InsertWrites
  <2>5. {key} \cap K = L
    BY <2>2
  <2>6. Writes(v, w, K, L)
    BY <2>4, <2>5
  <2> QED BY <1>5, <2>1, <2>6 DEF v
<1>9. CASE a.type = ValidatorVoteID
  <2>1. ~ IsVerify(a)
    BY <1>2, <1>9 DEF ValidatorVoteID
  <2>2. /\ w = ExecuteValidatorVote(v, a, actor, outcome)
        /\ L = {WeightKey(a.txID), VoteKey(a.txID, actor)}
        /\ K = {TimeOutKey(a.txID), WeightKey(a.txID), StatusKey(id), VoteKey(a.txID, actor)}
    BY <1>9, <2>1 DEF Execute, Written, StateKeys, TransferID, RegisterID, RegisterImageID,
       ValidatorVoteID
  <2>3. a.txID \in IDs /\ a.txID # id
    BY <1>9, FieldTypes
  <2>4. StatusKey(a.txID) \notin K
    <3> DEFINE x == a.txID
    <3> HIDE DEF x
    <3>1. x \in IDs /\ x # id
      BY <2>3 DEF x
    <3>2. StatusKey(x) \notin {TimeOutKey(x), WeightKey(x), StatusKey(id), VoteKey(x, actor)}
      BY <3>1, StatusNotDeclared
    <3> QED BY <2>2, <3>2 DEF x
  <2> HIDE DEF v, K, L
  <2>5. Writes(v, w, K, {WeightKey(a.txID), VoteKey(a.txID, actor)})
    BY <1>1, <2>2, <2>4, ValidatorVoteWrites
  <2>6. Writes(v, w, K, L)
    BY <2>2, <2>5
  <2> QED BY <1>5, <2>1, <2>6 DEF v
<1> QED BY <1>2, <1>4, <1>6, <1>7, <1>8, <1>9 DEF TransferID, RegisterID, RegisterImageID, ValidatorVoteID

\* What begins the keys that a transaction writes.
LEMMA WrittenHeads ==
  ASSUME NEW a, IsAction(a), NEW actor, actor \in Accounts, NEW id, id \in IDs,
         NEW k, k \in Written(a, actor, id)
  PROVE  /\ k[1] \in {0, 7, 8, 9, 11}
         /\ IsVerify(a) => k = TimeOutKey(id)
         /\ ~ IsVerify(a) => k[1] # 8
         /\ a.type # TransferID => k[1] # 0
<1>1. id \in Seq(Byte) /\ actor \in Seq(Byte)
  BY ArraysAreBytes
<1>2. /\ a.type \in {0, 1, 2, 3} \/ IsVerify(a)
      /\ a.type \in {0, 1, 2, 3} => ~ IsVerify(a)
  BY FieldTypes
<1>3. CASE IsVerify(a)
  <2>1. k = TimeOutKey(id) /\ k[1] = 8
    BY <1>1, <1>3, KeysAre DEF Written
  <2> QED BY <1>3, <2>1
<1>4. CASE a.type = TransferID
  <2>1. a.to \in Seq(Byte)
    <3>1. a.to \in [1 .. AddressLen -> Byte]
      BY <1>4, FieldTypes
    <3> QED BY <3>1, ArraysAreBytes
  <2>2. k \in {BalanceKey(actor), BalanceKey(a.to)} /\ ~ IsVerify(a)
    BY <1>2, <1>4 DEF Written, TransferID
  <2>3. k[1] = 0
    BY <1>1, <2>1, <2>2, KeysAre
  <2> QED BY <1>4, <2>2, <2>3
<1>5. CASE a.type = RegisterID
  BY <1>2, <1>5 DEF Written, RegisterID, TransferID, RegisterImageID, ValidatorVoteID
<1>6. CASE a.type = RegisterImageID
  <2>1. a.imageID \in Seq(Byte) /\ a.valType \in Nat
    <3>1. a.imageID \in IDs /\ a.valType \in Nat
      BY <1>6, FieldTypes
    <3> QED BY <3>1, ArraysAreBytes
  <2>2. k = HashKey(a.imageID, a.valType) /\ ~ IsVerify(a)
    BY <1>2, <1>6 DEF Written, RegisterImageID, TransferID, ValidatorVoteID
  <2>3. k[1] = 7
    BY <2>1, <2>2, KeysAre
  <2> QED BY <2>2, <2>3
<1>7. CASE a.type = ValidatorVoteID
  <2>1. a.txID \in Seq(Byte)
    <3>1. a.txID \in IDs
      BY <1>7, FieldTypes
    <3> QED BY <3>1, ArraysAreBytes
  <2>2. k \in {WeightKey(a.txID), VoteKey(a.txID, actor)} /\ ~ IsVerify(a)
    BY <1>2, <1>7 DEF Written, RegisterImageID, TransferID, ValidatorVoteID
  <2>3. k[1] \in {9, 11}
    BY <1>1, <2>1, <2>2, KeysAre
  <2> QED BY <2>2, <2>3
<1> QED BY <1>2, <1>3, <1>4, <1>5, <1>6, <1>7 DEF TransferID, RegisterID, RegisterImageID, ValidatorVoteID

-----------------------------------------------------------------------------
(* The chain                                                               *)

\* What was sent n-th is one of the requests that may be.
SentAt == Len(sent) <= Len(Requests) /\ \A n \in DOMAIN sent : sent[n].request \in Requests[n]

\* It stays so.
LEMMA SentAtInductive ==
  /\ Init => SentAt
  /\ SentInv /\ SentAt /\ [Next]_vars => SentAt'
<1>0. Len(Requests) \in Nat
  BY RequestAssumption
<1>1. Init => SentAt
  BY <1>0 DEF Init, SentAt
<1>2. ASSUME SentInv, SentAt, [Next]_vars PROVE SentAt'
  <2>1. ASSUME NEW r \in Requests[Len(sent) + 1], Len(sent) < Len(Requests), Send(r)
        PROVE  SentAt'
    <3> DEFINE S == {SentOf(q) : q \in AllRequests}
               e == [request |-> r, size |-> Len(Wire(r)), tx |-> UnmarshalTx(Wire(r))]
    <3>1. sent' = Append(sent, e) /\ e.request = r
      BY <2>1 DEF Send
    <3>2. sent \in Seq(S)
      BY <1>2 DEF SentInv
    <3> HIDE DEF S, e
    <3>3. Len(sent') = Len(sent) + 1 /\ DOMAIN sent' = 1 .. Len(sent) + 1
          /\ Len(sent) \in Nat /\ DOMAIN sent = 1 .. Len(sent)
      BY <3>1, <3>2
    <3>4. \A n \in 1 .. Len(sent) : sent'[n] = sent[n]
      BY <3>1, <3>2
    <3>5. sent'[Len(sent) + 1] = e
      BY <3>1, <3>2
    <3>6. ASSUME NEW n \in 1 .. Len(sent) + 1 PROVE sent'[n].request \in Requests[n]
      <4>1. CASE n \in 1 .. Len(sent)
        BY <1>2, <3>3, <3>4, <4>1 DEF SentAt
      <4>2. CASE n = Len(sent) + 1
        BY <2>1, <3>1, <3>5, <4>2
      <4> QED BY <3>3, <4>1, <4>2
    <3> QED BY <1>0, <2>1, <3>3, <3>6 DEF SentAt
  <2>2. ASSUME UNCHANGED sent PROVE SentAt'
    BY <1>2, <2>2 DEF SentAt
  <2> QED BY <1>2, <2>1, <2>2 DEF Next, vars, Process, Block, Accepted
<1> QED BY <1>1, <1>2

\* What a step of the chain does with the transaction tx that was sent n-th; w is what
\* its action leaves.
Processes(n, tx, w) ==
  /\ n \in DOMAIN Requests /\ tx \in Requests[n] /\ tx \in AllRequests
  /\ IsTx(tx) /\ Address(tx.auth) \in Accounts /\ Fits(tx) /\ TxID(n) \in IDs
  /\ Effect(w, Written(tx.action, Address(tx.auth), TxID(n)))
  /\ IsVerify(tx.action) => Opens(w, TxID(n))
  /\ \E outcome : w = Execute(tx.action, Address(tx.auth), TxID(n), outcome)
  /\ store' = IF ~ w.failed THEN w.store ELSE store
  /\ executed' = Append(executed, [n |-> n, tx |-> tx, at |-> now, success |-> ~ w.failed])
  /\ UNCHANGED <<env, now, sent, db, asked>>

\* What the action of the transaction sent n-th leaves.
Leaves(n, outcome) ==
  Execute(sent[n].tx.action, Address(sent[n].tx.auth), TxID(n), outcome)

\* That is what Process does with a transaction that was not refused.
LEMMA ProcessesSent ==
  ASSUME SentInv, SentAt, RoundTrip, Sound(store), now \in Nat,
         NEW n, n \in DOMAIN sent, NEW outcome, Process(n, outcome)
  PROVE  Processes(n, sent[n].tx, Leaves(n, outcome))
<1> DEFINE tx == sent[n].tx
           a == tx.action
           actor == Address(tx.auth)
           w == Execute(a, actor, TxID(n), outcome)
<1>1. /\ tx # Refused /\ Fits(tx)
      /\ store' = IF ~ w.failed THEN w.store ELSE store
      /\ executed' = Append(executed, [n |-> n, tx |-> tx, at |-> now, success |-> ~ w.failed])
      /\ UNCHANGED <<env, now, sent, db, asked>>
  BY DEF Process
<1>2. n \in DOMAIN Requests /\ n \in Nat
  <2> DEFINE S == {SentOf(q) : q \in AllRequests}
             R == SUBSET AllRequests
  <2>1. sent \in Seq(S) /\ Requests \in Seq(R)
    BY RequestAssumption DEF SentInv, AllRequests
  <2> HIDE DEF S, R
  <2>2. n \in 1 .. Len(sent) /\ Len(sent) \in Nat /\ Len(Requests) \in Nat
        /\ DOMAIN Requests = 1 .. Len(Requests)
    BY <2>1
  <2>3. Len(sent) <= Len(Requests)
    BY DEF SentAt
  <2> QED BY <2>2, <2>3
<1>3. tx = sent[n].request
  BY <1>1 DEF RoundTrip
<1>4. tx \in Requests[n]
  BY <1>3 DEF SentAt
<1> HIDE DEF tx
<1>5. tx \in AllRequests
  BY <1>2, <1>4 DEF AllRequests, Range
<1>6. IsTx(tx) /\ actor \in Accounts
  BY <1>5, RequestAssumption DEF AllRequests
<1>7. IsAction(a) /\ actor \in Seq(Byte) /\ TxID(n) \in IDs
  <2>1. IsAction(a)
    BY <1>6 DEF IsTx
  <2>2. TxID(n) \in IDs
    BY <1>2, TxIDsAre
  <2>3. actor \in Seq(Byte)
    <3> HIDE DEF actor
    <3> QED BY <1>6, ArraysAreBytes
  <2> QED BY <2>1, <2>2, <2>3
<1>8. a.type = ValidatorVoteID => a.txID # TxID(n)
  BY <1>2, <1>4, RequestAssumption DEF TxID
<1>9. Effect(w, Written(a, actor, TxID(n))) /\ (IsVerify(a) => Opens(w, TxID(n)))
  <2> DEFINE id == TxID(n)
  <2>1. w = Execute(a, actor, id, outcome) /\ id \in IDs /\ (a.type = ValidatorVoteID => a.txID # id)
    BY <1>7, <1>8
  <2> HIDE DEF w, a, actor, id
  <2>2. Effect(w, Written(a, actor, id)) /\ (IsVerify(a) => Opens(w, id))
    BY <1>7, <2>1, ExecuteWrites
  <2> QED BY <2>2 DEF id
<1>10. \E o : w = Execute(tx.action, Address(tx.auth), TxID(n), o)
  OBVIOUS
<1> HIDE DEF w
<1>11. Processes(n, tx, w)
  BY <1>1, <1>2, <1>4, <1>5, <1>6, <1>7, <1>9, <1>10 DEF Processes
<1> QED BY <1>11 DEF w, tx, Leaves

\* Of some transaction, then.
LEMMA ProcessIs ==
  ASSUME SentInv, SentAt, RoundTrip, Sound(store), now \in Nat,
         NEW n, n \in DOMAIN sent, NEW outcome, Process(n, outcome)
  PROVE  \E tx, w : Processes(n, tx, w)
BY ProcessesSent

\* The store holds bytes that fit their keys, and no status.
StoreInv == now \in Nat /\ Sound(store) /\ \A k \in DOMAIN store : k[1] # 10

\* Genesis is such a store.
LEMMA GenesisSound == Init => StoreInv
<1> SUFFICES ASSUME Init PROVE StoreInv
  OBVIOUS
<1> DEFINE val == BigEndian(Supply, Uint64Len)
           D == {BalanceKey(a) : a \in Accounts}
<1>1. store = [k \in D |-> val] /\ now = 0
  BY DEF Init
<1>2. val \in Seq(Byte) /\ Len(val) = Uint64Len
  <2>1. Supply \in Nat /\ Uint64Len \in Nat
    BY ChainAssumption, MaxInts, Widths
  <2> QED BY <2>1, BigEndianBytes
<1> HIDE DEF val
<1>3. ASSUME NEW a \in Accounts PROVE Allowed(BalanceKey(a), val) /\ BalanceKey(a)[1] = 0
  <2> DEFINE key == BalanceKey(a)
  <2>1. a \in Seq(Byte)
    BY ArraysAreBytes
  <2>2. key = KeyIs(0, a, 1)
    BY DEF BalanceKey, KeyIs, Cat3, balancePrefix, BalanceChunks
  <2> HIDE DEF key
  <2>3. Allowed(key, val)
    BY <1>2, <2>1, <2>2, IntegerFits
  <2>4. BalanceKey(a)[1] = 0
    BY <2>1, KeysAre
  <2> QED BY <2>3, <2>4 DEF key
<1>4. \A k \in DOMAIN store : store[k] = val /\ Allowed(k, val) /\ k[1] = 0
  BY <1>1, <1>3
<1>5. Sound(store)
  BY <1>2, <1>4 DEF Sound
<1>6. \A k \in DOMAIN store : k[1] # 10
  BY <1>4
<1>7. now \in Nat
  BY <1>1
<1> QED BY <1>5, <1>6, <1>7 DEF StoreInv

\* A block writes three integers.
LEMMA BlockIs ==
  ASSUME Block, Sound(store)
  PROVE  /\ now' \in Nat /\ Only(store, store', BlockKeys) /\ Sound(store')
         /\ \A k \in DOMAIN store' : k \in DOMAIN store \/ k[1] \in {1, 2, 3}
<1>1. PICK ts \in Times : now' = ts
  BY DEF Block
<1>2. now' \in Nat
  BY <1>1, ChainAssumption
<1> DEFINE val == BigEndian(now', Uint64Len)
<1>3. store' = [k \in DOMAIN store \cup BlockKeys |-> IF k \in BlockKeys THEN val ELSE store[k]]
  BY DEF Block
<1>4. val \in Seq(Byte) /\ Len(val) = Uint64Len
  BY <1>2, BigEndianBytes, Widths
<1> HIDE DEF val
<1>5. ASSUME NEW k \in BlockKeys PROVE Allowed(k, val)
  <2>1. PICK p \in {1, 2, 3} : k = <<p>> \o Suffix(1)
    BY DEF BlockKeys, heightPrefix, timestampPrefix, feePrefix
  <2> DEFINE x == <<p>>
             e == <<>>
  <2>2. x \in Seq(Nat) /\ p \in Nat /\ e \in Seq(Byte)
    BY OneNat
  <2>3. k = KeyIs(p, e, 1)
    <3> HIDE DEF x
    <3>1. x \o <<>> = x
      BY <2>2, ConcatEmptySeq
    <3>2. k = x \o Suffix(1)
      BY <2>1 DEF x
    <3>3. k = (x \o <<>>) \o Suffix(1)
      BY <3>1, <3>2
    <3> QED BY <3>3 DEF KeyIs, Cat3, x
  <2> HIDE DEF e
  <2> QED BY <1>4, <2>2, <2>3, IntegerFits
<1>6. Sound(store')
  BY <1>3, <1>4, <1>5 DEF Sound
<1>7. Only(store, store', BlockKeys)
  BY <1>3 DEF Only
<1>8. \A k \in DOMAIN store' : k \in DOMAIN store \/ k \in BlockKeys
  BY <1>3
<1> QED BY <1>2, <1>6, <1>7, <1>8, KeysAre

\* The chain keeps its store sound.
LEMMA StoreInductive == SentInv /\ SentAt /\ StoreInv /\ [Next]_vars => StoreInv'
<1> SUFFICES ASSUME SentInv, SentAt, StoreInv, [Next]_vars PROVE StoreInv'
  OBVIOUS
<1>1. ASSUME NEW n \in DOMAIN sent, NEW outcome \in Outcomes, Process(n, outcome)
      PROVE  StoreInv'
  <2>1. RoundTrip /\ Sound(store) /\ now \in Nat
    BY SentRoundTrips DEF StoreInv
  <2>2. PICK tx, w : Processes(n, tx, w)
    BY <1>1, <2>1, ProcessIs
  <2> DEFINE L == Written(tx.action, Address(tx.auth), TxID(n))
  <2>3. /\ Only(store, w.store, L) /\ Sound(w.store)
        /\ store' = IF ~ w.failed THEN w.store ELSE store
        /\ now' = now
    BY <2>2 DEF Processes, Effect
  <2>4. \A k \in L : k[1] # 10
    <3> DEFINE a == tx.action
               actor == Address(tx.auth)
               id == TxID(n)
    <3>1. IsAction(a) /\ actor \in Accounts /\ id \in IDs
      BY <2>2 DEF Processes, IsTx
    <3> HIDE DEF a, actor, id
    <3>2. \A k : k \in Written(a, actor, id) => k[1] \in {0, 7, 8, 9, 11}
      BY <3>1, WrittenHeads
    <3> QED BY <3>2 DEF a, actor, id
  <2> HIDE DEF L
  <2>5. \A k \in DOMAIN w.store : k[1] # 10
    BY <2>3, <2>4 DEF Only, StoreInv
  <2>6. w.failed \/ ~ w.failed
    OBVIOUS
  <2>7. CASE store' = store
    BY <2>3, <2>7 DEF StoreInv
  <2>8. CASE store' = w.store
    BY <2>1, <2>3, <2>5, <2>8 DEF StoreInv
  <2> QED BY <2>3, <2>7, <2>8
<1>2. CASE Block
  <2>1. \A k \in DOMAIN store' : k[1] # 10
    BY <1>2, BlockIs DEF StoreInv
  <2> QED BY <1>2, <2>1, BlockIs DEF StoreInv
<1>3. CASE UNCHANGED <<now, store>>
  BY <1>3 DEF StoreInv
<1> QED BY <1>1, <1>2, <1>3 DEF Next, vars, Send, Accepted, records

\* What the chain's proofs rest on.
ChainInv == SentInv /\ SentAt /\ StoreInv

\* It is inductive.
LEMMA ChainInductive ==
  /\ Init => ChainInv
  /\ ChainInv /\ [Next]_vars => ChainInv'
BY SentInductive, SentAtInductive, StoreInductive, GenesisSound DEF ChainInv

\* No vote, and nothing else, writes the record of a status: every transaction looks
\* unknown to VerifyStatus, with any number of votes.
THEOREM TxPendingLooksUnknown == Spec => []PendingLooksUnknown
<1>1. ChainInv => PendingLooksUnknown
  <2> SUFFICES ASSUME ChainInv, NEW n \in DOMAIN Requests
               PROVE  VerifyStatus(TxID(n)) = [err |-> TRUE]
    BY DEF PendingLooksUnknown, TxIDs
  <2>1. n \in Nat
    <3> DEFINE R == SUBSET AllRequests
    <3>1. Requests \in Seq(R)
      BY RequestAssumption DEF AllRequests
    <3> HIDE DEF R
    <3> QED BY <3>1
  <2> DEFINE id == TxID(n)
  <2>2. id \in Seq(Byte)
    <3>1. id \in IDs
      BY <2>1, TxIDsAre
    <3> QED BY <3>1, ArraysAreBytes
  <2> HIDE DEF id
  <2>3. StatusKey(id) \notin DOMAIN store
    BY <2>2, KeysAre DEF ChainInv, StoreInv
  <2>4. VerifyStatus(id) = [err |-> TRUE]
    BY <2>3 DEF VerifyStatus, GetVerifyStatusFromState, Get, NotFound
  <2> QED BY <2>4 DEF id
<1> QED BY <1>1, ChainInductive, PTL DEF Spec

-----------------------------------------------------------------------------
(* Results and windows                                                     *)

\* t is s with e after it.
Grown(s, e, t, S) ==
  /\ t \in Seq(S) /\ Len(s) \in Nat /\ Len(t) = Len(s) + 1
  /\ DOMAIN s = 1 .. Len(s) /\ DOMAIN t = 1 .. Len(t)
  /\ \A i \in DOMAIN s : i \in DOMAIN t /\ t[i] = s[i]
  /\ t[Len(t)] = e /\ \A i \in DOMAIN t : i \in DOMAIN s \/ i = Len(t)

\* That is what Append does.
LEMMA Appends ==
  ASSUME NEW S, NEW s, s \in Seq(S), NEW e, e \in S, NEW t, t = Append(s, e)
  PROVE  Grown(s, e, t, S)
<1>1. /\ t \in Seq(S) /\ Len(t) = Len(s) + 1 /\ Len(s) \in Nat
      /\ DOMAIN s = 1 .. Len(s) /\ DOMAIN t = 1 .. Len(t)
  OBVIOUS
<1>2. \A i \in 1 .. Len(s) : t[i] = s[i]
  OBVIOUS
<1>3. t[Len(s) + 1] = e
  OBVIOUS
<1>4. \A i \in DOMAIN t : i \in DOMAIN s \/ i = Len(t)
  BY <1>1
<1>5. \A i \in DOMAIN s : i \in DOMAIN t
  BY <1>1
<1> QED BY <1>1, <1>2, <1>3, <1>4, <1>5 DEF Grown

\* The results of the chain are of requests that a block could hold.
Result(n, tx, at, success) == [n |-> n, tx |-> tx, at |-> at, success |-> success]
Results == {Result(n, tx, at, success) :
              n \in Nat, tx \in AllRequests, at \in Nat, success \in BOOLEAN}

ResultsInv ==
  /\ executed \in Seq(Results)
  /\ \A i \in DOMAIN executed : ComputeUnits(executed[i].tx) <= env.maxUnits

\* A step of the chain adds one, of a verification that opened its window if it is one.
LEMMA ProcessAdds ==
  ASSUME ChainInv, executed \in Seq(Results), NEW n, n \in DOMAIN sent,
         NEW outcome, Process(n, outcome)
  PROVE  \E tx, w : Processes(n, tx, w)
                    /\ Grown(executed, Result(n, tx, now, ~ w.failed), executed', Results)
<1>1. RoundTrip /\ Sound(store) /\ now \in Nat
  BY SentRoundTrips DEF StoreInv, ChainInv
<1>2. PICK tx, w : Processes(n, tx, w)
  BY <1>1, ProcessIs DEF ChainInv
<1> DEFINE ok == ~ w.failed
           ts == now
           e == Result(n, tx, ts, ok)
<1>3. n \in Nat
  <2> DEFINE R == SUBSET AllRequests
  <2>1. Requests \in Seq(R)
    BY RequestAssumption DEF AllRequests
  <2>2. n \in DOMAIN Requests
    BY <1>2 DEF Processes
  <2> HIDE DEF R
  <2> QED BY <2>1, <2>2
<1>4. e \in Results
  <2>1. tx \in AllRequests /\ ok \in BOOLEAN /\ ts \in Nat
    BY <1>1, <1>2 DEF Processes
  <2> HIDE DEF ok, ts
  <2> QED BY <1>3, <2>1 DEF Results
<1>5. executed' = Append(executed, e)
  BY <1>2 DEF Processes, Result
<1> HIDE DEF e
<1>6. Grown(executed, e, executed', Results)
  BY <1>4, <1>5, Appends
<1> QED BY <1>2, <1>6 DEF e

\* The parts of a result.
LEMMA ResultIs ==
  \A n, tx, at, success :
    /\ Result(n, tx, at, success).n = n /\ Result(n, tx, at, success).tx = tx
    /\ Result(n, tx, at, success).at = at
    /\ Result(n, tx, at, success).success = success
BY DEF Result

\* The limits of the genesis never change, so what fitted fits.
LEMMA ResultsInductive ==
  /\ Init => ResultsInv
  /\ ChainInv /\ ResultsInv /\ [Next]_vars => ResultsInv'
<1>1. Init => ResultsInv
  <2> SUFFICES ASSUME Init PROVE ResultsInv
    OBVIOUS
  <2>1. executed = <<>>
    BY DEF Init
  <2> QED BY <2>1 DEF ResultsInv
<1>2. ASSUME ChainInv, ResultsInv, [Next]_vars PROVE ResultsInv'
  <2>1. env' = env
    BY <1>2 DEF Next, vars, Send, Process, Block, Accepted
  <2>3. ASSUME NEW n \in DOMAIN sent, NEW outcome \in Outcomes, Process(n, outcome)
        PROVE  ResultsInv'
    <3>1. PICK tx, w : Processes(n, tx, w)
                       /\ Grown(executed, Result(n, tx, now, ~ w.failed), executed', Results)
      BY <1>2, <2>3, ProcessAdds DEF ResultsInv
    <3> DEFINE e == Result(n, tx, now, ~ w.failed)
    <3>2. e.tx = tx /\ ComputeUnits(tx) <= env.maxUnits
      BY <3>1, ResultIs DEF Processes, Fits
    <3> HIDE DEF e
    <3>3. Grown(executed, e, executed', Results)
      BY <3>1 DEF e
    <3>4. ASSUME NEW i \in DOMAIN executed' PROVE ComputeUnits(executed'[i].tx) <= env'.maxUnits
      <4>1. CASE i \in DOMAIN executed
        BY <1>2, <2>1, <3>3, <4>1 DEF Grown, ResultsInv
      <4>2. CASE i = Len(executed')
        BY <2>1, <3>2, <3>3, <4>2 DEF Grown
      <4> QED BY <3>3, <4>1, <4>2 DEF Grown
    <3>5. executed' \in Seq(Results)
      BY <3>3 DEF Grown
    <3> QED BY <3>4, <3>5 DEF ResultsInv, ComputeUnits
  <2>4. CASE UNCHANGED executed
    BY <1>2, <2>1, <2>4 DEF ResultsInv, ComputeUnits
  <2> QED BY <1>2, <2>3, <2>4 DEF Next, vars, Send, Block, Accepted, records
<1> QED BY <1>1, <1>2

\* The units that the actions ask for.
LEMMA UnitsAre ==
  /\ RegisterImage.maxUnits = 4000 /\ ValidatorVote.maxUnits = 5000 /\ SP1.maxUnits = 8000
  /\ RiscZero.maxUnits = 8000 /\ Miden.maxUnits = 6000 /\ Jolt.maxUnits = 20000
  /\ PLONKY2.maxUnits = 8000
<1>1. SP1.maxUnits = 8000 /\ Jolt.maxUnits = 20000
  BY DEF SP1, Jolt
<1>2. RegisterImage.maxUnits = 4000 /\ ValidatorVote.maxUnits = 5000
  BY DEF RegisterImage, ValidatorVote
<1>3. RiscZero.maxUnits = 8000 /\ Miden.maxUnits = 6000
  BY DEF RiscZero, Miden
<1>4. PLONKY2.maxUnits = 8000
  BY DEF PLONKY2
<1> QED BY <1>1, <1>2, <1>3, <1>4

\* The units of the actions, but Transfer and Register, are above the default.
LEMMA OverDefault ==
  ASSUME NEW tx, IsTx(tx), ComputeUnits(tx) <= DefaultMaxBlockUnits
  PROVE  tx.action.type \in {TransferID, RegisterID} /\ ~ IsVerify(tx.action)
<1> DEFINE a == tx.action
           q == AuthUnits[tx.auth.scheme]
<1>1. q \in Nat
  <2>1. tx.auth.scheme \in AuthRegistry
    BY DEF IsTx, IsAuth
  <2> QED BY <2>1, ChainAssumption
<1>2. PICK c : IsOf(a, c)
  BY ActionIsOf DEF IsTx
<1>3. c \in ActionRegistry /\ a.type = c.type /\ Codec(a.type) = c
  <2>1. c \in ActionRegistry /\ a.type = c.type
    BY <1>2 DEF IsOf
  <2> QED BY <2>1, CodecOfType
<1> HIDE DEF q, a
<1>4. 1 + c.maxUnits + q <= 2000
  BY <1>3 DEF ComputeUnits, BaseComputeUnits, DefaultMaxBlockUnits, q, a
<1>5. c.maxUnits \in {4000, 5000, 6000, 8000, 20000} \/ c = Transfer \/ c = Register
  BY <1>3, UnitsAre DEF ActionRegistry
<1>6. c = Transfer \/ c = Register
  BY <1>1, <1>4, <1>5
<1>7. a.type \in {0, 1}
  BY <1>3, <1>6, TypesAre
<1>8. ~ IsVerify(a)
  BY <1>7 DEF IsVerify, SP1ID, RiscZeroID, MidenID, JoltID, Plonky2ID
<1> QED BY <1>7, <1>8 DEF a, TransferID, RegisterID

\* What the default does not hold, it never will.
LEMMA DefaultInductive ==
  /\ Init => DefaultHoldsNoProof
  /\ ChainInv /\ ResultsInv /\ DefaultHoldsNoProof /\ [Next]_vars => DefaultHoldsNoProof'
<1>1. Init => DefaultHoldsNoProof
  <2> SUFFICES ASSUME Init PROVE DefaultHoldsNoProof
    OBVIOUS
  <2>1. executed = <<>> /\ opened = {}
    BY DEF Init
  <2>2. ToSet(executed) = {}
    BY <2>1 DEF ToSet
  <2> QED BY <2>1, <2>2 DEF DefaultHoldsNoProof
<1>2. ASSUME ChainInv, ResultsInv, DefaultHoldsNoProof, [Next]_vars PROVE DefaultHoldsNoProof'
  <2>1. env' = env
    BY <1>2 DEF Next, vars, Send, Process, Block, Accepted
  <2>2. ASSUME NEW n \in DOMAIN sent, NEW outcome \in Outcomes, Process(n, outcome),
               env.maxUnits = DefaultMaxBlockUnits
        PROVE  /\ opened' = {}
               /\ \A e \in ToSet(executed') : e.tx.action.type \in {TransferID, RegisterID}
    <3>1. PICK tx, w : Processes(n, tx, w)
                       /\ Grown(executed, Result(n, tx, now, ~ w.failed), executed', Results)
      BY <1>2, <2>2, ProcessAdds DEF ResultsInv
    <3> DEFINE e == Result(n, tx, now, ~ w.failed)
    <3>2. IsTx(tx) /\ ComputeUnits(tx) <= DefaultMaxBlockUnits
      BY <2>2, <3>1 DEF Processes, Fits
    <3>3. tx.action.type \in {TransferID, RegisterID} /\ ~ IsVerify(tx.action)
      BY <3>2, OverDefault
    <3>4. e.tx = tx
      BY ResultIs
    <3> HIDE DEF e
    <3>5. Grown(executed, e, executed', Results)
      BY <3>1 DEF e
    <3>6. \A d \in ToSet(executed') : d \in ToSet(executed) \/ d = e
      BY <3>5 DEF Grown, ToSet
    <3>7. opened' = opened
      <4>1. executed'[Len(executed')] = e /\ Len(executed') = Len(executed) + 1
        BY <3>5 DEF Grown
      <4>2. executed' = Append(executed, [n |-> n, tx |-> sent[n].tx, at |-> now,
              success |-> ~ Execute(sent[n].tx.action, Address(sent[n].tx.auth), TxID(n), outcome).failed])
        BY <2>2 DEF Process
      <4> DEFINE t == sent[n].tx
                 f == Execute(t.action, Address(t.auth), TxID(n), outcome).failed
                 d == [n |-> n, tx |-> t, at |-> now, success |-> ~ f]
      <4>3. d.tx = t
        OBVIOUS
      <4>4. executed' = Append(executed, d)
        BY <4>2
      <4> HIDE DEF d
      <4>5. d = e
        <5>1. Append(executed, d)[Len(executed) + 1] = d
          BY <1>2 DEF ResultsInv
        <5> QED BY <4>1, <4>4, <5>1
      <4>6. ~ IsVerify(t.action)
        BY <3>3, <3>4, <4>3, <4>5
      <4> QED BY <2>2, <4>6 DEF Process
    <3> QED BY <1>2, <2>2, <3>3, <3>4, <3>6, <3>7 DEF DefaultHoldsNoProof
  <2>3. CASE UNCHANGED <<executed, opened>>
    BY <1>2, <2>1, <2>3 DEF DefaultHoldsNoProof
  <2> QED BY <1>2, <2>1, <2>2, <2>3 DEF Next, vars, Send, Block, Accepted, records, DefaultHoldsNoProof
<1> QED BY <1>1, <1>2

\* Under the default limit no proof is ever verified, no vote counted and no image
\* registered, whatever the schemes of authentication cost.
THEOREM TxDefaultHoldsNoProof == Spec => []DefaultHoldsNoProof
BY ChainInductive, ResultsInductive, DefaultInductive, PTL DEF Spec

\* The store s has the record of the window of the n-th transaction.
HasWindow(s, n) == TimeOutKey(TxID(n)) \in DOMAIN s /\ s[TimeOutKey(TxID(n))] # <<>>

\* Every verification succeeded, and its window is there.
WindowsInv ==
  \A i \in DOMAIN executed : IsVerify(executed[i].tx.action) =>
    executed[i].success /\ HasWindow(store, executed[i].n)

\* What was asked of the prover is what the transactions named.
AskedInv ==
  /\ asked \in Seq({Files(r.action) : r \in AllRequests}) /\ Len(asked) <= Len(executed)
  /\ \A i \in DOMAIN asked : asked[i] = Files(executed[i].tx.action)

\* A window is not taken away.
LEMMA WindowStays ==
  ASSUME NEW s, NEW t, NEW L, Only(s, t, L), NEW n, HasWindow(s, n),
         TimeOutKey(TxID(n)) \in L => HasWindow(t, n)
  PROVE  HasWindow(t, n)
BY DEF Only, HasWindow

\* A transaction opens a window if it is a verification, and takes none away.
LEMMA WindowsInductive ==
  /\ Init => WindowsInv
  /\ ChainInv /\ ResultsInv /\ WindowsInv /\ [Next]_vars => WindowsInv'
<1>1. Init => WindowsInv
  BY DEF Init, WindowsInv
<1>2. ASSUME ChainInv, ResultsInv, WindowsInv, [Next]_vars PROVE WindowsInv'
  <2>0. \A i \in DOMAIN executed : executed[i].n \in Nat
    <3>1. \A r \in Results : r.n \in Nat
      BY ResultIs DEF Results
    <3> DEFINE S == Results
    <3>2. executed \in Seq(S)
      BY <1>2 DEF ResultsInv
    <3> HIDE DEF S
    <3>3. \A i \in DOMAIN executed : executed[i] \in S
      BY <3>2
    <3> QED BY <3>1, <3>3 DEF S
  <2>1. ASSUME NEW n \in DOMAIN sent, NEW outcome \in Outcomes, Process(n, outcome)
        PROVE  WindowsInv'
    <3>1. PICK tx, w : Processes(n, tx, w)
                       /\ Grown(executed, Result(n, tx, now, ~ w.failed), executed', Results)
      BY <1>2, <2>1, ProcessAdds DEF ResultsInv
    <3> DEFINE e == Result(n, tx, now, ~ w.failed)
               a == tx.action
               actor == Address(tx.auth)
               L == Written(a, actor, TxID(n))
    <3>2. e.tx = tx /\ e.n = n /\ (e.success <=> ~ w.failed)
      <4> DEFINE ok == ~ w.failed
                 ts == now
                 d == Result(n, tx, ts, ok)
      <4> HIDE DEF ok, ts
      <4>1. d.tx = tx /\ d.n = n /\ d.success = ok
        BY ResultIs
      <4> HIDE DEF d
      <4>2. e = d
        BY DEF d, ok, ts
      <4>3. e.tx = tx /\ e.n = n /\ e.success = ok
        BY <4>1, <4>2
      <4> HIDE DEF e
      <4> QED BY <4>3 DEF ok
    <3> HIDE DEF e
    <3>3. Grown(executed, e, executed', Results)
      BY <3>1 DEF e
    <3>4. /\ Only(store, w.store, L) /\ store' = IF ~ w.failed THEN w.store ELSE store
          /\ IsVerify(a) => ~ w.failed /\ HasWindow(w.store, n)
      BY <3>1 DEF Processes, Effect, Opens, HasWindow
    <3>5. ASSUME NEW m, m \in Nat, TimeOutKey(TxID(m)) \in L PROVE HasWindow(w.store, m)
      <4> DEFINE id == TxID(n)
                 k == TimeOutKey(TxID(m))
      <4>1. IsAction(a) /\ actor \in Accounts /\ id \in IDs
        BY <3>1 DEF Processes, IsTx
      <4>2. k[1] = 8
        <5>1. TxID(m) \in Seq(Byte)
          <6>1. TxID(m) \in IDs
            BY <3>5, TxIDsAre
          <6> QED BY <6>1, ArraysAreBytes
        <5> QED BY <5>1, KeysAre
      <4>3. k \in Written(a, actor, id)
        BY <3>5
      <4> HIDE DEF id, k, a, actor
      <4>4. /\ IsVerify(a) => k = TimeOutKey(id)
            /\ ~ IsVerify(a) => k[1] # 8
        BY <4>1, <4>3, WrittenHeads
      <4>5. IsVerify(a) /\ k = TimeOutKey(id)
        BY <4>2, <4>4
      <4>6. HasWindow(w.store, n)
        BY <3>4, <4>5
      <4> QED BY <4>5, <4>6 DEF HasWindow, id, k
    <3> HIDE DEF L
    <3>6. \A m \in Nat : HasWindow(store, m) => HasWindow(store', m)
      <4>1. ASSUME NEW m \in Nat, HasWindow(store, m) PROVE HasWindow(w.store, m)
        BY <3>4, <3>5, <4>1, WindowStays
      <4>2. CASE store' = store
        BY <4>2
      <4>3. CASE store' = w.store
        BY <4>1, <4>3
      <4> QED BY <3>4, <4>2, <4>3
    <3>7. ASSUME NEW i \in DOMAIN executed', IsVerify(executed'[i].tx.action)
          PROVE  executed'[i].success /\ HasWindow(store', executed'[i].n)
      <4>1. CASE i \in DOMAIN executed
        <5>1. executed'[i] = executed[i]
          BY <3>3, <4>1 DEF Grown
        <5>2. executed[i].success /\ HasWindow(store, executed[i].n)
          BY <1>2, <3>7, <4>1, <5>1 DEF WindowsInv
        <5> QED BY <2>0, <3>6, <4>1, <5>1, <5>2
      <4>2. CASE i = Len(executed')
        <5>1. executed'[i] = e
          BY <3>3, <4>2 DEF Grown
        <5>2. ~ w.failed /\ HasWindow(w.store, n)
          BY <3>2, <3>4, <3>7, <5>1
        <5>3. store' = w.store
          BY <3>4, <5>2
        <5> QED BY <3>2, <5>1, <5>2, <5>3
      <4> QED BY <3>3, <4>1, <4>2 DEF Grown
    <3> QED BY <3>7 DEF WindowsInv
  <2>2. CASE Block
    <3>1. Only(store, store', BlockKeys) /\ UNCHANGED executed
      BY <1>2, <2>2, BlockIs DEF ChainInv, StoreInv, Block
    <3>2. ASSUME NEW m, m \in Nat PROVE TimeOutKey(TxID(m)) \notin BlockKeys
      <4>1. TxID(m) \in Seq(Byte)
        <5>1. TxID(m) \in IDs
          BY <3>2, TxIDsAre
        <5> QED BY <5>1, ArraysAreBytes
      <4> DEFINE k == TimeOutKey(TxID(m))
      <4>2. k[1] = 8
        BY <4>1, KeysAre
      <4> HIDE DEF k
      <4>3. k \notin BlockKeys
        BY <4>2, KeysAre
      <4> QED BY <4>3 DEF k
    <3>3. \A m \in Nat : HasWindow(store, m) => HasWindow(store', m)
      BY <3>1, <3>2, WindowStays
    <3> QED BY <1>2, <2>0, <3>1, <3>3 DEF WindowsInv
  <2>3. CASE UNCHANGED <<executed, store>>
    BY <1>2, <2>3 DEF WindowsInv
  <2> QED BY <1>2, <2>1, <2>2, <2>3 DEF Next, vars, Send, Accepted, records
<1> QED BY <1>1, <1>2

\* Accepted asks about the results in their order.
LEMMA AskedInductive ==
  /\ Init => AskedInv
  /\ ChainInv /\ ResultsInv /\ AskedInv /\ [Next]_vars => AskedInv'
<1>1. Init => AskedInv
  <2> SUFFICES ASSUME Init PROVE AskedInv
    OBVIOUS
  <2>1. asked = <<>> /\ executed = <<>>
    BY DEF Init
  <2> QED BY <2>1 DEF AskedInv
<1>2. ASSUME ChainInv, ResultsInv, AskedInv, [Next]_vars PROVE AskedInv'
  <2>1. ASSUME NEW n \in DOMAIN sent, NEW outcome \in Outcomes, Process(n, outcome)
        PROVE  AskedInv'
    <3>1. PICK tx, w : Processes(n, tx, w)
                       /\ Grown(executed, Result(n, tx, now, ~ w.failed), executed', Results)
      BY <1>2, <2>1, ProcessAdds DEF ResultsInv
    <3> DEFINE e == Result(n, tx, now, ~ w.failed)
    <3> HIDE DEF e
    <3>2. Grown(executed, e, executed', Results)
      BY <3>1 DEF e
    <3>3. asked' = asked
      BY <3>1 DEF Processes
    <3>4. Len(asked) \in Nat /\ DOMAIN asked = 1 .. Len(asked)
      <4> DEFINE S == {Files(r.action) : r \in AllRequests}
      <4>1. asked \in Seq(S)
        BY <1>2 DEF AskedInv
      <4> HIDE DEF S
      <4> QED BY <4>1
    <3>5. \A i \in DOMAIN asked : executed'[i] = executed[i]
      BY <1>2, <3>2, <3>4 DEF AskedInv, Grown
    <3>6. Len(asked) <= Len(executed')
      BY <1>2, <3>2, <3>4 DEF AskedInv, Grown
    <3> QED BY <1>2, <3>3, <3>5, <3>6 DEF AskedInv
  <2>2. CASE Accepted
    <3> DEFINE S == {Files(r.action) : r \in AllRequests}
               j == Len(asked) + 1
               f == Files(executed[j].tx.action)
    <3>1. Len(asked) < Len(executed) /\ asked' = Append(asked, f) /\ executed' = executed
      BY <2>2 DEF Accepted, records
    <3>2. asked \in Seq(S)
      BY <1>2 DEF AskedInv
    <3>3. f \in S
      <4>1. \A r \in Results : r.tx \in AllRequests
        BY ResultIs DEF Results
      <4> DEFINE R == Results
      <4>2. executed \in Seq(R)
        BY <1>2 DEF ResultsInv
      <4> HIDE DEF R, S
      <4>3. j \in DOMAIN executed
        BY <3>1, <3>2, <4>2
      <4>4. executed[j] \in R
        BY <4>2, <4>3
      <4>5. executed[j].tx \in AllRequests
        BY <4>1, <4>4 DEF R
      <4> HIDE DEF j
      <4> QED BY <4>5 DEF S
    <3> HIDE DEF S, f
    <3>4. Grown(asked, f, asked', S)
      BY <3>1, <3>2, <3>3, Appends
    <3>5. ASSUME NEW i \in DOMAIN asked' PROVE asked'[i] = Files(executed[i].tx.action)
      <4>1. CASE i \in DOMAIN asked
        BY <1>2, <3>4, <4>1 DEF Grown, AskedInv
      <4>2. CASE i = Len(asked')
        <5>1. i = j /\ asked'[i] = f
          BY <3>4, <4>2 DEF Grown
        <5> QED BY <5>1 DEF f
      <4> QED BY <3>4, <4>1, <4>2 DEF Grown
    <3>6. asked' \in Seq(S) /\ Len(asked') <= Len(executed)
      <4>1. Len(executed) \in Nat
        BY <1>2 DEF ResultsInv
      <4> QED BY <3>1, <3>4, <4>1 DEF Grown
    <3> QED BY <3>1, <3>5, <3>6 DEF AskedInv, S
  <2>3. CASE UNCHANGED <<executed, asked>>
    BY <1>2, <2>3 DEF AskedInv
  <2> QED BY <1>2, <2>1, <2>2, <2>3 DEF Next, vars, Send, Block, records
<1> QED BY <1>1, <1>2

\* Accepted may ask the prover without a look at the result: a verification never
\* fails, and the window in which votes on it count is never taken away.
THEOREM TxAskedHaveWindow == Spec => []AskedHaveWindow
<1>1. ResultsInv /\ WindowsInv /\ AskedInv => AskedHaveWindow
  <2> SUFFICES ASSUME ResultsInv, WindowsInv, AskedInv, NEW i \in DOMAIN asked, asked[i] # {}
               PROVE  executed[i].success /\ GetTimeOut(store, TxID(executed[i].n)) # NotFound
    BY DEF AskedHaveWindow
  <2> DEFINE a == executed[i].tx.action
  <2>1. asked[i] = Files(a)
    BY DEF AskedInv
  <2>2. IsVerify(a)
    <3> HIDE DEF a
    <3>1. SUFFICES ASSUME ~ IsVerify(a) PROVE FALSE
      OBVIOUS
    <3>2. a.type \notin {SP1ID, JoltID, RiscZeroID, MidenID, Plonky2ID}
      BY <3>1 DEF IsVerify
    <3>3. Files(a) = {}
      BY <3>2 DEF Files
    <3> QED BY <2>1, <3>3
  <2>3. i \in DOMAIN executed
    <3> DEFINE S == {Files(r.action) : r \in AllRequests}
               R == Results
    <3>1. asked \in Seq(S) /\ executed \in Seq(R) /\ Len(asked) <= Len(executed)
      BY DEF AskedInv, ResultsInv
    <3> HIDE DEF S, R
    <3> QED BY <3>1
  <2>4. executed[i].success /\ HasWindow(store, executed[i].n)
    BY <2>2, <2>3 DEF WindowsInv
  <2> QED BY <2>4 DEF HasWindow, GetTimeOut, Get, NotFound
<1> QED BY <1>1, ChainInductive, ResultsInductive, WindowsInductive, AskedInductive, PTL DEF Spec

-----------------------------------------------------------------------------
(* Balances                                                                *)

\* A balance on record is a positive integer of 64 bits.
Funded(s) == \A k \in DOMAIN s : k[1] = 0 => Uint(s[k]) \in 1 .. MaxUint64

\* What every account has, read back from the bytes.
BalancesIn(s) == [x \in Accounts |-> GetBalance(s, x)]

\* From s to t, the balance of x becomes n and no other changes.
Sets(s, t, x, n) ==
  Funded(t) /\ GetBalance(t, x) = n /\ \A y \in Accounts \ {x} : GetBalance(t, y) = GetBalance(s, y)

\* Nothing is read as zero.
LEMMA UintOfNone == Uint(<<>>) = 0
<1> DEFINE z == 0
           b == <<>>
<1>1. z \in Nat /\ b \in [1 .. z -> Nat] /\ z = 0
  OBVIOUS
<1> HIDE DEF z, b
<1>2. PICK h : h \in [0 .. z -> Nat] /\ Reads(h, b, z) /\ Uint(b) = h[z]
  BY <1>1, UintRuns
<1> QED BY <1>1, <1>2 DEF Reads, b

\* An integer of 64 bits is read as it was written.
LEMMA IntegerIs ==
  \A n \in 0 .. MaxUint64 : /\ Uint(BigEndian(n, Uint64Len)) = n
                            /\ BigEndian(n, Uint64Len) \in Seq(Byte)
                            /\ Len(BigEndian(n, Uint64Len)) = Uint64Len
<1> SUFFICES ASSUME NEW n, n \in 0 .. MaxUint64
             PROVE  /\ Uint(BigEndian(n, Uint64Len)) = n
                    /\ BigEndian(n, Uint64Len) \in Seq(Byte)
                    /\ Len(BigEndian(n, Uint64Len)) = Uint64Len
  OBVIOUS
<1>1. Uint64Len \in Nat /\ n \in Nat /\ n \in 0 .. Pow[Uint64Len] - 1
  BY Widths, MaxInts DEF MaxUint64
<1>2. BigEndian(n, Uint64Len) \in Seq(Byte) /\ Len(BigEndian(n, Uint64Len)) = Uint64Len
  BY <1>1, BigEndianBytes
<1>3. Uint(BigEndian(n, Uint64Len)) = n
  BY <1>1, UintOfBigEndian
<1> QED BY <1>2, <1>3

\* The key of a balance: of no other account, and of nothing else.
LEMMA BalanceKeys ==
  /\ \A x \in Accounts : BalanceKey(x) = KeyIs(0, x, 1) /\ x \in Seq(Byte) /\ BalanceKey(x)[1] = 0
  /\ \A x, y \in Accounts : BalanceKey(x) = BalanceKey(y) => x = y
<1>1. ASSUME NEW x \in Accounts
      PROVE  /\ BalanceKey(x) = KeyIs(0, x, 1) /\ x \in Seq(Byte) /\ BalanceKey(x)[1] = 0
             /\ Len(x) = AddressLen
  <2>1. BalanceKey(x) = KeyIs(0, x, 1)
    BY DEF BalanceKey, KeyIs, Cat3, balancePrefix, BalanceChunks
  <2>2. x \in Seq(Byte) /\ Len(x) = AddressLen
    BY ArraysAreBytes, ChainAssumption
  <2> QED BY <2>1, <2>2, KeysAre
<1>2. ASSUME NEW x \in Accounts, NEW y \in Accounts, BalanceKey(x) = BalanceKey(y) PROVE x = y
  <2>1. PICK p \in Nat, c \in 0 .. 9 : p = 0 /\ c = 1
    OBVIOUS
  <2>2. KeyIs(p, x, c) = KeyIs(p, y, c) /\ Len(x) = Len(y) /\ x \in Seq(Byte) /\ y \in Seq(Byte)
    BY <1>1, <1>2, <2>1
  <2>3. p = p /\ x = y
    BY <2>2, KeysDiffer
  <2> QED BY <2>3
<1> QED BY <1>1, <1>2

\* A balance is an integer of 64 bits.
LEMMA BalanceType ==
  ASSUME NEW s, Funded(s), NEW x, x \in Accounts
  PROVE  GetBalance(s, x) \in 0 .. MaxUint64
<1> DEFINE k == BalanceKey(x)
<1>1. k[1] = 0
  BY BalanceKeys
<1> HIDE DEF k
<1>2. CASE k \in DOMAIN s
  BY <1>1, <1>2, MaxInts DEF Funded, GetBalance, Get, k
<1>3. CASE k \notin DOMAIN s
  BY <1>3, UintOfNone, MaxInts DEF GetBalance, Get, NotFound, k
<1> QED BY <1>2, <1>3

\* Only balances that change are different.
LEMMA BalancesSame ==
  ASSUME NEW s, NEW t, Funded(s), NEW L, Only(s, t, L), \A k \in L : k[1] # 0
  PROVE  Funded(t) /\ BalancesIn(t) = BalancesIn(s)
<1>1. Funded(t)
  BY DEF Funded, Only
<1>2. ASSUME NEW x \in Accounts PROVE GetBalance(t, x) = GetBalance(s, x)
  <2> DEFINE k == BalanceKey(x)
  <2>1. k \notin L
    BY BalanceKeys
  <2> HIDE DEF k
  <2>2. Get(t, k) = Get(s, k)
    BY <2>1 DEF Only, Get
  <2> QED BY <2>2 DEF GetBalance, k
<1> QED BY <1>1, <1>2 DEF BalancesIn

\* A balance is set to a positive number.
LEMMA SetIs ==
  ASSUME NEW v, NEW K, IsView(v, K), Funded(v.store), NEW x, x \in Accounts, BalanceKey(x) \in K,
         NEW n, n \in 1 .. MaxUint64, NEW w, w = SetBalance(v, x, n)
  PROVE  IsView(w, K) /\ w.failed = v.failed /\ Sets(v.store, w.store, x, n)
<1> DEFINE key == BalanceKey(x)
           val == BigEndian(n, Uint64Len)
           s == v.store
<1>1. w = Insert(v, key, val) /\ key \in K
  BY DEF SetBalance
<1>2. Uint(val) = n /\ val \in Seq(Byte) /\ Len(val) = Uint64Len
  <2>1. n \in 0 .. MaxUint64
    BY MaxInts
  <2> QED BY <2>1, IntegerIs
<1>3. key = KeyIs(0, x, 1) /\ 0 \in Nat /\ x \in Seq(Byte) /\ key[1] = 0
  BY BalanceKeys
<1>0. \A y \in Accounts \ {x} : BalanceKey(y) # key
  BY BalanceKeys
<1> HIDE DEF key, val
<1>4. Allowed(key, val)
  BY <1>2, <1>3, IntegerFits
<1>5. Inserted(v, K, key, val, w)
  BY <1>1, InsertIs
<1> HIDE DEF s
<1>6. IsView(w, K) /\ w.failed = v.failed /\ w.store = Put(s, key, val)
  BY <1>1, <1>4, <1>5 DEF Inserted, s
<1> DEFINE t == Put(s, key, val)
<1>7. Only(s, t, {key}) /\ key \in DOMAIN t /\ t[key] = val
  BY PutIs
<1> HIDE DEF t
<1>8. Funded(t)
  <2>1. Funded(s)
    BY DEF s
  <2>2. ASSUME NEW k \in DOMAIN t, k[1] = 0 PROVE Uint(t[k]) \in 1 .. MaxUint64
    <3>1. CASE k = key
      BY <1>2, <1>7, <3>1
    <3>2. CASE k # key
      BY <1>7, <2>1, <2>2, <3>2 DEF Funded, Only
    <3> QED BY <3>1, <3>2
  <2> QED BY <2>2 DEF Funded
<1>9. GetBalance(t, x) = n
  BY <1>2, <1>7 DEF GetBalance, Get, key
<1>10. ASSUME NEW y \in Accounts \ {x} PROVE GetBalance(t, y) = GetBalance(s, y)
  <2>1. BalanceKey(y) # key
    BY <1>0
  <2>2. Get(t, BalanceKey(y)) = Get(s, BalanceKey(y))
    BY <1>7, <2>1 DEF Only, Get
  <2> QED BY <2>2 DEF GetBalance
<1>11. Sets(s, t, x, n)
  BY <1>8, <1>9, <1>10 DEF Sets
<1> QED BY <1>6, <1>11 DEF s, t

\* A balance is erased, which is to set it to zero.
LEMMA ErasedIs ==
  ASSUME NEW v, NEW K, IsView(v, K), Funded(v.store), NEW x, x \in Accounts, BalanceKey(x) \in K,
         NEW w, w = Erase(v, BalanceKey(x))
  PROVE  IsView(w, K) /\ w.failed = v.failed /\ Sets(v.store, w.store, x, 0)
<1> DEFINE key == BalanceKey(x)
           s == v.store
           t == Restrict(s, DOMAIN s \ {key})
<1>1. w = Erase(v, key) /\ key \in K
  OBVIOUS
<1>2. \A y \in Accounts \ {x} : BalanceKey(y) # key
  BY BalanceKeys
<1>3. Only(s, t, {key}) /\ key \notin DOMAIN t
  BY DEF Only, Restrict
<1> HIDE DEF key, t, s
<1>4. IsView(w, K) /\ w.failed = v.failed /\ w.store = t
  <2>1. Erased(v, K, key, w)
    BY <1>1, EraseIs
  <2> QED BY <1>1, <2>1 DEF Erased, t, s
<1>5. Funded(t)
  <2>1. Funded(s)
    BY DEF s
  <2> QED BY <1>3, <2>1 DEF Funded, Only
<1>6. GetBalance(t, x) = 0
  BY <1>3, UintOfNone DEF GetBalance, Get, NotFound, key
<1>7. ASSUME NEW y \in Accounts \ {x} PROVE GetBalance(t, y) = GetBalance(s, y)
  <2>1. BalanceKey(y) # key
    BY <1>2
  <2>2. Get(t, BalanceKey(y)) = Get(s, BalanceKey(y))
    BY <1>3, <2>1 DEF Only, Get
  <2> QED BY <2>2 DEF GetBalance
<1>8. Sets(s, t, x, 0)
  BY <1>5, <1>6, <1>7 DEF Sets
<1> QED BY <1>4, <1>8 DEF s

\* SubBalance takes what there is, or fails.
LEMMA SubMoves ==
  ASSUME NEW v, NEW K, IsView(v, K), Funded(v.store), NEW x, x \in Accounts, BalanceKey(x) \in K,
         NEW amount, amount \in Nat, amount # 0, NEW w, w = SubBalance(v, x, amount), ~ w.failed
  PROVE  /\ amount <= GetBalance(v.store, x)
         /\ IsView(w, K) /\ w.failed = v.failed
         /\ Sets(v.store, w.store, x, GetBalance(v.store, x) - amount)
<1> DEFINE bal == GetBalance(v.store, x)
           rem == bal - amount
<1>1. bal \in 0 .. MaxUint64 /\ MaxUint64 \in Nat
  BY BalanceType, MaxInts
<1>2. w = CASE bal < amount -> Fail(v) [] bal = amount -> Erase(v, BalanceKey(x))
            [] bal > amount -> SetBalance(v, x, rem)
  BY DEF SubBalance
<1>3. Fail(v).failed
  BY FailIs
<1> HIDE DEF bal
<1>4. CASE bal < amount
  BY <1>1, <1>2, <1>3, <1>4
<1>5. CASE bal = amount
  <2>1. w = Erase(v, BalanceKey(x))
    BY <1>1, <1>2, <1>5
  <2>2. IsView(w, K) /\ w.failed = v.failed /\ Sets(v.store, w.store, x, 0)
    BY <2>1, ErasedIs
  <2>3. rem = 0 /\ amount <= bal
    BY <1>1, <1>5
  <2> QED BY <2>2, <2>3 DEF bal
<1>6. CASE bal > amount
  <2>1. w = SetBalance(v, x, rem)
    BY <1>1, <1>2, <1>6
  <2>2. rem \in 1 .. MaxUint64 /\ amount <= bal
    BY <1>1, <1>6
  <2> HIDE DEF rem
  <2>3. IsView(w, K) /\ w.failed = v.failed /\ Sets(v.store, w.store, x, rem)
    BY <2>1, <2>2, SetIs
  <2> QED BY <2>2, <2>3 DEF rem, bal
<1> QED BY <1>1, <1>4, <1>5, <1>6

\* AddBalance adds what fits, or fails.
LEMMA AddMoves ==
  ASSUME NEW v, NEW K, IsView(v, K), Funded(v.store), NEW x, x \in Accounts, BalanceKey(x) \in K,
         NEW amount, amount \in Nat, amount # 0, NEW w, w = AddBalance(v, x, amount), ~ w.failed
  PROVE  Sets(v.store, w.store, x, GetBalance(v.store, x) + amount)
<1> DEFINE bal == GetBalance(v.store, x)
           sum == bal + amount
<1>1. bal \in 0 .. MaxUint64 /\ MaxUint64 \in Nat
  BY BalanceType, MaxInts
<1>2. w = IF sum > MaxUint64 THEN Fail(v) ELSE SetBalance(v, x, sum)
  BY DEF AddBalance
<1>3. Fail(v).failed
  BY FailIs
<1> HIDE DEF bal
<1>4. w = SetBalance(v, x, sum) /\ sum \in 1 .. MaxUint64
  BY <1>1, <1>2, <1>3
<1> HIDE DEF sum
<1>5. IsView(w, K) /\ w.failed = v.failed /\ Sets(v.store, w.store, x, sum)
  BY <1>4, SetIs
<1> QED BY <1>5 DEF sum, bal

\* What all accounts have together.
TotalIn(s) == Sum(BalancesIn(s), Accounts)

\* One balance changes, and the total with it.
LEMMA SetsTotal ==
  ASSUME NEW s, Funded(s), NEW x, x \in Accounts, NEW n, NEW t, Sets(s, t, x, n)
  PROVE  /\ TotalIn(t) = TotalIn(s) + n - GetBalance(s, x)
         /\ TotalIn(s) \in Int /\ n \in Nat /\ GetBalance(s, x) \in Nat
<1> DEFINE w == BalancesIn(s)
           u == BalancesIn(t)
<1>1. \A y \in Accounts : GetBalance(s, y) \in 0 .. MaxUint64 /\ GetBalance(t, y) \in 0 .. MaxUint64
  BY BalanceType DEF Sets
<1>2. w \in [Accounts -> Nat] /\ u \in [Accounts -> Nat]
  BY <1>1, MaxInts DEF BalancesIn
<1>3. \A y \in Accounts \ {x} : u[y] = w[y]
  BY DEF Sets, BalancesIn
<1>4. u[x] = n /\ w[x] = GetBalance(s, x)
  BY DEF Sets, BalancesIn
<1> HIDE DEF w, u
<1>5. w \in [Accounts -> Int] /\ u \in [Accounts -> Int] /\ IsFiniteSet(Accounts)
  BY <1>2, ChainAssumption
<1>6. Sum(u, Accounts) = Sum(w, Accounts) + u[x] - w[x]
  BY <1>3, <1>5, SumUpdate
<1>7. Sum(w, Accounts) \in Nat
  BY <1>2, <1>5, SumNat
<1>8. w[x] \in Nat /\ u[x] \in Nat
  BY <1>2
<1> QED BY <1>4, <1>6, <1>7, <1>8 DEF w, u, TotalIn

\* A transfer that succeeds leaves the total as it is, to whomever it goes.
LEMMA TransferMoves ==
  ASSUME NEW v, NEW K, IsView(v, K), Funded(v.store), NEW a, a.value \in Nat, a.to \in Accounts,
         NEW actor, actor \in Accounts, BalanceKey(actor) \in K, BalanceKey(a.to) \in K,
         NEW w, w = ExecuteTransfer(v, a, actor), ~ w.failed
  PROVE  Funded(w.store) /\ TotalIn(w.store) = TotalIn(v.store)
<1> DEFINE amount == a.value
           to == a.to
           s == v.store
           u == SubBalance(v, actor, amount)
           bal == GetBalance(s, actor)
           rem == bal - amount
<1>1. w = IF amount = 0 THEN Fail(v) ELSE IF u.failed THEN u ELSE AddBalance(u, to, amount)
  BY DEF ExecuteTransfer
<1>2. amount \in Nat /\ to \in Accounts /\ BalanceKey(to) \in K /\ u = SubBalance(v, actor, amount)
  OBVIOUS
<1> HIDE DEF amount, to, u
<1>3. amount # 0 /\ ~ u.failed /\ w = AddBalance(u, to, amount)
  BY <1>1, FailIs
<1>4. amount <= bal /\ IsView(u, K) /\ Sets(s, u.store, actor, rem)
  <2>1. /\ amount <= GetBalance(v.store, actor)
        /\ IsView(u, K) /\ u.failed = v.failed
        /\ Sets(v.store, u.store, actor, GetBalance(v.store, actor) - amount)
    BY <1>2, <1>3, SubMoves
  <2> QED BY <2>1
<1> DEFINE t == u.store
           had == GetBalance(t, to)
           sum == had + amount
<1>5. Sets(t, w.store, to, sum)
  <2>1. Funded(u.store)
    BY <1>4 DEF Sets
  <2>2. Sets(u.store, w.store, to, GetBalance(u.store, to) + amount)
    BY <1>2, <1>3, <1>4, <2>1, AddMoves
  <2> QED BY <2>2
<1>6. bal \in Nat
  BY BalanceType, MaxInts
<1> HIDE DEF t, s, had, bal
<1>7. Funded(s) /\ Funded(t)
  BY <1>4 DEF Sets, s, t
<1>8. TotalIn(t) = TotalIn(s) + rem - bal /\ TotalIn(s) \in Int
  <2> DEFINE r == rem
  <2>1. Sets(s, t, actor, r) /\ bal = GetBalance(s, actor)
    BY <1>4 DEF t, bal
  <2> HIDE DEF r, rem
  <2>2. TotalIn(t) = TotalIn(s) + r - GetBalance(s, actor) /\ TotalIn(s) \in Int
    BY <1>7, <2>1, SetsTotal
  <2> QED BY <2>1, <2>2 DEF r, rem
<1>9. TotalIn(w.store) = TotalIn(t) + sum - had /\ TotalIn(t) \in Int /\ had \in Nat
  <2> DEFINE r == sum
             z == w.store
  <2>1. Sets(t, z, to, r) /\ had = GetBalance(t, to)
    BY <1>5 DEF had
  <2> HIDE DEF r, z
  <2>2. TotalIn(z) = TotalIn(t) + r - GetBalance(t, to) /\ TotalIn(t) \in Int /\ GetBalance(t, to) \in Nat
    BY <1>2, <1>7, <2>1, SetsTotal
  <2> QED BY <2>1, <2>2 DEF r, z
<1>10. Funded(w.store)
  BY <1>5 DEF Sets
<1> DEFINE T == TotalIn(w.store)
           T1 == TotalIn(t)
           T0 == TotalIn(s)
<1>11. T = T0
  <2> HIDE DEF T, T1, T0
  <2>1. T1 = T0 + rem - bal /\ T0 \in Int
    BY <1>8 DEF T1, T0
  <2>2. T = T1 + sum - had /\ T1 \in Int /\ had \in Nat
    BY <1>9 DEF T, T1
  <2> QED BY <1>2, <1>6, <2>1, <2>2
<1> QED BY <1>10, <1>11 DEF s

\* All balances on record are positive, and add up to what genesis gave out.
BalancesInv == Funded(store) /\ TotalIn(store) = Supply * Cardinality(Accounts)

\* Genesis gives the same to every account.
LEMMA GenesisBalances == Init => BalancesInv
<1> SUFFICES ASSUME Init PROVE BalancesInv
  OBVIOUS
<1> DEFINE val == BigEndian(Supply, Uint64Len)
           D == {BalanceKey(a) : a \in Accounts}
           w == [x \in Accounts |-> Supply]
<1>1. store = [k \in D |-> val]
  BY DEF Init
<1>2. Supply \in 1 .. MaxUint64 /\ Uint(val) = Supply /\ IsFiniteSet(Accounts) /\ Supply \in Nat
  <2>1. Supply \in 0 .. MaxUint64 /\ Supply \in 1 .. MaxUint64 /\ Supply \in Nat
    BY ChainAssumption, MaxInts
  <2> QED BY <2>1, IntegerIs, ChainAssumption
<1> HIDE DEF val
<1>3. Funded(store)
  BY <1>1, <1>2 DEF Funded
<1>4. ASSUME NEW x \in Accounts PROVE GetBalance(store, x) = Supply
  <2>1. BalanceKey(x) \in D
    OBVIOUS
  <2> QED BY <1>1, <1>2, <2>1 DEF GetBalance, Get
<1>5. BalancesIn(store) = w
  BY <1>4 DEF BalancesIn
<1>6. Sum(w, Accounts) = Supply * Cardinality(Accounts)
  BY <1>2, SumConstant
<1> HIDE DEF w
<1>7. TotalIn(store) = Sum(w, Accounts)
  BY <1>5 DEF TotalIn
<1> QED BY <1>3, <1>6, <1>7 DEF BalancesInv

\* Whatever the chain executes, the balances keep adding up.
LEMMA ProcessKeepsBalances ==
  ASSUME BalancesInv, NEW n, NEW tx, NEW w, Processes(n, tx, w), tx.action.type = TransferID => tx.action.to \in Accounts,
         ~ w.failed
  PROVE  Funded(w.store) /\ TotalIn(w.store) = TotalIn(store)
<1> DEFINE a == tx.action
           actor == Address(tx.auth)
           id == TxID(n)
           L == Written(a, actor, id)
<1>1. IsAction(a) /\ actor \in Accounts /\ id \in IDs /\ Only(store, w.store, L)
  BY DEF Processes, IsTx, Effect
<1>2. PICK o : w = Execute(a, actor, id, o)
  BY DEF Processes
<1>3. a.type = TransferID => a.to \in Accounts
  OBVIOUS
<1>4. Funded(store)
  BY DEF BalancesInv
<1> HIDE DEF a, actor, id
<1>5. CASE a.type # TransferID
  <2>1. \A k : k \in Written(a, actor, id) => k[1] # 0
    BY <1>1, <1>5, WrittenHeads
  <2> DEFINE t == w.store
  <2>2. Only(store, t, L) /\ \A k \in L : k[1] # 0
    BY <1>1, <2>1
  <2> HIDE DEF L, t
  <2>3. Funded(t) /\ BalancesIn(t) = BalancesIn(store)
    BY <1>4, <2>2, BalancesSame
  <2> QED BY <2>3 DEF TotalIn, t
<1>6. CASE a.type = TransferID
  <2>1. ~ IsVerify(a)
    BY <1>1, <1>6, FieldTypes DEF TransferID
  <2> DEFINE K == StateKeys(a, actor, id)
             v == View(store, K)
  <2>2. w = ExecuteTransfer(v, a, actor) /\ K = {BalanceKey(actor), BalanceKey(a.to)}
    BY <1>2, <1>6, <2>1 DEF Execute, StateKeys, TransferID, RegisterID, RegisterImageID, ValidatorVoteID
  <2>3. IsView(v, K) /\ v.store = store
    BY ViewIs
  <2> HIDE DEF v, K
  <2>4. BalanceKey(actor) \in K /\ BalanceKey(a.to) \in K
    BY <2>2
  <2>5. a.value \in Nat
    BY <1>1, <1>6, FieldTypes, MaxInts
  <2>6. Funded(v.store)
    BY <1>4, <2>3
  <2>7. Funded(w.store) /\ TotalIn(w.store) = TotalIn(v.store)
    BY <1>1, <1>3, <1>6, <2>2, <2>3, <2>4, <2>5, <2>6, TransferMoves
  <2> QED BY <2>3, <2>7
<1> QED BY <1>5, <1>6

\* No transaction and no block makes or loses a balance.
LEMMA BalancesInductive == ChainInv /\ BalancesInv /\ [Next]_vars => BalancesInv'
<1> SUFFICES ASSUME ChainInv, BalancesInv, [Next]_vars PROVE BalancesInv'
  OBVIOUS
<1>1. ASSUME NEW n \in DOMAIN sent, NEW outcome \in Outcomes, Process(n, outcome)
      PROVE  BalancesInv'
  <2>1. RoundTrip /\ Sound(store) /\ now \in Nat
    BY SentRoundTrips DEF StoreInv, ChainInv
  <2>2. PICK tx, w : Processes(n, tx, w)
    BY <1>1, <2>1, ProcessIs DEF ChainInv
  <2>3. tx \in AllRequests /\ (store' = IF ~ w.failed THEN w.store ELSE store)
    BY <2>2 DEF Processes
  <2>4. tx.action.type = TransferID => tx.action.to \in Accounts
    BY <2>3, RequestAssumption DEF AllRequests
  <2>5. CASE w.failed
    <3>1. store' = store
      BY <2>3, <2>5
    <3> QED BY <3>1 DEF BalancesInv
  <2>6. CASE ~ w.failed
    <3>1. store' = w.store
      BY <2>3, <2>6
    <3>2. Funded(w.store) /\ TotalIn(w.store) = TotalIn(store)
      BY <2>2, <2>4, <2>6, ProcessKeepsBalances
    <3> QED BY <3>1, <3>2 DEF BalancesInv
  <2> QED BY <2>5, <2>6
<1>2. CASE Block
  <2>1. Only(store, store', BlockKeys)
    BY <1>2, BlockIs DEF ChainInv, StoreInv
  <2>2. \A k \in BlockKeys : k[1] # 0
    BY KeysAre
  <2> DEFINE L == BlockKeys
  <2> HIDE DEF L
  <2>3. Funded(store') /\ BalancesIn(store') = BalancesIn(store)
    <3>1. Funded(store) /\ Only(store, store', L) /\ \A k \in L : k[1] # 0
      BY <2>1, <2>2 DEF BalancesInv, L
    <3> QED BY <3>1, BalancesSame
  <2> QED BY <2>3 DEF BalancesInv, TotalIn
<1>3. CASE UNCHANGED store
  BY <1>3 DEF BalancesInv
<1> QED BY <1>1, <1>2, <1>3 DEF Next, vars, Send, Accepted, records

\* The sum of the answers of Balance is the total of the records.
LEMMA AnswersAreRecords == MapThenSumSet(Balance, Accounts) = TotalIn(store)
<1> DEFINE w == BalancesIn(store)
           P(h) == h = [s \in SUBSET Accounts |->
                          IF s = {} THEN 0 ELSE Balance(Pick(s)) + h[s \ {Pick(s)}]]
<1>1. \A x \in Accounts : Balance(x) = w[x]
  BY DEF Balance, BalancesIn
<1>2. ASSUME NEW s \in SUBSET Accounts, s # {} PROVE Balance(Pick(s)) = w[Pick(s)]
  BY <1>1, <1>2, PickIn
<1>3. \A h : P(h) <=> IsSum(h, w, Accounts)
  <2> HIDE DEF w
  <2> QED BY <1>2 DEF IsSum
<1>4. MapThenSumSet(Balance, Accounts) = (CHOOSE h : P(h))[Accounts]
  BY DEF MapThenSumSet, MapThenFoldSet, Pick
<1>5. Sum(w, Accounts) = (CHOOSE h : IsSum(h, w, Accounts))[Accounts]
  BY DEF Sum, MapThenSumSet, MapThenFoldSet, IsSum, Pick
<1>6. (CHOOSE h : P(h)) = (CHOOSE h : IsSum(h, w, Accounts))
  <2> HIDE DEF P, w
  <2> QED BY <1>3
<1> QED BY <1>4, <1>5, <1>6 DEF TotalIn

\* Transfers move value between records of their own, and nothing else writes to a
\* balance: the answers of Balance add up to what genesis gave out.
THEOREM TxBalancesAddUp == Spec => []BalancesAddUp
<1>1. BalancesInv => BalancesAddUp
  BY AnswersAreRecords DEF BalancesInv, BalancesAddUp
<1> QED BY <1>1, ChainInductive, GenesisBalances, BalancesInductive, PTL DEF Spec

-----------------------------------------------------------------------------
(* Results and the index                                                   *)

\* The numbers of the transactions executed.
Numbers(s) == {s[i].n : i \in DOMAIN s}

\* Each was sent, and is executed once.
NumbersInv ==
  /\ IsFiniteSet(Numbers(executed)) /\ Cardinality(Numbers(executed)) = Len(executed)
  /\ Numbers(executed) \subseteq DOMAIN Requests
  /\ \A i, j \in DOMAIN executed : executed[i].n = executed[j].n => i = j

\* The rows of the index are those of the transactions asked about.
Row(e) == TxKey(TxID(e.n))

IndexInv ==
  /\ IsFiniteSet(DOMAIN db) /\ Cardinality(DOMAIN db) = Len(asked)
  /\ DOMAIN db = {Row(executed[i]) : i \in DOMAIN asked}

\* Requests are numbered from 1 on.
LEMMA RequestNumbers == DOMAIN Requests \subseteq 1 .. Pow[IDLen] - 1
<1> DEFINE R == SUBSET AllRequests
           P == Pow[IDLen]
<1>1. Requests \in Seq(R) /\ Len(Requests) < P
  BY RequestAssumption DEF AllRequests
<1>2. P \in Nat
  BY PowNat, Widths
<1> HIDE DEF R, P
<1>3. DOMAIN Requests = 1 .. Len(Requests) /\ Len(Requests) \in Nat
  BY <1>1
<1>4. DOMAIN Requests \subseteq 1 .. P - 1
  BY <1>1, <1>2, <1>3
<1> QED BY <1>4 DEF P

\* No two of them have one id, or one row.
LEMMA RowsDiffer ==
  ASSUME NEW m, m \in DOMAIN Requests, NEW n, n \in DOMAIN Requests, TxKey(TxID(m)) = TxKey(TxID(n))
  PROVE  m = n
<1>1. m \in 0 .. Pow[IDLen] - 1 /\ n \in 0 .. Pow[IDLen] - 1 /\ m \in Nat /\ n \in Nat /\ IDLen \in Nat
  BY RequestNumbers, Widths
<1>2. ASSUME NEW k, k \in Nat
      PROVE  TxID(k) \in Seq(Nat) /\ SubSeq(TxKey(TxID(k)), 2, 1 + IDLen) = TxID(k)
  <2> DEFINE x == <<0>>
             e == <<>>
             id == TxID(k)
             y == x \o id
             S == Nat
  <2>1. x \in Seq(S) /\ Len(x) = 1 /\ e \in Seq(S)
    BY OneNat
  <2>2. id \in Seq(S) /\ Len(id) = IDLen
    <3>1. id \in IDs
      BY <1>2, TxIDsAre
    <3>2. id \in Seq(Byte) /\ Len(id) = IDLen
      BY <3>1, ArraysAreBytes
    <3> QED BY <3>2, BytesAreNats
  <2>3. TxKey(id) = y
    BY DEF TxKey, txPrefix
  <2> HIDE DEF x, id, e, S
  <2>4. y \in Seq(S)
    BY <2>1, <2>2, ConcatProperties
  <2> HIDE DEF y
  <2>5. y \o <<>> = y
    BY <2>4, ConcatEmptySeq
  <2>6. TxKey(id) = Cat3(x, id, e)
    BY <2>3, <2>5 DEF Cat3, y, e
  <2>7. SubSeq(Cat3(x, id, e), Len(x) + 1, Len(x) + Len(id)) = id
    <3>1. x \in Seq(S) /\ id \in Seq(S) /\ e \in Seq(S)
      BY <2>1, <2>2
    <3> QED BY <3>1, Middle
  <2>8. Len(x) + 1 = 2 /\ Len(x) + Len(id) = 1 + IDLen
    BY <2>1, <2>2
  <2> QED BY <2>2, <2>6, <2>7, <2>8 DEF id, S
<1>3. TxID(m) = TxID(n)
  BY <1>1, <1>2
<1>4. Uint(TxID(m)) = m /\ Uint(TxID(n)) = n
  BY <1>1, UintOfBigEndian DEF TxID
<1> QED BY <1>3, <1>4

\* Each transaction is executed once.
LEMMA NumbersInductive ==
  /\ Init => NumbersInv
  /\ ChainInv /\ ResultsInv /\ NumbersInv /\ [Next]_vars => NumbersInv'
<1>1. Init => NumbersInv
  <2> SUFFICES ASSUME Init PROVE NumbersInv
    OBVIOUS
  <2>1. executed = <<>> /\ Len(executed) = 0 /\ DOMAIN executed = {}
    BY DEF Init
  <2>2. Numbers(executed) = {}
    BY <2>1 DEF Numbers
  <2> QED BY <2>1, <2>2, FS_EmptySet DEF NumbersInv
<1>2. ASSUME ChainInv, ResultsInv, NumbersInv, [Next]_vars PROVE NumbersInv'
  <2>1. ASSUME NEW n \in DOMAIN sent, NEW outcome \in Outcomes, Process(n, outcome)
        PROVE  NumbersInv'
    <3>1. PICK tx, w : Processes(n, tx, w)
                       /\ Grown(executed, Result(n, tx, now, ~ w.failed), executed', Results)
      BY <1>2, <2>1, ProcessAdds DEF ResultsInv
    <3> DEFINE e == Result(n, tx, now, ~ w.failed)
    <3>2. e.n = n /\ n \in DOMAIN Requests
      BY <3>1, ResultIs DEF Processes
    <3>3. \A i \in DOMAIN executed : executed[i].n # n
      BY <2>1 DEF Process, Processed
    <3> HIDE DEF e
    <3>4. Grown(executed, e, executed', Results)
      BY <3>1 DEF e
    <3>5. Numbers(executed') = Numbers(executed) \cup {n}
      <4>1. ASSUME NEW x \in Numbers(executed') PROVE x \in Numbers(executed) \cup {n}
        <5>1. PICK i \in DOMAIN executed' : x = executed'[i].n
          BY <4>1 DEF Numbers
        <5>2. CASE i \in DOMAIN executed
          BY <3>4, <5>1, <5>2 DEF Grown, Numbers
        <5>3. CASE i = Len(executed')
          BY <3>2, <3>4, <5>1, <5>3 DEF Grown
        <5> QED BY <3>4, <5>2, <5>3 DEF Grown
      <4>2. ASSUME NEW x \in Numbers(executed) PROVE x \in Numbers(executed')
        <5>1. PICK i \in DOMAIN executed : x = executed[i].n
          BY <4>2 DEF Numbers
        <5> QED BY <3>4, <5>1 DEF Grown, Numbers
      <4>3. n \in Numbers(executed')
        <5>1. Len(executed') \in DOMAIN executed'
          BY <3>4 DEF Grown
        <5> QED BY <3>2, <3>4, <5>1 DEF Grown, Numbers
      <4> QED BY <4>1, <4>2, <4>3
    <3>6. n \notin Numbers(executed)
      BY <3>3 DEF Numbers
    <3> DEFINE N == Numbers(executed)
               M == Numbers(executed')
    <3>7. IsFiniteSet(M) /\ Cardinality(M) = Cardinality(N) + 1
      <4>1. IsFiniteSet(N) /\ M = N \cup {n} /\ n \notin N
        BY <1>2, <3>5, <3>6 DEF NumbersInv
      <4> HIDE DEF N, M
      <4> QED BY <4>1, FS_AddElement
    <3>8. Cardinality(M) = Len(executed')
      <4> HIDE DEF M
      <4> QED BY <1>2, <3>4, <3>7 DEF NumbersInv, Grown
    <3>9. M \subseteq DOMAIN Requests
      BY <1>2, <3>2, <3>5 DEF NumbersInv
    <3>10. ASSUME NEW i \in DOMAIN executed', NEW j \in DOMAIN executed',
                  executed'[i].n = executed'[j].n
           PROVE  i = j
      <4>1. \A k \in DOMAIN executed : executed'[k] = executed[k]
        BY <3>4 DEF Grown
      <4>2. executed'[Len(executed')].n = n
        BY <3>2, <3>4 DEF Grown
      <4>3. \A k \in DOMAIN executed' : k \in DOMAIN executed \/ k = Len(executed')
        BY <3>4 DEF Grown
      <4>4. CASE i \in DOMAIN executed /\ j \in DOMAIN executed
        BY <1>2, <3>10, <4>1, <4>4 DEF NumbersInv
      <4> QED BY <3>3, <3>10, <4>1, <4>2, <4>3, <4>4
    <3> QED BY <3>7, <3>8, <3>9, <3>10 DEF NumbersInv
  <2>2. CASE UNCHANGED executed
    BY <1>2, <2>2 DEF NumbersInv, Numbers
  <2> QED BY <1>2, <2>1, <2>2 DEF Next, vars, Send, Block, Accepted, records
<1> QED BY <1>1, <1>2

\* Accepted writes a row of its own for each.
LEMMA IndexInductive ==
  /\ Init => IndexInv
  /\ ChainInv /\ ResultsInv /\ NumbersInv /\ AskedInv /\ IndexInv /\ [Next]_vars => IndexInv'
<1>1. Init => IndexInv
  <2> SUFFICES ASSUME Init PROVE IndexInv
    OBVIOUS
  <2>1. DOMAIN db = {} /\ asked = <<>> /\ Len(asked) = 0 /\ DOMAIN asked = {}
    BY DEF Init
  <2> QED BY <2>1, FS_EmptySet DEF IndexInv
<1>2. ASSUME ChainInv, ResultsInv, NumbersInv, AskedInv, IndexInv, [Next]_vars PROVE IndexInv'
  <2>0. /\ Len(asked) \in Nat /\ DOMAIN asked = 1 .. Len(asked) /\ Len(executed) \in Nat
        /\ DOMAIN executed = 1 .. Len(executed) /\ Len(asked) <= Len(executed)
    <3> DEFINE S == {Files(r.action) : r \in AllRequests}
               R == Results
    <3>1. asked \in Seq(S) /\ executed \in Seq(R) /\ Len(asked) <= Len(executed)
      BY <1>2 DEF AskedInv, ResultsInv
    <3> HIDE DEF S, R
    <3> QED BY <3>1
  <2>1. ASSUME NEW n \in DOMAIN sent, NEW outcome \in Outcomes, Process(n, outcome)
        PROVE  IndexInv'
    <3>1. PICK tx, w : Processes(n, tx, w)
                       /\ Grown(executed, Result(n, tx, now, ~ w.failed), executed', Results)
      BY <1>2, <2>1, ProcessAdds DEF ResultsInv
    <3> DEFINE e == Result(n, tx, now, ~ w.failed)
    <3>2. asked' = asked /\ db' = db
      BY <3>1 DEF Processes
    <3> HIDE DEF e
    <3>3. Grown(executed, e, executed', Results)
      BY <3>1 DEF e
    <3>4. \A i \in DOMAIN asked : executed'[i] = executed[i]
      BY <2>0, <3>3 DEF Grown
    <3>5. {Row(executed'[i]) : i \in DOMAIN asked} = {Row(executed[i]) : i \in DOMAIN asked}
      BY <3>4
    <3> QED BY <1>2, <3>2, <3>5 DEF IndexInv, Row, TxKey, TxID
  <2>2. CASE Accepted
    <3> DEFINE j == Len(asked) + 1
               e == executed[j]
               k == Row(e)
               D == DOMAIN db
    <3>1. /\ Len(asked) < Len(executed) /\ asked' = Append(asked, Files(e.tx.action))
          /\ executed' = executed
      BY <2>2 DEF Accepted, records
    <3>2. DOMAIN db' = D \cup {k}
      BY <2>2 DEF Accepted, StoreTransaction, Put, Row
    <3>3. Len(asked') = j /\ DOMAIN asked' = 1 .. j /\ j \in DOMAIN executed
      <4> DEFINE S == {Files(r.action) : r \in AllRequests}
      <4>1. asked \in Seq(S)
        BY <1>2 DEF AskedInv
      <4> HIDE DEF S
      <4> QED BY <2>0, <3>1, <4>1
    <3>4. k \notin D
      <4> SUFFICES ASSUME k \in D PROVE FALSE
        OBVIOUS
      <4>1. PICK i \in DOMAIN asked : k = Row(executed[i])
        BY <1>2 DEF IndexInv
      <4>2. i \in DOMAIN executed
        BY <2>0
      <4>3. executed[i].n \in DOMAIN Requests /\ e.n \in DOMAIN Requests
        BY <1>2, <3>3, <4>2 DEF NumbersInv, Numbers
      <4>4. executed[i].n = e.n
        <5> DEFINE a == executed[i].n
                   b == e.n
        <5>1. TxKey(TxID(a)) = TxKey(TxID(b)) /\ a \in DOMAIN Requests /\ b \in DOMAIN Requests
          BY <4>1, <4>3 DEF Row
        <5> HIDE DEF a, b
        <5>2. a = b
          BY <5>1, RowsDiffer
        <5> QED BY <5>2 DEF a, b
      <4>5. i = j
        BY <1>2, <3>3, <4>2, <4>4 DEF NumbersInv
      <4> QED BY <2>0, <4>5
    <3>5. IsFiniteSet(DOMAIN db') /\ Cardinality(DOMAIN db') = Cardinality(D) + 1
      <4>1. IsFiniteSet(D)
        BY <1>2 DEF IndexInv
      <4> HIDE DEF D, k
      <4> QED BY <3>2, <3>4, <4>1, FS_AddElement
    <3>6. DOMAIN db' = {Row(executed[i]) : i \in 1 .. j}
      <4>1. D = {Row(executed[i]) : i \in 1 .. Len(asked)}
        BY <1>2, <2>0 DEF IndexInv
      <4>2. 1 .. j = 1 .. Len(asked) \cup {j}
        BY <2>0
      <4> HIDE DEF D, j
      <4>3. k = Row(executed[j])
        OBVIOUS
      <4> HIDE DEF k
      <4> QED BY <3>2, <4>1, <4>2, <4>3
    <3>7. Cardinality(DOMAIN db') = Len(asked')
      BY <1>2, <3>3, <3>5 DEF IndexInv
    <3> QED BY <3>1, <3>3, <3>5, <3>6, <3>7 DEF IndexInv, Row, TxKey, TxID
  <2>3. CASE UNCHANGED <<executed, asked, db>>
    BY <1>2, <2>3 DEF IndexInv, Row, TxKey, TxID
  <2> QED BY <1>2, <2>1, <2>2, <2>3 DEF Next, vars, Send, Block, records
<1> QED BY <1>1, <1>2

\* Records fit their keys and no balance is zero; each transaction has one result, and
\* each that was accepted has one row.
THEOREM TxTypes == Spec => []TypeOK
<1>1. Init => now \in Times
  BY ChainAssumption DEF Init
<1>2. now \in Times /\ [Next]_vars => (now \in Times)'
  BY DEF Next, vars, Send, Process, Block, Accepted
<1>3. /\ now \in Times /\ ChainInv /\ BalancesInv /\ ResultsInv /\ NumbersInv
      /\ AskedInv /\ IndexInv
      => TypeOK
  <2> SUFFICES ASSUME now \in Times, ChainInv, BalancesInv, NumbersInv, AskedInv, IndexInv
               PROVE  TypeOK
    OBVIOUS
  <2>1. \A n \in DOMAIN sent : sent[n].request \in Requests[n]
    BY DEF ChainInv, SentAt
  <2>2. \A k \in DOMAIN store : Allowed(k, store[k])
    BY DEF ChainInv, StoreInv, Sound
  <2>3. \A k \in DOMAIN store : k[1] = balancePrefix => Uint(store[k]) # 0
    BY DEF BalancesInv, Funded, balancePrefix
  <2>4. Cardinality({executed[i].n : i \in DOMAIN executed}) = Len(executed)
    BY DEF NumbersInv, Numbers
  <2>5. Len(asked) = Cardinality(DOMAIN db) /\ Len(asked) <= Len(executed)
    BY DEF IndexInv, AskedInv
  <2> QED BY <2>1, <2>2, <2>3, <2>4, <2>5 DEF TypeOK
<1> QED BY <1>1, <1>2, <1>3, ChainInductive, GenesisBalances, BalancesInductive,
           ResultsInductive, NumbersInductive, AskedInductive, IndexInductive, PTL DEF Spec

-----------------------------------------------------------------------------
(* Size                                                                    *)

\* The bytes of a field beyond those that its value is counted with: all of them for
\* a field of a fixed width, and the prefix of one that has a length.
Overhead(kind) ==
  CASE kind = "id" -> IDLen [] kind = "address" -> AddressLen [] kind = "uint64" -> Uint64Len
    [] kind = "bool" -> BoolLen [] kind = "string" -> Uint16Len [] kind = "bytes" -> IntLen

Sized(kind) == kind \in {"string", "bytes"}

\* What is packed has the bytes of the value, if it has a length, and the overhead.
LEMMA PackedLen ==
  ASSUME NEW g, g.kind \in Kinds, NEW v, v \in TypeOf(g.kind)
  PROVE  /\ Overhead(g.kind) \in Nat
         /\ Sized(g.kind) => Len(v) \in Nat
         /\ Len(Pack(g, v)) = Overhead(g.kind) + (IF Sized(g.kind) THEN Len(v) ELSE 0)
<1> DEFINE Goal(p, x) ==
             /\ Overhead(g.kind) = x
             /\ Len(p) = x + (IF Sized(g.kind) THEN Len(v) ELSE 0)
<1>1. CASE g.kind \in {"id", "address"}
  <2> DEFINE n == IF g.kind = "id" THEN IDLen ELSE AddressLen
  <2>1. n \in Nat /\ v \in [1 .. n -> Byte] /\ Pack(g, v) = v /\ Overhead(g.kind) = n
    BY <1>1, Widths DEF TypeOf, Pack, Overhead
  <2>2. ~ Sized(g.kind)
    BY <1>1 DEF Sized
  <2>3. Len(v) = n
    <3> HIDE DEF n
    <3> QED BY <2>1, ArrayIsSeq
  <2> QED BY <2>1, <2>2, <2>3
<1>2. CASE g.kind = "uint64"
  <2>1. v \in Nat /\ Pack(g, v) = BigEndian(v, Uint64Len) /\ Overhead(g.kind) = Uint64Len
    <3>1. v \in 0 .. MaxUint64 /\ MaxUint64 \in Int
      BY <1>2, PowNat, Widths DEF TypeOf, MaxUint64
    <3>2. Pack(g, v) = BigEndian(v, Uint64Len) /\ Overhead(g.kind) = Uint64Len
      BY <1>2 DEF Pack, Overhead
    <3> QED BY <3>1, <3>2
  <2>2. Len(BigEndian(v, Uint64Len)) = Uint64Len /\ Uint64Len \in Nat
    BY <2>1, BigEndianBytes, Widths
  <2>3. ~ Sized(g.kind)
    BY <1>2 DEF Sized
  <2> QED BY <2>1, <2>2, <2>3
<1>3. CASE g.kind = "bool"
  <2>1. Pack(g, v) = (IF v THEN <<1>> ELSE <<0>>) /\ Overhead(g.kind) = 1 /\ v \in BOOLEAN
    BY <1>3 DEF Pack, Overhead, TypeOf, BoolLen
  <2>2. Len(IF v THEN <<1>> ELSE <<0>>) = 1
    <3>1. CASE v
      BY <3>1
    <3>2. CASE ~v
      BY <3>2
    <3> QED BY <3>1, <3>2
  <2>3. ~ Sized(g.kind)
    BY <1>3 DEF Sized
  <2> QED BY <2>1, <2>2, <2>3
<1>4. CASE g.kind \in {"string", "bytes"}
  <2> DEFINE n == IF g.kind = "string" THEN Uint16Len ELSE IntLen
             y == BigEndian(Len(v), n)
  <2>1. v \in Seq(Byte) /\ n \in Nat /\ Pack(g, v) = y \o v /\ Overhead(g.kind) = n
    BY <1>4, Widths DEF TypeOf, Pack, Overhead
  <2>2. Len(v) \in Nat
    BY <2>1
  <2>3. y \in Seq(Byte) /\ Len(y) = n
    <3> HIDE DEF n
    <3> QED BY <2>1, <2>2, BigEndianBytes
  <2>4. Len(y \o v) = n + Len(v)
    <3> HIDE DEF y, n
    <3> QED BY <2>1, <2>3, CatShifts
  <2>5. Sized(g.kind)
    BY <1>4 DEF Sized
  <2> HIDE DEF y, n
  <2> QED BY <2>1, <2>2, <2>4, <2>5
<1> QED BY <1>1, <1>2, <1>3, <1>4 DEF Kinds

\* The size after each field, and at the end.
Grew(s, a, c, n, end) ==
  /\ s[0] = c.size /\ s[n] = end
  /\ \A k \in 1 .. n :
       s[k] = s[k - 1] + (IF c.marshal[k].name \in c.lens THEN Len(a[c.marshal[k].name]) ELSE 0)

\* Size adds the lengths of some fields, one after the other.
LEMMA SizeRuns ==
  ASSUME NEW a, NEW n, n \in Nat, NEW c, c = Codec(a.type), NEW q, q = c.marshal,
         DOMAIN q = 1 .. n, q = [i \in 1 .. n |-> q[i]], c.size \in Nat,
         \A i \in 1 .. n : q[i].name \in c.lens => Len(a[q[i].name]) \in Nat,
         NEW end, end = Size(a)
  PROVE  \E s : s \in [0 .. n -> Nat] /\ Grew(s, a, c, n, end)
<1> DEFINE S == 1 .. n
           W == Nat
           E == {q[i] : i \in S}
           base == c.size
           Added(m, e) == IF e.name \in c.lens THEN m + Len(a[e.name]) ELSE m
           f == [p \in W \X E |-> Added(p[1], p[2])]
           Step(g, D) == IF D = {} THEN base ELSE Added(g[D \ {Max(D)}], q[Max(D)])
           Is(g) == g = [D \in SUBSET S |-> Step(g, D)]
           G == CHOOSE x : Is(x)
           Solution(d) ==
             CHOOSE x : x = [D \in SUBSET DOMAIN d |->
                               IF D = {} THEN c.size
                               ELSE Added(x[D \ {Max(D)}], d[Max(D)])]
<1>0. \A e \in E : e.name \in c.lens => Len(a[e.name]) \in Nat
  OBVIOUS
<1>1. f \in [W \X E -> W]
  <2>1. ASSUME NEW p \in W \X E PROVE Added(p[1], p[2]) \in W
    <3>1. p[1] \in Nat /\ p[2] \in E
      OBVIOUS
    <3> HIDE DEF E
    <3> QED BY <1>0, <3>1
  <2> HIDE DEF Added, E
  <2> QED BY <2>1
<1>2. q \in [S -> E] /\ base \in W
  OBVIOUS
<1>3. \A s \in W, e \in E : f[<<s, e>>] = Added(s, e)
  <2> HIDE DEF Added, E
  <2> QED OBVIOUS
<1>4. \E x : Is(x)
  <2>1. PICK g : g \in [SUBSET S -> W] /\ IsFold(g, f, base, q)
    <3> HIDE DEF f, W, E, base
    <3> QED BY <1>1, <1>2, FoldExists
  <2>2. \A D \in SUBSET S : g[D] = FoldStep(g, f, base, q, D)
    BY <2>1 DEF IsFold
  <2> HIDE DEF f, W, E, base, Added
  <2>3. ASSUME NEW D \in SUBSET S PROVE g[D] = Step(g, D)
    <3>1. CASE D = {}
      BY <2>2, <3>1 DEF FoldStep
    <3>2. CASE D # {}
      <4>1. Max(D) \in D
        BY <3>2, MaxIn
      <4>2. q[Max(D)] \in E /\ g[D \ {Max(D)}] \in W
        BY <1>2, <2>1, <4>1
      <4>3. g[D] = f[<<g[D \ {Max(D)}], q[Max(D)]>>]
        BY <2>2, <3>2 DEF FoldStep
      <4> QED BY <1>3, <3>2, <4>2, <4>3
    <3> QED BY <3>1, <3>2
  <2>4. Is(g)
    <3> HIDE DEF Step
    <3> QED BY <2>1, <2>3
  <2> HIDE DEF Is
  <2> QED BY <2>4
<1>5. Is(G)
  <2> HIDE DEF Is
  <2> QED BY <1>4
<1>6. Size(a) = G[S]
  <2>1. Size(a) = Solution(Codec(a.type).marshal)[DOMAIN Codec(a.type).marshal]
    BY DEF Size, FoldLeft, MapThenFoldSet
  <2>2. Solution(q) = G
    OBVIOUS
  <2> HIDE DEF Solution, G
  <2> QED BY <2>1, <2>2
<1>7. G[{}] = base
  <2> HIDE DEF G, base, Added
  <2> QED BY <1>5
<1>8. ASSUME NEW D \in SUBSET S, D # {}, G[D \ {Max(D)}] \in W
      PROVE  G[D] = f[<<G[D \ {Max(D)}], q[Max(D)]>>]
  <2> HIDE DEF G, f, W, E, base, Added
  <2>1. Max(D) \in D
    BY <1>8, MaxIn
  <2>2. q[Max(D)] \in E
    BY <1>2, <2>1
  <2>3. G[D] = Added(G[D \ {Max(D)}], q[Max(D)])
    BY <1>5, <1>8
  <2> QED BY <1>3, <1>8, <2>2, <2>3
<1> HIDE DEF G, f, W, E, Is, base
<1>9. PICK h : h \in [0 .. n -> W] /\ Runs(h, f, base, q, n, G[1 .. n])
  <2>1. base \in W /\ Backward(G, f, base, q, n, W)
    BY <1>2, <1>7, <1>8 DEF Backward
  <2> HIDE DEF Added
  <2> QED BY <1>1, <1>2, <2>1, FoldRuns
<1>10. ASSUME NEW k \in 1 .. n
       PROVE  h[k] = h[k - 1] + (IF q[k].name \in c.lens THEN Len(a[q[k].name]) ELSE 0)
  <2>1. h[k - 1] \in W /\ q[k] \in E
    <3>1. k - 1 \in 0 .. n
      OBVIOUS
    <3> QED BY <1>2, <1>9, <3>1
  <2>2. h[k] = f[<<h[k - 1], q[k]>>]
    BY <1>9 DEF Runs
  <2>3. h[k] = Added(h[k - 1], q[k])
    <3> HIDE DEF Added
    <3> QED BY <1>3, <2>1, <2>2
  <2> QED BY <2>1, <2>3 DEF W
<1>11. Grew(h, a, c, n, end)
  <2>1. h[0] = c.size /\ h[n] = end
    BY <1>6, <1>9 DEF Runs, base
  <2>2. \A k \in 1 .. n :
          h[k] = h[k - 1] + (IF c.marshal[k].name \in c.lens THEN Len(a[c.marshal[k].name]) ELSE 0)
    BY <1>10
  <2> QED BY <2>1, <2>2 DEF Grew
<1> QED BY <1>9, <1>11 DEF W

\* The format c has n fields, and its size counts the lengths of those that have one.
Lengths(c, n) ==
  /\ c.size \in Nat
  /\ \A i \in 1 .. n : c.marshal[i].name \in c.lens <=> Sized(c.marshal[i].kind)

\* What the fields have beyond Size, after each of them.
Exceeds(d, c, n, end) ==
  /\ d[0] = 0 - c.size /\ d[n] = end
  /\ \A k \in 1 .. n : d[k] = d[k - 1] + Overhead(c.marshal[k].kind)

\* The fields of an action that Marshal does not refuse fill its format.
LEMMA FieldsFill ==
  ASSUME NEW a, NEW c, IsOf(a, c), ~ MarshalFails(a), NEW n, n \in Nat, Sides(c, n)
  PROVE  Fills(a, c.marshal, n)
<1>1. c \in ActionRegistry /\ a.type = c.type
  BY DEF IsOf
<1>2. Codec(a.type) = c
  BY <1>1, CodecOfType
<1>3. \A i \in 1 .. n : Same(c.marshal[i], c.unmarshal[i])
                        /\ a[c.marshal[i].name] \in TypeOf(c.marshal[i].kind)
  BY DEF Sides, IsOf
<1>4. \A i \in 1 .. n : Packable(c.marshal[i], a[c.marshal[i].name])
  BY <1>2 DEF MarshalFails, Sides
<1> QED BY <1>3, <1>4 DEF Fills, Same, Described

\* The bytes that Marshal writes and those that Size counts, field by field.
LEMMA ExcessRuns ==
  ASSUME NEW a, NEW c, IsOf(a, c), ~ MarshalFails(a), NEW n, n \in Nat, Sides(c, n),
         Lengths(c, n)
  PROVE  /\ Len(MarshalAction(a)) \in Nat /\ Size(a) \in Nat
         /\ \E d : d \in [0 .. n -> Int] /\ Exceeds(d, c, n, Len(MarshalAction(a)) - Size(a))
<1> DEFINE q == c.marshal
           b == MarshalAction(a)
           t == Size(a)
           v(k) == a[q[k].name]
           o(k) == Overhead(q[k].kind)
           l(k) == IF Sized(q[k].kind) THEN Len(v(k)) ELSE 0
<1>1. c \in ActionRegistry /\ a.type = c.type
  BY DEF IsOf
<1>2. Codec(a.type) = c
  BY <1>1, CodecOfType
<1>3. DOMAIN q = 1 .. n /\ q = [i \in 1 .. n |-> q[i]]
  BY DEF Sides
<1>4. Fills(a, q, n)
  BY FieldsFill
<1>5. ASSUME NEW k \in 1 .. n
      PROVE  /\ o(k) \in Nat /\ l(k) \in Nat /\ Len(Pack(q[k], v(k))) = o(k) + l(k)
             /\ Pack(q[k], v(k)) \in Seq(Byte)
             /\ (q[k].name \in c.lens => Len(v(k)) \in Nat)
             /\ l(k) = (IF q[k].name \in c.lens THEN Len(v(k)) ELSE 0)
  <2>1. q[k].kind \in Kinds /\ v(k) \in TypeOf(q[k].kind) /\ Packable(q[k], v(k))
    BY <1>4 DEF Fills
  <2>2. /\ Overhead(q[k].kind) \in Nat
        /\ Sized(q[k].kind) => Len(v(k)) \in Nat
        /\ Len(Pack(q[k], v(k))) = Overhead(q[k].kind) + (IF Sized(q[k].kind) THEN Len(v(k)) ELSE 0)
    <3> HIDE DEF q, v
    <3> QED BY <2>1, PackedLen
  <2>3. Pack(q[k], v(k)) \in Seq(Byte)
    <3> HIDE DEF q, v
    <3> QED BY <2>1, PackIsBytes
  <2>4. q[k].name \in c.lens <=> Sized(q[k].kind)
    BY DEF Lengths
  <2> HIDE DEF q, v
  <2> QED BY <2>2, <2>3, <2>4
<1>6. PICK h : h \in [0 .. n -> Seq(Byte)] /\ Wrote(h, a, q, n, b)
  <2>1. q = Codec(a.type).marshal
    BY <1>2
  <2> HIDE DEF q
  <2> QED BY <1>3, <1>4, <2>1, MarshalRuns
<1>7. PICK s : s \in [0 .. n -> Nat] /\ Grew(s, a, c, n, t)
  <2>1. c.size \in Nat
    BY DEF Lengths
  <2>2. c = Codec(a.type) /\ q = c.marshal
    BY <1>2
  <2>3. \A i \in 1 .. n : q[i].name \in c.lens => Len(a[q[i].name]) \in Nat
    BY <1>5
  <2> HIDE DEF q
  <2> QED BY <1>3, <2>1, <2>2, <2>3, SizeRuns
<1> DEFINE d == [k \in 0 .. n |-> Len(h[k]) - s[k]]
<1>8. \A k \in 0 .. n : h[k] \in Seq(Byte) /\ Len(h[k]) \in Nat /\ s[k] \in Nat
  BY <1>6, <1>7
<1>9. d \in [0 .. n -> Int]
  BY <1>8
<1>10. d[0] = 0 - c.size /\ s[0] = c.size
  BY <1>6, <1>7 DEF Wrote, Grew
<1>11. d[n] = Len(b) - t /\ Len(b) \in Nat /\ t \in Nat
  <2>1. n \in 0 .. n /\ h[n] = b /\ s[n] = t
    BY <1>6, <1>7 DEF Wrote, Grew
  <2> HIDE DEF b, t
  <2> QED BY <1>8, <2>1
<1>12. ASSUME NEW k \in 1 .. n PROVE d[k] = d[k - 1] + o(k)
  <2>1. k \in 0 .. n /\ k - 1 \in 0 .. n
    OBVIOUS
  <2>2. h[k] = h[k - 1] \o Pack(q[k], v(k))
    BY <1>6 DEF Wrote
  <2>3. s[k] = s[k - 1] + l(k)
    <3>1. s[k] = s[k - 1] + (IF q[k].name \in c.lens THEN Len(v(k)) ELSE 0)
      BY <1>7 DEF Grew
    <3>2. l(k) = (IF q[k].name \in c.lens THEN Len(v(k)) ELSE 0)
      BY <1>5
    <3> HIDE DEF l, q, v
    <3> QED BY <3>1, <3>2
  <2> DEFINE p == Pack(q[k], v(k))
  <2>4. p \in Seq(Byte) /\ Len(p) = o(k) + l(k) /\ o(k) \in Nat /\ l(k) \in Nat
    BY <1>5
  <2> HIDE DEF o, l, p
  <2>5. Len(h[k]) = Len(h[k - 1]) + Len(p)
    <3>1. h[k] = h[k - 1] \o p
      BY <2>2 DEF p
    <3> DEFINE x == h[k - 1]
    <3>2. x \in Seq(Byte)
      BY <1>8, <2>1
    <3> HIDE DEF x
    <3>3. Len(x \o p) = Len(x) + Len(p)
      BY <2>4, <3>2, CatShifts
    <3> QED BY <3>1, <3>3 DEF x
  <2>6. Len(h[k - 1]) \in Nat /\ s[k - 1] \in Nat
    BY <1>8, <2>1
  <2>7. d[k] = Len(h[k]) - s[k] /\ d[k - 1] = Len(h[k - 1]) - s[k - 1]
    BY <2>1
  <2> HIDE DEF d
  <2>8. \A u, x, y, z \in Int : (u + (y + z)) - (x + z) = (u - x) + y
    OBVIOUS
  <2> DEFINE u == Len(h[k - 1])
             x == s[k - 1]
             y == o(k)
             z == l(k)
  <2>9. u \in Int /\ x \in Int /\ y \in Int /\ z \in Int
    BY <2>4, <2>6
  <2>10. d[k] = (u + (y + z)) - (x + z) /\ d[k - 1] = u - x
    BY <2>3, <2>4, <2>5, <2>7
  <2> HIDE DEF u, x, y, z
  <2>11. d[k] = d[k - 1] + y
    BY <2>8, <2>9, <2>10
  <2> QED BY <2>11 DEF y
<1> HIDE DEF d
<1>13. Exceeds(d, c, n, Len(b) - t)
  BY <1>10, <1>11, <1>12 DEF Exceeds
<1> QED BY <1>9, <1>11, <1>13

\* The fields of a kind.
OfKind(c, kind) == {i \in DOMAIN c.marshal : c.marshal[i].kind = kind}

\* The numbers of a few fields.
LEMMA NoFields == Cardinality({}) = 0
BY FS_EmptySet

\* One.
LEMMA OneField == ASSUME NEW i, NEW S, S = {i} PROVE IsFiniteSet(S) /\ Cardinality(S) = 1
BY FS_Singleton

\* Two.
LEMMA TwoFields ==
  ASSUME NEW i, NEW j, i # j, NEW S, S = {i, j} PROVE IsFiniteSet(S) /\ Cardinality(S) = 2
<1> DEFINE T == {i}
<1>1. IsFiniteSet(T) /\ Cardinality(T) = 1
  BY OneField
<1>2. S = T \cup {j} /\ j \notin T
  OBVIOUS
<1> HIDE DEF T
<1>3. IsFiniteSet(T \cup {j}) /\ Cardinality(T \cup {j}) = 1 + 1
  BY <1>1, <1>2, FS_AddElement
<1> QED BY <1>2, <1>3

\* Three.
LEMMA ThreeFields ==
  ASSUME NEW i, NEW j, NEW k, i # j, i # k, j # k, NEW S, S = {i, j, k}
  PROVE  Cardinality(S) = 3
<1> DEFINE T == {i, j}
<1>1. IsFiniteSet(T) /\ Cardinality(T) = 2
  BY TwoFields
<1>2. S = T \cup {k} /\ k \notin T
  OBVIOUS
<1> HIDE DEF T
<1>3. Cardinality(T \cup {k}) = 2 + 1
  BY <1>1, <1>2, FS_AddElement
<1> QED BY <1>2, <1>3

\* The overheads.
LEMMA Overheads ==
  /\ Overhead("id") = IDLen /\ Overhead("address") = AddressLen
  /\ Overhead("uint64") = Uint64Len /\ Overhead("bool") = BoolLen
  /\ Overhead("string") = Uint16Len /\ Overhead("bytes") = IntLen
BY DEF Overhead

\* How much more than the size of its format an action takes.
Extra(c) == IF c = PLONKY2 THEN 2 * Uint64Len ELSE 0

\* What SizeFallsShort says of a format: x is the difference of what it compares.
Short(c, x) ==
  x = Uint16Len * Cardinality(OfKind(c, "string")) + IntLen * Cardinality(OfKind(c, "bytes"))
        + Extra(c)

\* Each format, of n fields: a difference d that exceeds its size at the end by x.
Formatted(c, n) ==
  /\ DOMAIN c.marshal = 1 .. n
  /\ Lengths(c, n)
  /\ \A x, d : d \in [0 .. n -> Int] /\ Exceeds(d, c, n, x) => Short(c, x)

\* The format of Transfer.
LEMMA FormattedTransfer == Formatted(Transfer, 2)
<1>1. /\ DOMAIN Transfer.marshal = 1 .. 2
      /\ Transfer.marshal[1].kind = "address"
      /\ Transfer.marshal[2].kind = "uint64"
      /\ Transfer.size = AddressLen + Uint64Len
  BY DEF Transfer, F
<1>2. \A i \in 1 .. 2 : Transfer.marshal[i].name \in Transfer.lens <=> Sized(Transfer.marshal[i].kind)
  BY DEF Transfer, F, Sized
<1>3. Lengths(Transfer, 2)
  BY <1>1, <1>2, Widths DEF Lengths, BoolLen
<1>4. OfKind(Transfer, "string") = {} /\ OfKind(Transfer, "bytes") = {}
  BY <1>1 DEF OfKind
<1>5. Cardinality(OfKind(Transfer, "string")) = 0 /\ Cardinality(OfKind(Transfer, "bytes")) = 0
  BY <1>4, NoFields
<1>6. Extra(Transfer) = 0
  BY TypesAre DEF Extra
<1>7. ASSUME NEW x, NEW d \in [0 .. 2 -> Int], Exceeds(d, Transfer, 2, x)
      PROVE  Short(Transfer, x)
  <2>1. /\ d[0] = 0 - (AddressLen + Uint64Len) /\ d[2] = x
        /\ d[1] = d[0] + AddressLen
        /\ d[2] = d[1] + Uint64Len
    <3>1. \A k \in 1 .. 2 : d[k] = d[k - 1] + Overhead(Transfer.marshal[k].kind)
      BY <1>7 DEF Exceeds
    <3>2. d[0] = 0 - (AddressLen + Uint64Len) /\ d[2] = x
      BY <1>1, <1>7 DEF Exceeds
    <3>3. d[1] = d[0] + AddressLen
      BY <1>1, <3>1, Overheads
    <3>4. d[2] = d[1] + Uint64Len
      BY <1>1, <3>1, Overheads
    <3> QED BY <3>2, <3>3, <3>4
  <2>2. x = 0
    BY <2>1, Widths DEF BoolLen
  <2> QED BY <1>5, <1>6, <2>2, Widths DEF Short
<1> QED BY <1>1, <1>3, <1>7 DEF Formatted

\* The format of Register.
LEMMA FormattedRegister == Formatted(Register, 1)
<1>1. /\ DOMAIN Register.marshal = 1 .. 1
      /\ Register.marshal[1].kind = "uint64"
      /\ Register.size = Uint64Len
  BY DEF Register, F
<1>2. \A i \in 1 .. 1 : Register.marshal[i].name \in Register.lens <=> Sized(Register.marshal[i].kind)
  BY DEF Register, F, Sized
<1>3. Lengths(Register, 1)
  BY <1>1, <1>2, Widths DEF Lengths, BoolLen
<1>4. OfKind(Register, "string") = {} /\ OfKind(Register, "bytes") = {}
  BY <1>1 DEF OfKind
<1>5. Cardinality(OfKind(Register, "string")) = 0 /\ Cardinality(OfKind(Register, "bytes")) = 0
  BY <1>4, NoFields
<1>6. Extra(Register) = 0
  BY TypesAre DEF Extra
<1>7. ASSUME NEW x, NEW d \in [0 .. 1 -> Int], Exceeds(d, Register, 1, x)
      PROVE  Short(Register, x)
  <2>1. /\ d[0] = 0 - (Uint64Len) /\ d[1] = x
        /\ d[1] = d[0] + Uint64Len
    <3>1. \A k \in 1 .. 1 : d[k] = d[k - 1] + Overhead(Register.marshal[k].kind)
      BY <1>7 DEF Exceeds
    <3>2. d[0] = 0 - (Uint64Len) /\ d[1] = x
      BY <1>1, <1>7 DEF Exceeds
    <3>3. d[1] = d[0] + Uint64Len
      BY <1>1, <3>1, Overheads
    <3> QED BY <3>2, <3>3
  <2>2. x = 0
    BY <2>1, Widths DEF BoolLen
  <2> QED BY <1>5, <1>6, <2>2, Widths DEF Short
<1> QED BY <1>1, <1>3, <1>7 DEF Formatted

\* The format of RegisterImage.
LEMMA FormattedRegisterImage == Formatted(RegisterImage, 3)
<1>1. /\ DOMAIN RegisterImage.marshal = 1 .. 3
      /\ RegisterImage.marshal[1].kind = "id"
      /\ RegisterImage.marshal[2].kind = "uint64"
      /\ RegisterImage.marshal[3].kind = "string"
      /\ RegisterImage.size = IDLen + Uint64Len
  BY DEF RegisterImage, F
<1>2. \A i \in 1 .. 3 : RegisterImage.marshal[i].name \in RegisterImage.lens <=> Sized(RegisterImage.marshal[i].kind)
  BY DEF RegisterImage, F, Sized
<1>3. Lengths(RegisterImage, 3)
  BY <1>1, <1>2, Widths DEF Lengths, BoolLen
<1>4. OfKind(RegisterImage, "string") = {3} /\ OfKind(RegisterImage, "bytes") = {}
  BY <1>1 DEF OfKind
<1>5. Cardinality(OfKind(RegisterImage, "string")) = 1 /\ Cardinality(OfKind(RegisterImage, "bytes")) = 0
  BY <1>4, NoFields, OneField
<1>6. Extra(RegisterImage) = 0
  BY TypesAre DEF Extra
<1>7. ASSUME NEW x, NEW d \in [0 .. 3 -> Int], Exceeds(d, RegisterImage, 3, x)
      PROVE  Short(RegisterImage, x)
  <2>1. /\ d[0] = 0 - (IDLen + Uint64Len) /\ d[3] = x
        /\ d[1] = d[0] + IDLen
        /\ d[2] = d[1] + Uint64Len
        /\ d[3] = d[2] + Uint16Len
    <3>1. \A k \in 1 .. 3 : d[k] = d[k - 1] + Overhead(RegisterImage.marshal[k].kind)
      BY <1>7 DEF Exceeds
    <3>2. d[0] = 0 - (IDLen + Uint64Len) /\ d[3] = x
      BY <1>1, <1>7 DEF Exceeds
    <3>3. d[1] = d[0] + IDLen
      BY <1>1, <3>1, Overheads
    <3>4. d[2] = d[1] + Uint64Len
      BY <1>1, <3>1, Overheads
    <3>5. d[3] = d[2] + Uint16Len
      BY <1>1, <3>1, Overheads
    <3> QED BY <3>2, <3>3, <3>4, <3>5
  <2>2. x = 1 * Uint16Len
    BY <2>1, Widths DEF BoolLen
  <2> QED BY <1>5, <1>6, <2>2, Widths DEF Short
<1> QED BY <1>1, <1>3, <1>7 DEF Formatted

\* The format of ValidatorVote.
LEMMA FormattedValidatorVote == Formatted(ValidatorVote, 4)
<1>1. /\ DOMAIN ValidatorVote.marshal = 1 .. 4
      /\ ValidatorVote.marshal[1].kind = "id"
      /\ ValidatorVote.marshal[2].kind = "bool"
      /\ ValidatorVote.marshal[3].kind = "bytes"
      /\ ValidatorVote.marshal[4].kind = "bytes"
      /\ ValidatorVote.size = IDLen + BoolLen
  BY DEF ValidatorVote, F
<1>2. \A i \in 1 .. 4 : ValidatorVote.marshal[i].name \in ValidatorVote.lens <=> Sized(ValidatorVote.marshal[i].kind)
  BY DEF ValidatorVote, F, Sized
<1>3. Lengths(ValidatorVote, 4)
  BY <1>1, <1>2, Widths DEF Lengths, BoolLen
<1>4. OfKind(ValidatorVote, "string") = {} /\ OfKind(ValidatorVote, "bytes") = {3, 4}
  BY <1>1 DEF OfKind
<1>5. Cardinality(OfKind(ValidatorVote, "string")) = 0 /\ Cardinality(OfKind(ValidatorVote, "bytes")) = 2
  <2>1. Cardinality(OfKind(ValidatorVote, "bytes")) = 2
    <3> DEFINE S == OfKind(ValidatorVote, "bytes")
    <3>1. PICK i, j \in Nat : i = 3 /\ j = 4
      OBVIOUS
    <3>2. S = {i, j} /\ i # j
      BY <1>4, <3>1
    <3> HIDE DEF S
    <3>3. Cardinality(S) = 2
      BY <3>2, TwoFields
    <3> QED BY <3>3 DEF S
  <2>2. Cardinality(OfKind(ValidatorVote, "string")) = 0
    BY <1>4, NoFields
  <2> QED BY <2>1, <2>2
<1>6. Extra(ValidatorVote) = 0
  BY TypesAre DEF Extra
<1>7. ASSUME NEW x, NEW d \in [0 .. 4 -> Int], Exceeds(d, ValidatorVote, 4, x)
      PROVE  Short(ValidatorVote, x)
  <2>1. /\ d[0] = 0 - (IDLen + BoolLen) /\ d[4] = x
        /\ d[1] = d[0] + IDLen
        /\ d[2] = d[1] + BoolLen
        /\ d[3] = d[2] + IntLen
        /\ d[4] = d[3] + IntLen
    <3>1. \A k \in 1 .. 4 : d[k] = d[k - 1] + Overhead(ValidatorVote.marshal[k].kind)
      BY <1>7 DEF Exceeds
    <3>2. d[0] = 0 - (IDLen + BoolLen) /\ d[4] = x
      BY <1>1, <1>7 DEF Exceeds
    <3>3. d[1] = d[0] + IDLen
      BY <1>1, <3>1, Overheads
    <3>4. d[2] = d[1] + BoolLen
      BY <1>1, <3>1, Overheads
    <3>5. d[3] = d[2] + IntLen
      BY <1>1, <3>1, Overheads
    <3>6. d[4] = d[3] + IntLen
      BY <1>1, <3>1, Overheads
    <3> QED BY <3>2, <3>3, <3>4, <3>5, <3>6
  <2>2. x = 2 * IntLen
    BY <2>1, Widths DEF BoolLen
  <2> QED BY <1>5, <1>6, <2>2, Widths DEF Short
<1> QED BY <1>1, <1>3, <1>7 DEF Formatted

\* The format of SP1.
LEMMA FormattedSP1 == Formatted(SP1, 3)
<1>1. /\ DOMAIN SP1.marshal = 1 .. 3
      /\ SP1.marshal[1].kind = "id"
      /\ SP1.marshal[2].kind = "uint64"
      /\ SP1.marshal[3].kind = "uint64"
      /\ SP1.size = IDLen + 2 * Uint64Len
  BY DEF SP1, F
<1>2. \A i \in 1 .. 3 : SP1.marshal[i].name \in SP1.lens <=> Sized(SP1.marshal[i].kind)
  BY DEF SP1, F, Sized
<1>3. Lengths(SP1, 3)
  BY <1>1, <1>2, Widths DEF Lengths, BoolLen
<1>4. OfKind(SP1, "string") = {} /\ OfKind(SP1, "bytes") = {}
  BY <1>1 DEF OfKind
<1>5. Cardinality(OfKind(SP1, "string")) = 0 /\ Cardinality(OfKind(SP1, "bytes")) = 0
  BY <1>4, NoFields
<1>6. Extra(SP1) = 0
  BY TypesAre DEF Extra
<1>7. ASSUME NEW x, NEW d \in [0 .. 3 -> Int], Exceeds(d, SP1, 3, x)
      PROVE  Short(SP1, x)
  <2>1. /\ d[0] = 0 - (IDLen + 2 * Uint64Len) /\ d[3] = x
        /\ d[1] = d[0] + IDLen
        /\ d[2] = d[1] + Uint64Len
        /\ d[3] = d[2] + Uint64Len
    <3>1. \A k \in 1 .. 3 : d[k] = d[k - 1] + Overhead(SP1.marshal[k].kind)
      BY <1>7 DEF Exceeds
    <3>2. d[0] = 0 - (IDLen + 2 * Uint64Len) /\ d[3] = x
      BY <1>1, <1>7 DEF Exceeds
    <3>3. d[1] = d[0] + IDLen
      BY <1>1, <3>1, Overheads
    <3>4. d[2] = d[1] + Uint64Len
      BY <1>1, <3>1, Overheads
    <3>5. d[3] = d[2] + Uint64Len
      BY <1>1, <3>1, Overheads
    <3> QED BY <3>2, <3>3, <3>4, <3>5
  <2>2. x = 0
    BY <2>1, Widths DEF BoolLen
  <2> QED BY <1>5, <1>6, <2>2, Widths DEF Short
<1> QED BY <1>1, <1>3, <1>7 DEF Formatted

\* The format of Jolt.
LEMMA FormattedJolt == Formatted(Jolt, 3)
<1>1. /\ DOMAIN Jolt.marshal = 1 .. 3
      /\ Jolt.marshal[1].kind = "id"
      /\ Jolt.marshal[2].kind = "uint64"
      /\ Jolt.marshal[3].kind = "uint64"
      /\ Jolt.size = IDLen + 2 * Uint64Len
  BY DEF SP1, Jolt, F
<1>2. \A i \in 1 .. 3 : Jolt.marshal[i].name \in Jolt.lens <=> Sized(Jolt.marshal[i].kind)
  BY DEF SP1, Jolt, F, Sized
<1>3. Lengths(Jolt, 3)
  BY <1>1, <1>2, Widths DEF Lengths, BoolLen
<1>4. OfKind(Jolt, "string") = {} /\ OfKind(Jolt, "bytes") = {}
  BY <1>1 DEF OfKind
<1>5. Cardinality(OfKind(Jolt, "string")) = 0 /\ Cardinality(OfKind(Jolt, "bytes")) = 0
  BY <1>4, NoFields
<1>6. Extra(Jolt) = 0
  BY TypesAre DEF Extra
<1>7. ASSUME NEW x, NEW d \in [0 .. 3 -> Int], Exceeds(d, Jolt, 3, x)
      PROVE  Short(Jolt, x)
  <2>1. /\ d[0] = 0 - (IDLen + 2 * Uint64Len) /\ d[3] = x
        /\ d[1] = d[0] + IDLen
        /\ d[2] = d[1] + Uint64Len
        /\ d[3] = d[2] + Uint64Len
    <3>1. \A k \in 1 .. 3 : d[k] = d[k - 1] + Overhead(Jolt.marshal[k].kind)
      BY <1>7 DEF Exceeds
    <3>2. d[0] = 0 - (IDLen + 2 * Uint64Len) /\ d[3] = x
      BY <1>1, <1>7 DEF Exceeds
    <3>3. d[1] = d[0] + IDLen
      BY <1>1, <3>1, Overheads
    <3>4. d[2] = d[1] + Uint64Len
      BY <1>1, <3>1, Overheads
    <3>5. d[3] = d[2] + Uint64Len
      BY <1>1, <3>1, Overheads
    <3> QED BY <3>2, <3>3, <3>4, <3>5
  <2>2. x = 0
    BY <2>1, Widths DEF BoolLen
  <2> QED BY <1>5, <1>6, <2>2, Widths DEF Short
<1> QED BY <1>1, <1>3, <1>7 DEF Formatted

\* The format of RiscZero.
LEMMA FormattedRiscZero == Formatted(RiscZero, 4)
<1>1. /\ DOMAIN RiscZero.marshal = 1 .. 4
      /\ RiscZero.marshal[1].kind = "id"
      /\ RiscZero.marshal[2].kind = "uint64"
      /\ RiscZero.marshal[3].kind = "string"
      /\ RiscZero.marshal[4].kind = "uint64"
      /\ RiscZero.size = IDLen + 2 * Uint64Len
  BY DEF RiscZero, F
<1>2. \A i \in 1 .. 4 : RiscZero.marshal[i].name \in RiscZero.lens <=> Sized(RiscZero.marshal[i].kind)
  BY DEF RiscZero, F, Sized
<1>3. Lengths(RiscZero, 4)
  BY <1>1, <1>2, Widths DEF Lengths, BoolLen
<1>4. OfKind(RiscZero, "string") = {3} /\ OfKind(RiscZero, "bytes") = {}
  BY <1>1 DEF OfKind
<1>5. Cardinality(OfKind(RiscZero, "string")) = 1 /\ Cardinality(OfKind(RiscZero, "bytes")) = 0
  BY <1>4, NoFields, OneField
<1>6. Extra(RiscZero) = 0
  BY TypesAre DEF Extra
<1>7. ASSUME NEW x, NEW d \in [0 .. 4 -> Int], Exceeds(d, RiscZero, 4, x)
      PROVE  Short(RiscZero, x)
  <2>1. /\ d[0] = 0 - (IDLen + 2 * Uint64Len) /\ d[4] = x
        /\ d[1] = d[0] + IDLen
        /\ d[2] = d[1] + Uint64Len
        /\ d[3] = d[2] + Uint16Len
        /\ d[4] = d[3] + Uint64Len
    <3>1. \A k \in 1 .. 4 : d[k] = d[k - 1] + Overhead(RiscZero.marshal[k].kind)
      BY <1>7 DEF Exceeds
    <3>2. d[0] = 0 - (IDLen + 2 * Uint64Len) /\ d[4] = x
      BY <1>1, <1>7 DEF Exceeds
    <3>3. d[1] = d[0] + IDLen
      BY <1>1, <3>1, Overheads
    <3>4. d[2] = d[1] + Uint64Len
      BY <1>1, <3>1, Overheads
    <3>5. d[3] = d[2] + Uint16Len
      BY <1>1, <3>1, Overheads
    <3>6. d[4] = d[3] + Uint64Len
      BY <1>1, <3>1, Overheads
    <3> QED BY <3>2, <3>3, <3>4, <3>5, <3>6
  <2>2. x = 1 * Uint16Len
    BY <2>1, Widths DEF BoolLen
  <2> QED BY <1>5, <1>6, <2>2, Widths DEF Short
<1> QED BY <1>1, <1>3, <1>7 DEF Formatted

\* The format of Miden.
LEMMA FormattedMiden == Formatted(Miden, 6)
<1>1. /\ DOMAIN Miden.marshal = 1 .. 6
      /\ Miden.marshal[1].kind = "id"
      /\ Miden.marshal[2].kind = "uint64"
      /\ Miden.marshal[3].kind = "string"
      /\ Miden.marshal[4].kind = "string"
      /\ Miden.marshal[5].kind = "string"
      /\ Miden.marshal[6].kind = "uint64"
      /\ Miden.size = IDLen + 2 * Uint64Len
  BY DEF Miden, F
<1>2. \A i \in 1 .. 6 : Miden.marshal[i].name \in Miden.lens <=> Sized(Miden.marshal[i].kind)
  BY DEF Miden, F, Sized
<1>3. Lengths(Miden, 6)
  BY <1>1, <1>2, Widths DEF Lengths, BoolLen
<1>4. OfKind(Miden, "string") = {3, 4, 5} /\ OfKind(Miden, "bytes") = {}
  BY <1>1 DEF OfKind
<1>5. Cardinality(OfKind(Miden, "string")) = 3 /\ Cardinality(OfKind(Miden, "bytes")) = 0
  <2>1. Cardinality(OfKind(Miden, "string")) = 3
    <3> DEFINE S == OfKind(Miden, "string")
    <3>1. PICK i, j, k \in Nat : i = 3 /\ j = 4 /\ k = 5
      OBVIOUS
    <3>2. S = {i, j, k} /\ i # j /\ i # k /\ j # k
      BY <1>4, <3>1
    <3> HIDE DEF S
    <3>3. Cardinality(S) = 3
      BY <3>2, ThreeFields
    <3> QED BY <3>3 DEF S
  <2>2. Cardinality(OfKind(Miden, "bytes")) = 0
    BY <1>4, NoFields
  <2> QED BY <2>1, <2>2
<1>6. Extra(Miden) = 0
  BY TypesAre DEF Extra
<1>7. ASSUME NEW x, NEW d \in [0 .. 6 -> Int], Exceeds(d, Miden, 6, x)
      PROVE  Short(Miden, x)
  <2>1. /\ d[0] = 0 - (IDLen + 2 * Uint64Len) /\ d[6] = x
        /\ d[1] = d[0] + IDLen
        /\ d[2] = d[1] + Uint64Len
        /\ d[3] = d[2] + Uint16Len
        /\ d[4] = d[3] + Uint16Len
        /\ d[5] = d[4] + Uint16Len
        /\ d[6] = d[5] + Uint64Len
    <3>1. \A k \in 1 .. 6 : d[k] = d[k - 1] + Overhead(Miden.marshal[k].kind)
      BY <1>7 DEF Exceeds
    <3>2. d[0] = 0 - (IDLen + 2 * Uint64Len) /\ d[6] = x
      BY <1>1, <1>7 DEF Exceeds
    <3>3. d[1] = d[0] + IDLen
      BY <1>1, <3>1, Overheads
    <3>4. d[2] = d[1] + Uint64Len
      BY <1>1, <3>1, Overheads
    <3>5. d[3] = d[2] + Uint16Len
      BY <1>1, <3>1, Overheads
    <3>6. d[4] = d[3] + Uint16Len
      BY <1>1, <3>1, Overheads
    <3>7. d[5] = d[4] + Uint16Len
      BY <1>1, <3>1, Overheads
    <3>8. d[6] = d[5] + Uint64Len
      BY <1>1, <3>1, Overheads
    <3> QED BY <3>2, <3>3, <3>4, <3>5, <3>6, <3>7, <3>8
  <2>2. x = 3 * Uint16Len
    BY <2>1, Widths DEF BoolLen
  <2> QED BY <1>5, <1>6, <2>2, Widths DEF Short
<1> QED BY <1>1, <1>3, <1>7 DEF Formatted

\* The format of PLONKY2.
LEMMA FormattedPLONKY2 == Formatted(PLONKY2, 5)
<1>1. /\ DOMAIN PLONKY2.marshal = 1 .. 5
      /\ PLONKY2.marshal[1].kind = "id"
      /\ PLONKY2.marshal[2].kind = "uint64"
      /\ PLONKY2.marshal[3].kind = "uint64"
      /\ PLONKY2.marshal[4].kind = "uint64"
      /\ PLONKY2.marshal[5].kind = "uint64"
      /\ PLONKY2.size = IDLen + 2 * Uint64Len
  BY DEF PLONKY2, F
<1>2. \A i \in 1 .. 5 : PLONKY2.marshal[i].name \in PLONKY2.lens <=> Sized(PLONKY2.marshal[i].kind)
  BY DEF PLONKY2, F, Sized
<1>3. Lengths(PLONKY2, 5)
  BY <1>1, <1>2, Widths DEF Lengths, BoolLen
<1>4. OfKind(PLONKY2, "string") = {} /\ OfKind(PLONKY2, "bytes") = {}
  BY <1>1 DEF OfKind
<1>5. Cardinality(OfKind(PLONKY2, "string")) = 0 /\ Cardinality(OfKind(PLONKY2, "bytes")) = 0
  BY <1>4, NoFields
<1>6. Extra(PLONKY2) = 2 * Uint64Len
  BY DEF Extra
<1>7. ASSUME NEW x, NEW d \in [0 .. 5 -> Int], Exceeds(d, PLONKY2, 5, x)
      PROVE  Short(PLONKY2, x)
  <2>1. /\ d[0] = 0 - (IDLen + 2 * Uint64Len) /\ d[5] = x
        /\ d[1] = d[0] + IDLen
        /\ d[2] = d[1] + Uint64Len
        /\ d[3] = d[2] + Uint64Len
        /\ d[4] = d[3] + Uint64Len
        /\ d[5] = d[4] + Uint64Len
    <3>1. \A k \in 1 .. 5 : d[k] = d[k - 1] + Overhead(PLONKY2.marshal[k].kind)
      BY <1>7 DEF Exceeds
    <3>2. d[0] = 0 - (IDLen + 2 * Uint64Len) /\ d[5] = x
      BY <1>1, <1>7 DEF Exceeds
    <3>3. d[1] = d[0] + IDLen
      BY <1>1, <3>1, Overheads
    <3>4. d[2] = d[1] + Uint64Len
      BY <1>1, <3>1, Overheads
    <3>5. d[3] = d[2] + Uint64Len
      BY <1>1, <3>1, Overheads
    <3>6. d[4] = d[3] + Uint64Len
      BY <1>1, <3>1, Overheads
    <3>7. d[5] = d[4] + Uint64Len
      BY <1>1, <3>1, Overheads
    <3> QED BY <3>2, <3>3, <3>4, <3>5, <3>6, <3>7
  <2>2. x = 2 * Uint64Len
    BY <2>1, Widths DEF BoolLen
  <2> QED BY <1>5, <1>6, <2>2, Widths DEF Short
<1> QED BY <1>1, <1>3, <1>7 DEF Formatted

\* Every format is one of these.
LEMMA AllFormatted == \A c \in ActionRegistry : \E n \in Nat : Formatted(c, n)
BY FormattedTransfer, FormattedRegister, FormattedRegisterImage, FormattedValidatorVote,
   FormattedSP1, FormattedJolt, FormattedRiscZero, FormattedMiden, FormattedPLONKY2
   DEF ActionRegistry

\* What an action that can be marshalled takes beyond its Size.
LEMMA ActionFallsShort ==
  ASSUME NEW a, NEW c, IsOf(a, c), ~ MarshalFails(a)
  PROVE  /\ Codec(a.type) = c
         /\ Len(MarshalAction(a)) = Size(a) + Uint16Len * Cardinality(OfKind(c, "string"))
              + IntLen * Cardinality(OfKind(c, "bytes")) + Extra(c)
<1> DEFINE u == Len(MarshalAction(a))
           t == Size(a)
           x == Uint16Len * Cardinality(OfKind(c, "string"))
           y == IntLen * Cardinality(OfKind(c, "bytes"))
           z == Extra(c)
<1>1. c \in ActionRegistry /\ a.type = c.type
  BY DEF IsOf
<1>2. PICK n \in Nat : Formatted(c, n)
  BY <1>1, AllFormatted
<1>3. PICK m \in Nat : Sides(c, m)
  BY <1>1, SidesSame
<1>4. m = n
  <2>1. 1 .. m = 1 .. n
    BY <1>2, <1>3 DEF Formatted, Sides
  <2> QED BY <2>1
<1>5. Sides(c, n) /\ Lengths(c, n)
  BY <1>2, <1>3, <1>4 DEF Formatted
<1>6. /\ u \in Nat /\ t \in Nat
      /\ \E d : d \in [0 .. n -> Int] /\ Exceeds(d, c, n, u - t)
  BY <1>5, ExcessRuns
<1>7. Short(c, u - t)
  <2> HIDE DEF u, t
  <2> QED BY <1>2, <1>6 DEF Formatted
<1>8. x \in Int /\ y \in Int /\ z \in Int
  <2>1. \A kind : Cardinality(OfKind(c, kind)) \in Nat
    <3>1. ASSUME NEW kind PROVE Cardinality(OfKind(c, kind)) \in Nat
      <4>1. OfKind(c, kind) \subseteq 1 .. n
        BY <1>2 DEF Formatted, OfKind
      <4> DEFINE S == 1 .. n
                 T == OfKind(c, kind)
      <4>2. IsFiniteSet(S) /\ T \subseteq S
        BY <4>1, FS_Interval
      <4> HIDE DEF S, T
      <4>3. IsFiniteSet(T)
        BY <4>2, FS_Subset
      <4> QED BY <4>3, FS_CardinalityType DEF T
    <3> QED BY <3>1
  <2>2. z \in Int
    BY Widths DEF Extra
  <2> DEFINE p == Cardinality(OfKind(c, "string"))
             q == Cardinality(OfKind(c, "bytes"))
  <2>3. p \in Int /\ q \in Int
    BY <2>1
  <2>4. x = Uint16Len * p /\ y = IntLen * q
    OBVIOUS
  <2> HIDE DEF p, q, x, y
  <2>5. Uint16Len * p \in Int /\ IntLen * q \in Int
    BY <2>3, Widths
  <2> QED BY <2>2, <2>4, <2>5
<1>9. u - t = x + y + z
  BY <1>7 DEF Short
<1>10. u = t + x + y + z
  <2> HIDE DEF u, t, x, y, z
  <2> QED BY <1>6, <1>8, <1>9
<1>11. Codec(a.type) = c
  BY <1>1, CodecOfType
<1> QED BY <1>10, <1>11

\* A request that was not refused could be marshalled.
LEMMA SentFallsShort == SentInv => SizeFallsShort
<1> SUFFICES ASSUME SentInv, NEW n \in DOMAIN sent, sent[n].tx # Refused
             PROVE  LET a == sent[n].request.action
                        prefixes(kind) ==
                          Cardinality({i \in DOMAIN Codec(a.type).marshal :
                                         Codec(a.type).marshal[i].kind = kind})
                    IN  Len(MarshalAction(a)) =
                          Size(a) + Uint16Len * prefixes("string") + IntLen * prefixes("bytes")
                            + IF a.type = Plonky2ID THEN 2 * Uint64Len ELSE 0
  BY DEF SizeFallsShort
<1>1. PICK r \in AllRequests : sent[n] = SentOf(r)
  <2> DEFINE S == {SentOf(q) : q \in AllRequests}
  <2>1. sent[n] \in S
    <3> HIDE DEF S
    <3>1. sent \in Seq(S)
      BY DEF SentInv, S
    <3> QED BY <3>1
  <2> QED BY <2>1
<1>2. IsTx(r)
  BY RequestAssumption DEF AllRequests
<1>3. sent[n].request = r /\ sent[n].tx = UnmarshalTx(Wire(r))
  BY <1>1 DEF SentOf
<1> DEFINE a == r.action
<1>4. ~ MarshalFails(a)
  <2>1. UnmarshalTx(<<>>) = Refused
    BY DEF UnmarshalTx
  <2> QED BY <1>3, <2>1 DEF Wire
<1>5. PICK c : IsOf(a, c)
  BY <1>2, ActionIsOf DEF IsTx
<1> DEFINE o(kind) == {i \in DOMAIN Codec(a.type).marshal : Codec(a.type).marshal[i].kind = kind}
<1>6. /\ Codec(a.type) = c
      /\ Len(MarshalAction(a)) = Size(a) + Uint16Len * Cardinality(OfKind(c, "string"))
           + IntLen * Cardinality(OfKind(c, "bytes")) + Extra(c)
  <2> HIDE DEF a
  <2> QED BY <1>4, <1>5, ActionFallsShort
<1>7. o("string") = OfKind(c, "string") /\ o("bytes") = OfKind(c, "bytes")
  BY <1>6 DEF OfKind
<1>8. Extra(c) = IF a.type = Plonky2ID THEN 2 * Uint64Len ELSE 0
  <2>1. c \in ActionRegistry /\ a.type = c.type
    BY <1>5 DEF IsOf
  <2>2. c = PLONKY2 <=> c.type = Plonky2ID
    BY <2>1, TypesAre DEF ActionRegistry, Plonky2ID
  <2> QED BY <2>1, <2>2 DEF Extra
<1>9. sent[n].request.action = a
  BY <1>3
<1> HIDE DEF a
<1> QED BY <1>6, <1>7, <1>8, <1>9

\* Size falls short of what Marshal writes by the prefixes of the lengths, and for
\* PLONKY2 by the two integers that it leaves out, for any widths and any request: the
\* fee that a client estimates from it is short by that much, and by no more.
THEOREM TxSizeFallsShort == Spec => []SizeFallsShort
BY SentFallsShort, SentInductive, PTL DEF Spec

-----------------------------------------------------------------------------
(* Roots                                                                   *)

\* Two types are cut to one if they are equal but for multiples.
LEMMA CutsAgree ==
  ASSUME NEW t, t \in Nat, NEW u, u \in Nat
  PROVE  /\ Uint16(t) \in 0 .. Pow[Uint16Len] - 1
         /\ Uint16(t) = Uint16(u) <=> Congruent(t, u)
<1> DEFINE W == Pow[Uint16Len]
           a == t \div W
           b == t % W
           c == u \div W
           d == u % W
<1>1. W \in Nat \ {0} /\ MaxUint16 + 1 = W
  BY Widths, PowNat, MaxInts
<1> HIDE DEF W
<1>2. /\ a \in Int /\ b \in 0 .. W - 1 /\ t = W * a + b
      /\ c \in Int /\ d \in 0 .. W - 1 /\ u = W * c + d
  BY <1>1
<1> DEFINE m == (t - u) % W
<1> HIDE DEF a, b, c, d
<1>3. W * (a - c) = W * a - W * c /\ W * (a - c) \in Int /\ W * a \in Int /\ W * c \in Int
  BY <1>1, <1>2
<1>4. b = d => m = 0
  <2> SUFFICES ASSUME b = d PROVE m = 0
    OBVIOUS
  <2> DEFINE e == a - c
  <2>1. t - u = W * e + 0 /\ e \in Int /\ t - u \in Int /\ 0 \in 0 .. W - 1
    BY <1>1, <1>2, <1>3
  <2> HIDE DEF e
  <2> DEFINE z == t - u
  <2>2. z \in Int /\ z = W * e + 0
    BY <2>1
  <2> HIDE DEF z
  <2>3. z % W = 0
    BY <1>1, <2>1, <2>2, ModUnique
  <2> QED BY <2>3 DEF z
<1>5. m = 0 => b = d
  <2> SUFFICES ASSUME m = 0 PROVE b = d
    OBVIOUS
  <2> DEFINE z == t - u
             q == z \div W
  <2>1. z \in Int /\ z = t - u
    BY <1>2
  <2> HIDE DEF z
  <2>2. q \in Int /\ z = W * q + (z % W)
    BY <1>1, <2>1
  <2>3. z % W = 0
    BY DEF z
  <2> HIDE DEF q
  <2> DEFINE e == q + c
  <2>4. W * e = W * q + W * c /\ e \in Int
    BY <1>1, <1>2, <2>2
  <2> HIDE DEF e
  <2>5. t = W * e + d
    BY <1>1, <1>2, <2>1, <2>2, <2>3, <2>4
  <2>6. t % W = d
    <3>1. t \in Int /\ e \in Int /\ d \in 0 .. W - 1 /\ W \in Nat \ {0}
      BY <1>1, <1>2, <2>4
    <3> QED BY <2>5, <3>1, ModUnique
  <2> QED BY <2>6 DEF b
<1>6. Congruent(t, u) <=> m = 0
  BY <1>1 DEF Congruent, m
<1>7. Uint16(t) = b /\ Uint16(u) = d
  BY DEF Uint16, W, b, d
<1> HIDE DEF m
<1> QED BY <1>2, <1>4, <1>5, <1>6, <1>7 DEF W

\* The record of a root is told by the image and the type as it is cut.
LEMMA HashKeys ==
  ASSUME NEW x, x \in IDs, NEW y, y \in IDs, NEW t, t \in Nat, NEW u, u \in Nat
  PROVE  HashKey(x, t) = HashKey(y, u) <=> x = y /\ Congruent(t, u)
<1> DEFINE P == <<deployPrefix>>
           B(n) == BigEndian(Uint16(n), Uint16Len)
           Z == Suffix(HashChunksMax)
           S == Nat
<1>1. P \in Seq(S) /\ Len(P) = 1
  BY OneNat DEF deployPrefix
<1>2. Z \in Seq(S)
  <2>1. Z \in Seq(Byte)
    BY BigEndianBytes, Widths DEF Suffix, HashChunksMax
  <2> HIDE DEF Z
  <2> QED BY <2>1, BytesAreNats
<1>3. x \in Seq(S) /\ y \in Seq(S) /\ Len(x) = Len(y) /\ Len(x) \in Nat
  <2>1. x \in Seq(Byte) /\ y \in Seq(Byte) /\ Len(x) = IDLen /\ Len(y) = IDLen
    BY ArraysAreBytes
  <2> QED BY <2>1, BytesAreNats, Widths
<1>4. ASSUME NEW n, n \in Nat
      PROVE  B(n) \in Seq(S) /\ Len(B(n)) = Uint16Len /\ Uint(B(n)) = Uint16(n)
  <2> DEFINE m == Uint16(n)
  <2>1. m \in 0 .. Pow[Uint16Len] - 1 /\ Uint16Len \in Nat
    BY <1>4, CutsAgree, Widths
  <2>2. m \in Nat
    BY <2>1
  <2> HIDE DEF m
  <2>3. BigEndian(m, Uint16Len) \in Seq(Byte) /\ Len(BigEndian(m, Uint16Len)) = Uint16Len
    BY <2>1, <2>2, BigEndianBytes
  <2>4. Uint(BigEndian(m, Uint16Len)) = m
    BY <2>1, UintOfBigEndian
  <2> DEFINE b == BigEndian(m, Uint16Len)
  <2> HIDE DEF b
  <2>5. b \in Seq(Byte)
    BY <2>3 DEF b
  <2>6. b \in Seq(Nat)
    BY <2>5, BytesAreNats
  <2> QED BY <2>3, <2>4, <2>6 DEF m, b
<1> HIDE DEF P, Z, S
<1>5. ASSUME NEW w, w \in Seq(S), Len(w) = Len(x), NEW n, n \in Nat
      PROVE  /\ SubSeq(HashKey(w, n), 2, 1 + Len(x)) = w
             /\ Uint(SubSeq(HashKey(w, n), 2 + Len(x), 1 + Len(x) + Uint16Len)) = Uint16(n)
  <2> DEFINE b == B(n)
             k == HashKey(w, n)
  <2>1. k = Cat3(P \o w, b, Z)
    BY DEF HashKey, Cat3, P, Z
  <2>2. b \in Seq(S) /\ Len(b) = Uint16Len /\ Uint(b) = Uint16(n)
    BY <1>4, <1>5
  <2> HIDE DEF b, k
  <2> DEFINE r == P \o w
             z == b \o Z
  <2>0. P \in Seq(S) /\ w \in Seq(S) /\ b \in Seq(S) /\ Z \in Seq(S)
    BY <1>1, <1>2, <1>5, <2>2
  <2>3. r \in Seq(S) /\ Len(r) = 1 + Len(x)
    <3>1. P \in Seq(S) /\ w \in Seq(S)
      BY <2>0
    <3>2. P \o w \in Seq(S) /\ Len(P \o w) = Len(P) + Len(w)
      BY <3>1, ConcatProperties
    <3>3. Len(P) + Len(w) = 1 + Len(x)
      BY <1>1, <1>5
    <3> QED BY <3>2, <3>3
  <2>10. r \in Seq(S) /\ b \in Seq(S) /\ Z \in Seq(S)
    BY <2>0, <2>3
  <2>4. z \in Seq(S)
    BY <2>0, ConcatProperties
  <2> HIDE DEF r, z
  <2>9. k = Cat3(P, w, z) /\ k = Cat3(r, b, Z)
    <3>1. (r \o b) \o Z = r \o (b \o Z)
      BY <2>10, ConcatAssociative
    <3> QED BY <2>1, <3>1 DEF Cat3, r, z
  <2>5. SubSeq(k, Len(P) + 1, Len(P) + Len(w)) = w
    <3>1. SubSeq(Cat3(P, w, z), Len(P) + 1, Len(P) + Len(w)) = w
      BY <2>0, <2>4, Middle
    <3> QED BY <2>9, <3>1
  <2>6. SubSeq(k, Len(r) + 1, Len(r) + Len(b)) = b
    <3>1. SubSeq(Cat3(r, b, Z), Len(r) + 1, Len(r) + Len(b)) = b
      BY <2>10, Middle
    <3> QED BY <2>9, <3>1
  <2>7. Len(P) + 1 = 2 /\ Len(P) + Len(w) = 1 + Len(x) /\ Len(r) + 1 = 2 + Len(x)
        /\ Len(r) + Len(b) = 1 + Len(x) + Uint16Len
    BY <1>1, <1>3, <1>5, <2>2, <2>3
  <2>8. SubSeq(k, 2, 1 + Len(x)) = w /\ SubSeq(k, 2 + Len(x), 1 + Len(x) + Uint16Len) = b
    BY <2>5, <2>6, <2>7
  <2> QED BY <2>2, <2>8 DEF k
<1>6. ASSUME HashKey(x, t) = HashKey(y, u) PROVE x = y /\ Uint16(t) = Uint16(u)
  <2>1. /\ SubSeq(HashKey(x, t), 2, 1 + Len(x)) = x
        /\ Uint(SubSeq(HashKey(x, t), 2 + Len(x), 1 + Len(x) + Uint16Len)) = Uint16(t)
    BY <1>3, <1>5
  <2>2. /\ SubSeq(HashKey(y, u), 2, 1 + Len(x)) = y
        /\ Uint(SubSeq(HashKey(y, u), 2 + Len(x), 1 + Len(x) + Uint16Len)) = Uint16(u)
    BY <1>3, <1>5
  <2> QED BY <1>6, <2>1, <2>2
<1>7. x = y /\ Uint16(t) = Uint16(u) => HashKey(x, t) = HashKey(y, u)
  BY DEF HashKey
<1> QED BY <1>6, <1>7, CutsAgree

\* What the results say of a root: those that registered it, and the last of them.
IsRoot(e, x, t) ==
  /\ e.success /\ e.tx.action.type = RegisterImageID
  /\ e.tx.action.imageID = x /\ Congruent(e.tx.action.valType, t)

Hits(s, x, t)   == {i \in DOMAIN s : IsRoot(s[i], x, t)}
RootIn(s, x, t) ==
  IF Hits(s, x, t) = {} THEN NotFound ELSE s[Max(Hits(s, x, t))].tx.action.rootHash

\* LastRoot is about the results of the chain.
LEMMA LastRootIs == \A x, t : LastRoot(x, t) = RootIn(executed, x, t)
BY DEF LastRoot, RootIn, Hits, IsRoot

\* A result that registers the root is the last, and any other changes nothing.
LEMMA RootGrows ==
  ASSUME NEW s, NEW e, NEW u, NEW S, Grown(s, e, u, S), NEW x, NEW t
  PROVE  RootIn(u, x, t) = IF IsRoot(e, x, t) THEN e.tx.action.rootHash ELSE RootIn(s, x, t)
<1> DEFINE n == Len(s)
           H == Hits(s, x, t)
           G == Hits(u, x, t)
<1>1. /\ n \in Nat /\ Len(u) = n + 1 /\ DOMAIN s = 1 .. n /\ DOMAIN u = 1 .. n + 1
      /\ \A i \in 1 .. n : u[i] = s[i]
      /\ u[n + 1] = e
  BY DEF Grown
<1> HIDE DEF n
<1>2. H \in SUBSET (1 .. n) /\ G \in SUBSET (1 .. n + 1)
  BY <1>1 DEF Hits
<1>3. CASE IsRoot(e, x, t)
  <2>1. n + 1 \in G
    BY <1>1, <1>3 DEF Hits
  <2> HIDE DEF G
  <2>2. Max(G) \in G /\ \A y \in G : y <= Max(G)
    <3> DEFINE m == n + 1
    <3>1. m \in Nat /\ G \in SUBSET (1 .. m) /\ G # {}
      BY <1>1, <1>2, <2>1
    <3> HIDE DEF m
    <3> QED BY <3>1, MaxIn
  <2> DEFINE m == Max(G)
  <2> HIDE DEF m
  <2>3. m \in 1 .. n + 1 /\ n + 1 <= m
    BY <1>2, <2>1, <2>2 DEF m
  <2>4. m = n + 1
    BY <1>1, <2>3
  <2>5. G # {} /\ u[Max(G)] = e
    BY <1>1, <2>1, <2>4 DEF m
  <2> QED BY <1>3, <2>5 DEF RootIn, G
<1>4. CASE ~ IsRoot(e, x, t)
  <2>1. G = H
    <3>1. \A i \in 1 .. n : i \in G <=> i \in H
      BY <1>1 DEF Hits
    <3>2. n + 1 \notin G
      BY <1>1, <1>4 DEF Hits
    <3> HIDE DEF G, H
    <3>3. \A i \in 1 .. n + 1 : i \in 1 .. n \/ i = n + 1
      BY <1>1
    <3>4. \A i : i \in G <=> i \in H
      BY <1>2, <3>1, <3>2, <3>3
    <3> QED BY <3>4
  <2> HIDE DEF G, H
  <2>2. CASE H = {}
    BY <1>4, <2>1, <2>2 DEF RootIn, G, H
  <2>3. CASE H # {}
    <3>1. Max(H) \in H
      BY <1>1, <1>2, <2>3, MaxIn
    <3>2. u[Max(H)] = s[Max(H)]
      BY <1>1, <1>2, <3>1
    <3> QED BY <1>4, <2>1, <2>3, <3>2 DEF RootIn, G, H
  <2> QED BY <2>2, <2>3
<1> QED BY <1>3, <1>4

\* Only the registration of an image writes a key with the prefix of roots.
LEMMA WrittenRoots ==
  ASSUME NEW a, IsAction(a), a.type # RegisterImageID, NEW actor, actor \in Accounts,
         NEW id, id \in IDs, NEW k, k \in Written(a, actor, id)
  PROVE  k[1] # 7
<1>1. id \in Seq(Byte) /\ actor \in Seq(Byte)
  BY ArraysAreBytes
<1>2. /\ a.type \in {0, 1, 2, 3} \/ IsVerify(a)
      /\ a.type \in {0, 1, 2, 3} => ~ IsVerify(a)
  BY FieldTypes
<1>3. CASE IsVerify(a)
  BY <1>1, <1>3, KeysAre DEF Written
<1>4. CASE a.type = TransferID
  <2>1. a.to \in Seq(Byte)
    <3>1. a.to \in [1 .. AddressLen -> Byte]
      BY <1>4, FieldTypes
    <3> QED BY <3>1, ArraysAreBytes
  <2>2. k \in {BalanceKey(actor), BalanceKey(a.to)}
    BY <1>2, <1>4 DEF Written, TransferID
  <2> QED BY <1>1, <2>1, <2>2, KeysAre
<1>5. CASE a.type = RegisterID
  BY <1>2, <1>5 DEF Written, RegisterID, TransferID, RegisterImageID, ValidatorVoteID
<1>6. CASE a.type = ValidatorVoteID
  <2>1. a.txID \in Seq(Byte)
    <3>1. a.txID \in IDs
      BY <1>6, FieldTypes
    <3> QED BY <3>1, ArraysAreBytes
  <2>2. k \in {WeightKey(a.txID), VoteKey(a.txID, actor)}
    BY <1>2, <1>6 DEF Written, RegisterImageID, TransferID, ValidatorVoteID
  <2> QED BY <1>1, <2>1, <2>2, KeysAre
<1> QED BY <1>2, <1>3, <1>4, <1>5, <1>6 DEF TransferID, RegisterID, RegisterImageID, ValidatorVoteID

\* A registration that succeeds has put the root at its key.
LEMMA RegistersRoot ==
  ASSUME NEW a, IsAction(a), a.type = RegisterImageID, NEW actor, NEW id, NEW outcome,
         NEW w, w = Execute(a, actor, id, outcome), ~ w.failed
  PROVE  w.store = Put(store, HashKey(a.imageID, a.valType), a.rootHash)
<1> DEFINE K == StateKeys(a, actor, id)
           v == View(store, K)
           key == HashKey(a.imageID, a.valType)
           val == a.rootHash
<1>1. ~ IsVerify(a)
  BY FieldTypes DEF RegisterImageID
<1>2. w = Insert(v, key, val)
  BY <1>1 DEF Execute, ExecuteRegisterImage, StoreHashKeyType, TransferID, RegisterID,
     RegisterImageID, ValidatorVoteID
<1>3. IsView(v, K) /\ v.store = store
  <2> HIDE DEF K
  <2> QED BY ViewIs
<1> HIDE DEF v, K, key, val
<1>4. Inserted(v, K, key, val, w)
  BY <1>2, <1>3, InsertIs
<1> QED BY <1>3, <1>4 DEF Inserted, key, val

\* The record of a root holds what was registered last under it.
RootsInv ==
  \A x \in IDs, t \in Nat : Get(store, HashKey(x, t)) = LastRoot(x, t)

\* What a change elsewhere leaves of the roots.
LEMMA RootsSame ==
  ASSUME NEW s, NEW u, NEW L, Only(s, u, L), \A k \in L : k[1] # 7,
         NEW x, x \in IDs, NEW t, t \in Nat
  PROVE  Get(u, HashKey(x, t)) = Get(s, HashKey(x, t))
<1>1. x \in Seq(Byte)
  BY ArraysAreBytes
<1>2. HashKey(x, t)[1] = 7
  BY <1>1, KeysAre
<1> DEFINE k == HashKey(x, t)
<1>3. k \notin L
  BY <1>2
<1> HIDE DEF k
<1>4. Get(u, k) = Get(s, k)
  BY <1>3 DEF Only, Get
<1> QED BY <1>4 DEF k

\* Genesis has no roots, and a root is written when it is registered.
LEMMA RootsInductive ==
  /\ Init => RootsInv
  /\ ChainInv /\ ResultsInv /\ RootsInv /\ [Next]_vars => RootsInv'
<1>1. Init => RootsInv
  <2> SUFFICES ASSUME Init, NEW x \in IDs, NEW t \in Nat
               PROVE  Get(store, HashKey(x, t)) = LastRoot(x, t)
    BY DEF RootsInv
  <2>1. executed = <<>> /\ DOMAIN store = {BalanceKey(y) : y \in Accounts}
    BY DEF Init
  <2>2. HashKey(x, t) \notin DOMAIN store
    <3>1. x \in Seq(Byte)
      BY ArraysAreBytes
    <3>2. HashKey(x, t)[1] = 7
      BY <3>1, KeysAre
    <3>3. \A y \in Accounts : BalanceKey(y)[1] = 0
      BY BalanceKeys
    <3> QED BY <2>1, <3>2, <3>3
  <2>3. LastRoot(x, t) = NotFound
    <3>1. Hits(executed, x, t) = {}
      BY <2>1 DEF Hits
    <3> QED BY <3>1, LastRootIs DEF RootIn
  <2> QED BY <2>2, <2>3 DEF Get
<1>2. ASSUME ChainInv, ResultsInv, RootsInv, [Next]_vars PROVE RootsInv'
  <2>1. ASSUME NEW n \in DOMAIN sent, NEW outcome \in Outcomes, Process(n, outcome)
        PROVE  RootsInv'
    <3>1. PICK tx, w : Processes(n, tx, w)
                       /\ Grown(executed, Result(n, tx, now, ~ w.failed), executed', Results)
      BY <1>2, <2>1, ProcessAdds DEF ResultsInv
    <3> DEFINE ok == ~ w.failed
               e == Result(n, tx, now, ok)
               a == tx.action
               actor == Address(tx.auth)
               id == TxID(n)
    <3>2. e.tx = tx /\ e.success = ok
      BY ResultIs
    <3>3. /\ IsAction(a) /\ actor \in Accounts /\ id \in IDs
          /\ Only(store, w.store, Written(a, actor, id))
          /\ \E o : w = Execute(a, actor, id, o)
          /\ store' = IF ok THEN w.store ELSE store
      BY <3>1 DEF Processes, IsTx, Effect
    <3> SUFFICES ASSUME NEW x, x \in IDs, NEW t, t \in Nat
                 PROVE  Get(store', HashKey(x, t)) = LastRoot(x, t)'
      BY DEF RootsInv
    <3>4. Grown(executed, e, executed', Results)
      BY <3>1
    <3> HIDE DEF e, ok
    <3>5. LastRoot(x, t)' = IF IsRoot(e, x, t) THEN e.tx.action.rootHash ELSE LastRoot(x, t)
      <4>1. LastRoot(x, t)' = RootIn(executed', x, t)
        BY DEF LastRoot, RootIn, Hits, IsRoot
      <4>2. RootIn(executed', x, t)
              = IF IsRoot(e, x, t) THEN e.tx.action.rootHash ELSE RootIn(executed, x, t)
        BY <3>4, RootGrows
      <4> QED BY <4>1, <4>2, LastRootIs
    <3>6. Get(store, HashKey(x, t)) = LastRoot(x, t)
      BY <1>2 DEF RootsInv
    <3>7. IsRoot(e, x, t) <=> /\ ok /\ a.type = RegisterImageID
                              /\ a.imageID = x /\ Congruent(a.valType, t)
      BY <3>2 DEF IsRoot
    <3> HIDE DEF a, actor, id
    <3>8. CASE ~ ok
      BY <3>3, <3>5, <3>6, <3>7, <3>8
    <3>9. CASE ok /\ a.type # RegisterImageID
      <4>1. \A k \in Written(a, actor, id) : k[1] # 7
        BY <3>3, <3>9, WrittenRoots
      <4> DEFINE L == Written(a, actor, id)
      <4> HIDE DEF L
      <4>2. Only(store, w.store, L) /\ \A k \in L : k[1] # 7
        BY <3>3, <4>1 DEF L
      <4>3. Get(w.store, HashKey(x, t)) = Get(store, HashKey(x, t))
        BY <4>2, RootsSame
      <4> QED BY <3>3, <3>5, <3>6, <3>7, <3>9, <4>3
    <3>10. CASE ok /\ a.type = RegisterImageID
      <4>1. w.store = Put(store, HashKey(a.imageID, a.valType), a.rootHash)
        <5>1. PICK o : w = Execute(a, actor, id, o)
          BY <3>3
        <5>2. ~ w.failed
          BY <3>10 DEF ok
        <5> QED BY <3>3, <3>10, <5>1, <5>2, RegistersRoot
      <4>2. a.imageID \in IDs /\ a.valType \in Nat
        BY <3>3, <3>10, FieldTypes
      <4>3. HashKey(a.imageID, a.valType) = HashKey(x, t)
              <=> a.imageID = x /\ Congruent(a.valType, t)
        <5> DEFINE y == a.imageID
                   u == a.valType
        <5>1. y \in IDs /\ u \in Nat
          BY <4>2
        <5> HIDE DEF y, u
        <5>2. HashKey(y, u) = HashKey(x, t) <=> y = x /\ Congruent(u, t)
          BY <5>1, HashKeys
        <5> QED BY <5>2 DEF y, u
      <4> DEFINE key == HashKey(a.imageID, a.valType)
                 k == HashKey(x, t)
      <4> HIDE DEF key, k
      <4>4. Get(w.store, k) = IF k = key THEN a.rootHash ELSE Get(store, k)
        BY <4>1 DEF Put, Get, key
      <4>5. k = key <=> a.imageID = x /\ Congruent(a.valType, t)
        BY <4>3 DEF k, key
      <4>6. e.tx.action.rootHash = a.rootHash
        BY <3>2 DEF a
      <4> QED BY <3>3, <3>5, <3>6, <3>7, <3>10, <4>4, <4>5, <4>6 DEF k
    <3> QED BY <3>8, <3>9, <3>10
  <2>2. CASE Block
    <3>1. Sound(store)
      BY <1>2 DEF ChainInv, StoreInv
    <3>2. Only(store, store', BlockKeys) /\ executed' = executed
      BY <2>2, <3>1, BlockIs DEF Block
    <3>3. \A k \in BlockKeys : k[1] # 7
      BY KeysAre
    <3> SUFFICES ASSUME NEW x, x \in IDs, NEW t, t \in Nat
                 PROVE  Get(store', HashKey(x, t)) = LastRoot(x, t)'
      BY DEF RootsInv
    <3>4. Get(store', HashKey(x, t)) = Get(store, HashKey(x, t))
      BY <3>2, <3>3, RootsSame
    <3>5. LastRoot(x, t)' = LastRoot(x, t)
      BY <3>2 DEF LastRoot
    <3> QED BY <1>2, <3>4, <3>5 DEF RootsInv
  <2>3. CASE UNCHANGED <<executed, store>>
    <3> SUFFICES ASSUME NEW x, x \in IDs, NEW t, t \in Nat
                 PROVE  Get(store', HashKey(x, t)) = LastRoot(x, t)'
      BY DEF RootsInv
    <3>1. LastRoot(x, t)' = LastRoot(x, t)
      BY <2>3 DEF LastRoot
    <3>2. Get(store', HashKey(x, t)) = Get(store, HashKey(x, t))
      BY <2>3
    <3> QED BY <1>2, <3>1, <3>2 DEF RootsInv
  <2> QED BY <1>2, <2>1, <2>2, <2>3 DEF Next, vars, Send, Accepted, records
<1> QED BY <1>1, <1>2

\* A file is named by the image and a type of the action.
LEMMA FilesAre ==
  ASSUME NEW a, IsAction(a), NEW f, f \in Files(a)
  PROVE  a.imageID \in IDs /\ f.type \in Nat /\ f.name = DeployKey(a.imageID, f.type)
<1>1. PICK c : IsOf(a, c)
  BY ActionIsOf
<1>2. /\ c \in ActionRegistry /\ a.type = c.type
      /\ \A i \in DOMAIN c.marshal : a[c.marshal[i].name] \in TypeOf(c.marshal[i].kind)
  BY <1>1 DEF IsOf
<1>3. TypeOf("id") = IDs /\ TypeOf("uint64") \subseteq Nat
  BY MaxInts DEF TypeOf, IDs
<1>4. ASSUME NEW i \in DOMAIN c.marshal, c.marshal[i] = F("id", "imageID")
      PROVE  a.imageID \in IDs
  BY <1>2, <1>3, <1>4 DEF F
<1>5. ASSUME NEW i \in DOMAIN c.marshal, NEW name, c.marshal[i] = F("uint64", name)
      PROVE  a[name] \in Nat
  BY <1>2, <1>3, <1>5 DEF F
<1> DEFINE Named(types) == {[name |-> DeployKey(a.imageID, t), type |-> t] : t \in types}
<1>6. ASSUME a.imageID \in IDs, NEW types, types \subseteq Nat, f \in Named(types)
      PROVE  a.imageID \in IDs /\ f.type \in Nat /\ f.name = DeployKey(a.imageID, f.type)
  <2>1. PICK t \in types : f = [name |-> DeployKey(a.imageID, t), type |-> t]
    BY <1>6
  <2>2. f.type = t /\ f.name = DeployKey(a.imageID, t)
    BY <2>1
  <2> QED BY <1>6, <2>1, <2>2
<1>7. c.type \in {4, 5, 6, 8, 9} <=> c \in {SP1, Jolt, RiscZero, Miden, PLONKY2}
  BY <1>2, TypesAre DEF ActionRegistry
<1>8. CASE c \in {SP1, Jolt, Miden, RiscZero}
  <2>1. /\ 1 \in DOMAIN c.marshal /\ c.marshal[1] = F("id", "imageID")
        /\ 2 \in DOMAIN c.marshal /\ c.marshal[2] = F("uint64", "proofValType")
    <3>1. CASE c = SP1
      BY <3>1 DEF SP1
    <3>2. CASE c = Jolt
      BY <3>2 DEF Jolt, SP1
    <3>3. CASE c = Miden
      BY <3>3 DEF Miden
    <3>4. CASE c = RiscZero
      BY <3>4 DEF RiscZero
    <3> QED BY <1>8, <3>1, <3>2, <3>3, <3>4
  <2>2. a.imageID \in IDs /\ a.proofValType \in Nat
    BY <1>4, <1>5, <2>1
  <2>3. f \in Named({elfValType, a.proofValType}) \/ f \in Named({a.proofValType})
    BY <1>2, <1>8, TypesAre DEF Files, SP1ID, JoltID, RiscZeroID, MidenID, Plonky2ID
  <2>4. {elfValType, a.proofValType} \subseteq Nat /\ {a.proofValType} \subseteq Nat
    BY <2>2 DEF elfValType
  <2> QED BY <1>6, <2>2, <2>3, <2>4
<1>9. CASE c = PLONKY2
  <2>1. /\ 1 \in DOMAIN c.marshal /\ c.marshal[1] = F("id", "imageID")
        /\ 2 \in DOMAIN c.marshal /\ c.marshal[2] = F("uint64", "proofValType")
        /\ 3 \in DOMAIN c.marshal /\ c.marshal[3] = F("uint64", "commonDataValType")
        /\ 4 \in DOMAIN c.marshal /\ c.marshal[4] = F("uint64", "verifierDataValType")
    BY <1>9 DEF PLONKY2
  <2>2. a.imageID \in IDs /\ a.proofValType \in Nat /\ a.commonDataValType \in Nat
        /\ a.verifierDataValType \in Nat
    BY <1>4, <1>5, <2>1
  <2>3. f \in Named({a.commonDataValType, a.verifierDataValType, a.proofValType})
    BY <1>2, <1>9, TypesAre DEF Files, SP1ID, JoltID, RiscZeroID, MidenID, Plonky2ID
  <2>4. {a.commonDataValType, a.verifierDataValType, a.proofValType} \subseteq Nat
    BY <2>2
  <2> QED BY <1>6, <2>2, <2>3, <2>4
<1>10. CASE c \notin {SP1, Jolt, RiscZero, Miden, PLONKY2}
  <2>1. c.type \notin {4, 5, 6, 8, 9}
    BY <1>7, <1>10
  <2>2. Files(a) = {}
    BY <1>2, <2>1 DEF Files, SP1ID, JoltID, RiscZeroID, MidenID, Plonky2ID
  <2> QED BY <2>2
<1> QED BY <1>8, <1>9, <1>10

\* The three places that cut a type agree, whatever the widths: each file named to the
\* prover has the root that was registered last for its image under any congruent type,
\* and two files share a name exactly if they share a record.
THEOREM TxFilesMatchRoots == Spec => []FilesMatchRoots
<1>1. ResultsInv /\ AskedInv /\ RootsInv => FilesMatchRoots
  <2> SUFFICES ASSUME ResultsInv, AskedInv, RootsInv, NEW i \in DOMAIN asked, NEW j \in DOMAIN asked,
                      NEW f \in asked[i], NEW g \in asked[j]
               PROVE  LET image(k) == executed[k].tx.action.imageID
                      IN  /\ GetHashKeyType(store, image(i), f.type) = LastRoot(image(i), f.type)
                          /\ f.name = g.name
                               <=> HashKey(image(i), f.type) = HashKey(image(j), g.type)
    BY DEF FilesMatchRoots
  <2> DEFINE a(k) == executed[k].tx.action
  <2>1. ASSUME NEW k \in DOMAIN asked
        PROVE  IsAction(a(k)) /\ asked[k] = Files(a(k))
    <3> DEFINE S == {Files(r.action) : r \in AllRequests}
               R == Results
    <3>1. asked \in Seq(S) /\ executed \in Seq(R) /\ Len(asked) <= Len(executed)
      BY DEF AskedInv, ResultsInv
    <3> HIDE DEF S, R
    <3>2. k \in DOMAIN executed
      BY <3>1
    <3>3. executed[k] \in R
      BY <3>1, <3>2
    <3>4. \A r \in Results : r.tx \in AllRequests
      BY ResultIs DEF Results
    <3>5. executed[k].tx \in AllRequests
      BY <3>3, <3>4 DEF R
    <3>6. IsAction(a(k))
      BY <3>5, RequestAssumption DEF AllRequests, IsTx
    <3> QED BY <3>6 DEF AskedInv
  <2> DEFINE x == a(i).imageID
             y == a(j).imageID
             t == f.type
             u == g.type
  <2>2. x \in IDs /\ t \in Nat /\ f.name = DeployKey(x, t)
    <3> DEFINE b == a(i)
    <3>1. IsAction(b) /\ f \in Files(b)
      BY <2>1
    <3> HIDE DEF b
    <3>2. b.imageID \in IDs /\ f.type \in Nat /\ f.name = DeployKey(b.imageID, f.type)
      BY <3>1, FilesAre
    <3> QED BY <3>2 DEF b
  <2>3. y \in IDs /\ u \in Nat /\ g.name = DeployKey(y, u)
    <3> DEFINE b == a(j)
    <3>1. IsAction(b) /\ g \in Files(b)
      BY <2>1
    <3> HIDE DEF b
    <3>2. b.imageID \in IDs /\ g.type \in Nat /\ g.name = DeployKey(b.imageID, g.type)
      BY <3>1, FilesAre
    <3> QED BY <3>2 DEF b
  <2> HIDE DEF x, y, t, u
  <2>4. GetHashKeyType(store, x, t) = LastRoot(x, t)
    BY <2>2 DEF RootsInv, GetHashKeyType
  <2>5. f.name = g.name <=> HashKey(x, t) = HashKey(y, u)
    <3>1. HashKey(x, t) = HashKey(y, u) <=> x = y /\ Congruent(t, u)
      BY <2>2, <2>3, HashKeys
    <3>2. Uint16(t) = Uint16(u) <=> Congruent(t, u)
      BY <2>2, <2>3, CutsAgree
    <3>3. DeployKey(x, t) = DeployKey(y, u) <=> x = y /\ Uint16(t) = Uint16(u)
      BY DEF DeployKey
    <3> QED BY <2>2, <2>3, <3>1, <3>2, <3>3
  <2> QED BY <2>4, <2>5 DEF x, y, t, u
<1> QED BY <1>1, ChainInductive, ResultsInductive, AskedInductive, RootsInductive, PTL DEF Spec

-----------------------------------------------------------------------------
(* The rows of the index                                                   *)

\* f flattens the n sequences q, one after the other.
Flattens(f, q, n) ==
  /\ DOMAIN f = 1 .. n
  /\ n > 0 => f[1] = q[1]
  /\ \A i \in 1 .. n - 1 : f[i + 1] = f[i] \o q[i + 1]

\* That is the function that FlattenSeq recurs on.
LEMMA FlattenIs ==
  ASSUME NEW S, NEW n, n \in Nat \ {0}, NEW q, q \in [1 .. n -> Seq(S)]
  PROVE  \E f : Flattens(f, q, n) /\ FlattenSeq(q) = f[n]
<1> DEFINE W == Nat \X Seq(S)
           piece(i) == IF i \in 1 .. n THEN q[i] ELSE <<>>
           next == [x \in W |-> <<x[1] + 1, x[2] \o piece(x[1] + 1)>>]
           base == <<0, <<>>>>
           IsFlat(f) == f = [i \in 1 .. n |-> IF i = 1 THEN q[i] ELSE f[i - 1] \o q[i]]
<1>1. Len(q) = n /\ n # 0
  OBVIOUS
<1>2. FlattenSeq(q) = (CHOOSE f : IsFlat(f))[n]
  BY <1>1 DEF FlattenSeq
<1>3. next \in [W -> W] /\ base \in W
  <2>1. ASSUME NEW x \in W PROVE <<x[1] + 1, x[2] \o piece(x[1] + 1)>> \in W
    <3> DEFINE m == x[1] + 1
               y == x[2]
    <3>1. m \in Nat /\ y \in Seq(S) /\ piece(m) \in Seq(S)
      BY EmptySeq
    <3> DEFINE z == piece(m)
    <3> HIDE DEF m, y, z
    <3>2. y \o z \in Seq(S)
      BY <3>1, ConcatProperties DEF z
    <3> QED BY <3>1, <3>2 DEF m, y, z
  <2>2. base \in W
    BY EmptySeq
  <2> HIDE DEF W, base
  <2> QED BY <2>1, <2>2
<1>4. PICK p : p \in [Nat -> W] /\ Recurs(p, next, base)
  <2> HIDE DEF W, next, base
  <2> QED BY <1>3, RecursionExists
<1>5. \A i \in Nat : /\ p[i + 1][1] = p[i][1] + 1
                     /\ p[i + 1][2] = p[i][2] \o piece(p[i][1] + 1)
  <2> SUFFICES ASSUME NEW i \in Nat
               PROVE  /\ p[i + 1][1] = p[i][1] + 1
                      /\ p[i + 1][2] = p[i][2] \o piece(p[i][1] + 1)
    OBVIOUS
  <2>1. p[i] \in W
    BY <1>4
  <2>2. p[i + 1] = next[p[i]]
    BY <1>4 DEF Recurs
  <2> DEFINE m == p[i][1] + 1
             y == p[i][2] \o piece(p[i][1] + 1)
  <2> HIDE DEF W
  <2>3. p[i + 1] = <<m, y>>
    BY <2>1, <2>2
  <2> HIDE DEF m, y
  <2>4. p[i + 1][1] = m /\ p[i + 1][2] = y
    BY <2>3
  <2> QED BY <2>4 DEF m, y
<1>6. p[0][1] = 0 /\ p[0][2] = <<>>
  BY <1>4 DEF Recurs
<1> DEFINE T == {i \in Nat : p[i][1] = i}
<1>7. Nat \subseteq T
  <2>1. 0 \in T
    BY <1>6
  <2>2. ASSUME NEW i \in Nat, i \in T PROVE i + 1 \in T
    <3>1. p[i][1] = i /\ i + 1 \in Nat
      BY <2>2
    <3> HIDE DEF piece
    <3> QED BY <1>5, <3>1
  <2> HIDE DEF T
  <2> QED BY <2>1, <2>2, NatInductionOnSet
<1>8. \A i \in 0 .. n - 1 : p[i + 1][2] = p[i][2] \o q[i + 1]
  <2> SUFFICES ASSUME NEW i \in 0 .. n - 1 PROVE p[i + 1][2] = p[i][2] \o q[i + 1]
    OBVIOUS
  <2>1. p[i][1] = i /\ i \in Nat /\ i + 1 \in 1 .. n
    BY <1>7
  <2>2. piece(p[i][1] + 1) = q[i + 1]
    BY <2>1
  <2> HIDE DEF piece
  <2> QED BY <1>5, <2>1, <2>2
<1> DEFINE f == [i \in 1 .. n |-> p[i][2]]
<1>9. p[1][2] = q[1]
  <2>1. 0 \in 0 .. n - 1 /\ 0 + 1 = 1
    OBVIOUS
  <2>2. p[1][2] = <<>> \o q[1]
    BY <1>6, <1>8, <2>1
  <2>3. q[1] \in Seq(S)
    OBVIOUS
  <2> QED BY <2>2, <2>3, ConcatEmptySeq
<1>10. IsFlat(f)
  <2>1. ASSUME NEW i \in 1 .. n PROVE p[i][2] = IF i = 1 THEN q[i] ELSE f[i - 1] \o q[i]
    <3>1. CASE i = 1
      BY <1>9, <3>1
    <3>2. CASE i # 1
      <4>1. i - 1 \in 0 .. n - 1 /\ i - 1 \in 1 .. n /\ (i - 1) + 1 = i
        BY <3>2
      <4>2. f[i - 1] = p[i - 1][2]
        BY <4>1
      <4> QED BY <1>8, <3>2, <4>1, <4>2
    <3> QED BY <3>1, <3>2
  <2> QED BY <2>1
<1> DEFINE g == CHOOSE h : IsFlat(h)
<1>11. IsFlat(g)
  <2> HIDE DEF IsFlat, f
  <2> QED BY <1>10
<1>12. Flattens(g, q, n)
  <2> HIDE DEF g
  <2>1. DOMAIN g = 1 .. n
    BY <1>11
  <2>2. \A i \in 1 .. n : g[i] = IF i = 1 THEN q[i] ELSE g[i - 1] \o q[i]
    BY <1>11
  <2>3. g[1] = q[1]
    BY <2>2
  <2>4. ASSUME NEW i \in 1 .. n - 1 PROVE g[i + 1] = g[i] \o q[i + 1]
    <3>1. i + 1 \in 1 .. n /\ i + 1 # 1 /\ (i + 1) - 1 = i
      OBVIOUS
    <3> QED BY <2>2, <3>1
  <2> QED BY <2>1, <2>3, <2>4 DEF Flattens
<1> HIDE DEF IsFlat
<1> QED BY <1>2, <1>12

\* What is read before the end of the first of two sequences is read of the first.
LEMMA SubSeqOfFirst ==
  ASSUME NEW S, NEW x, x \in Seq(S), NEW y, y \in Seq(S), NEW a \in Nat, NEW b \in Nat,
         1 <= a, b <= Len(x)
  PROVE  SubSeq(x \o y, a, b) = SubSeq(x, a, b)
<1> DEFINE w == x \o y
<1>1. /\ w \in Seq(S) /\ Len(x) \in Nat /\ Len(y) \in Nat /\ Len(w) = Len(x) + Len(y)
      /\ \A i \in 1 .. Len(x) : w[i] = x[i] /\ i \in 1 .. Len(w)
  BY ConcatProperties, LenProperties
<1> HIDE DEF w
<1>2. \A i \in a .. b : i \in 1 .. Len(x) /\ i \in 1 .. Len(w)
  BY <1>1
<1>3. \A i \in a .. b : x[i] \in S /\ w[i] \in S
  BY <1>1, <1>2, ElementOfSeq
<1> DEFINE n == IF a <= b THEN b - a + 1 ELSE 0
           u == SubSeq(w, a, b)
           v == SubSeq(x, a, b)
<1>4. u \in Seq(S) /\ Len(u) = n /\ \A i \in 1 .. n : u[i] = w[a + i - 1]
  BY <1>3, SubSeqProperties
<1>5. v \in Seq(S) /\ Len(v) = n /\ \A i \in 1 .. n : v[i] = x[a + i - 1]
  BY <1>3, SubSeqProperties
<1>6. \A i \in 1 .. n : a + i - 1 \in a .. b
  OBVIOUS
<1>7. n \in Nat
  OBVIOUS
<1> HIDE DEF n, u, v
<1>8. \A i \in 1 .. n : u[i] = v[i]
  BY <1>1, <1>2, <1>4, <1>5, <1>6
<1>9. u = v
  BY <1>4, <1>5, <1>8, SeqEqual
<1> QED BY <1>9 DEF u, v, w

\* The pieces of b, of length L each, are q.
Pieces(b, q, n, L) ==
  \A j \in 1 .. n : SubSeq(b, (j - 1) * L + 1, j * L) = q[j]

\* Multiplication by a natural keeps an order.
LEMMA TimesGrows ==
  ASSUME NEW i \in Nat, NEW j \in Nat, j <= i, NEW L \in Nat
  PROVE  j * L <= i * L /\ j * L \in Nat /\ i * L \in Nat /\ (j + 1) * L = j * L + L
<1> DEFINE d == i - j
<1>1. d \in Nat /\ i = j + d
  OBVIOUS
<1> HIDE DEF d
<1>2. (j + d) * L = j * L + d * L /\ d * L \in Nat /\ j * L \in Nat
  BY <1>1
<1>3. i * L = j * L + d * L
  BY <1>1, <1>2
<1> QED BY <1>2, <1>3

\* A flattening is made of its pieces.
LEMMA FlattenPieces ==
  ASSUME NEW S, NEW n, n \in Nat \ {0}, NEW q, q \in [1 .. n -> Seq(S)],
         NEW L, L \in Nat, \A i \in 1 .. n : Len(q[i]) = L, NEW b, b = FlattenSeq(q)
  PROVE  b \in Seq(S) /\ Len(b) = n * L /\ Pieces(b, q, n, L)
<1>1. PICK f : Flattens(f, q, n) /\ b = f[n]
  BY FlattenIs
<1>2. f[1] = q[1] /\ \A i \in 1 .. n - 1 : f[i + 1] = f[i] \o q[i + 1]
  <2>1. n > 0
    OBVIOUS
  <2>2. f[1] = q[1]
    BY <1>1, <2>1 DEF Flattens
  <2>3. \A i \in 1 .. n - 1 : f[i + 1] = f[i] \o q[i + 1]
    BY <1>1 DEF Flattens
  <2> QED BY <2>2, <2>3
<1> DEFINE Good(i) == f[i] \in Seq(S) /\ Len(f[i]) = i * L /\ Pieces(f[i], q, i, L)
           T == {i \in Nat : 1 <= i /\ i <= n => Good(i)}
<1>3. \A i \in 1 .. n : q[i] \in Seq(S) /\ Len(q[i]) = L
  OBVIOUS
<1>4. 0 \in T
  OBVIOUS
<1>5. ASSUME NEW i \in Nat, i \in T PROVE i + 1 \in T
  <2> SUFFICES ASSUME i + 1 <= n PROVE Good(i + 1)
    OBVIOUS
  <2>1. CASE i = 0
    <3> DEFINE x == q[1]
    <3>1. f[i + 1] = x /\ x \in Seq(S) /\ Len(x) = L /\ i + 1 = 1
      BY <1>2, <1>3, <2>1
    <3> HIDE DEF x
    <3>2. SubSeq(x, 1, L) = x
      <4> DEFINE e == <<>>
      <4>1. e \in Seq(S) /\ Len(e) = 0
        BY EmptySeq
      <4> HIDE DEF e
      <4>5. e \in Seq(S) /\ x \in Seq(S)
        BY <3>1, <4>1
      <4>2. SubSeq(Cat3(e, x, e), Len(e) + 1, Len(e) + Len(x)) = x
        BY <4>5, Middle
      <4>3. Cat3(e, x, e) = x
        BY <3>1, ConcatEmptySeq DEF Cat3, e
      <4>4. Len(e) + 1 = 1 /\ Len(e) + Len(x) = L
        BY <3>1, <4>1
      <4> QED BY <4>2, <4>3, <4>4
    <3>3. 1 * L = L /\ (1 - 1) * L + 1 = 1
      OBVIOUS
    <3>4. Pieces(x, q, 1, L)
      <4>1. \A j \in 1 .. 1 : j = 1
        OBVIOUS
      <4>2. SubSeq(x, (1 - 1) * L + 1, 1 * L) = q[1]
        BY <3>2, <3>3 DEF x
      <4> QED BY <4>1, <4>2 DEF Pieces
    <3> QED BY <3>1, <3>3, <3>4
  <2>2. CASE i # 0
    <3> DEFINE x == f[i]
               y == q[i + 1]
               m == i * L
    <3>1. x \in Seq(S) /\ Len(x) = m /\ Pieces(x, q, i, L)
      BY <1>5, <2>2
    <3>2. y \in Seq(S) /\ Len(y) = L /\ f[i + 1] = x \o y
      <4>1. i \in 1 .. n - 1 /\ i + 1 \in 1 .. n
        BY <2>2
      <4>2. f[i + 1] = f[i] \o q[i + 1]
        BY <1>2, <4>1
      <4>3. q[i + 1] \in Seq(S) /\ Len(q[i + 1]) = L
        BY <1>3, <4>1
      <4> QED BY <4>2, <4>3
    <3>3. m \in Nat /\ (i + 1) * L = m + L
      BY TimesGrows
    <3> HIDE DEF x, m
    <3> HIDE DEF y
    <3>4. x \o y \in Seq(S) /\ Len(x \o y) = m + L
      BY <3>1, <3>2, ConcatProperties
    <3>5. SubSeq(x \o y, m + 1, m + L) = y
      <4> DEFINE e == <<>>
      <4>1. e \in Seq(S)
        BY EmptySeq
      <4> HIDE DEF e
      <4>5. x \in Seq(S) /\ y \in Seq(S) /\ e \in Seq(S)
        BY <3>1, <3>2, <4>1
      <4>2. SubSeq(Cat3(x, y, e), Len(x) + 1, Len(x) + Len(y)) = y
        BY <4>5, Middle
      <4>3. Cat3(x, y, e) = x \o y
        BY <3>4, ConcatEmptySeq DEF Cat3, e
      <4> QED BY <3>1, <3>2, <4>2, <4>3
    <3>6. ASSUME NEW j \in 1 .. i + 1
          PROVE  SubSeq(x \o y, (j - 1) * L + 1, j * L) = q[j]
      <4>1. CASE j = i + 1
        <5>1. (j - 1) * L = m /\ j * L = m + L
          BY <3>3, <4>1 DEF m
        <5> QED BY <3>5, <4>1, <5>1 DEF y
      <4>2. CASE j <= i
        <5>1. j \in 1 .. i /\ j \in Nat /\ j - 1 \in Nat /\ j - 1 <= j
          BY <4>2
        <5> DEFINE u == (j - 1) * L
                   v == j * L
        <5>2. u \in Nat /\ v \in Nat /\ v <= m
          BY <4>2, <5>1, TimesGrows DEF m
        <5>3. SubSeq(x, u + 1, v) = q[j]
          BY <3>1, <5>1 DEF Pieces
        <5> HIDE DEF u, v
        <5> DEFINE c == u + 1
        <5>4. c \in Nat /\ 1 <= c /\ v <= Len(x)
          BY <3>1, <5>2
        <5> HIDE DEF c
        <5>5. SubSeq(x \o y, c, v) = SubSeq(x, c, v)
          BY <3>1, <3>2, <5>2, <5>4, SubSeqOfFirst
        <5>6. SubSeq(x \o y, u + 1, v) = q[j]
          BY <5>3, <5>5 DEF c
        <5> QED BY <5>6 DEF u, v
      <4>3. j = i + 1 \/ j <= i
        OBVIOUS
      <4> QED BY <4>1, <4>2, <4>3, Zenon
    <3> QED BY <3>2, <3>3, <3>4, <3>6 DEF Pieces
  <2> QED BY <2>1, <2>2
<1>6. Nat \subseteq T
  <2> HIDE DEF T
  <2> QED BY <1>4, <1>5, NatInductionOnSet
<1>7. Good(n)
  BY <1>6
<1> QED BY <1>1, <1>7

\* The whole of a sequence is read from its first to its last.
LEMMA Whole ==
  ASSUME NEW S, NEW x, x \in Seq(S)
  PROVE  SubSeq(x, 1, Len(x)) = x
<1> DEFINE e == <<>>
<1>1. e \in Seq(S) /\ x \in Seq(S) /\ Len(e) = 0 /\ Len(x) \in Nat
  BY EmptySeq, LenProperties
<1>2. Cat3(e, x, e) = x
  BY <1>1, ConcatEmptySeq DEF Cat3
<1> HIDE DEF e
<1>3. e \in Seq(S) /\ x \in Seq(S)
  BY <1>1
<1>4. SubSeq(Cat3(e, x, e), Len(e) + 1, Len(e) + Len(x)) = x
  BY <1>3, Middle
<1>5. Len(e) + 1 = 1 /\ Len(e) + Len(x) = Len(x)
  BY <1>1
<1> QED BY <1>2, <1>4, <1>5

\* What fees.Dimensions packs, it unpacks.
LEMMA BytesAre ==
  ASSUME NEW units, units \in [1 .. Dimensions -> 0 .. MaxUint64], NEW b, b = Bytes(units)
  PROVE  b \in Seq(Byte) /\ Len(b) = DimensionsLen /\ UnpackDimensions(b) = units
<1> DEFINE n == Dimensions
           L == Uint64Len
           q == [i \in 1 .. n |-> BigEndian(units[i], L)]
<1>1. n \in Nat /\ L \in Nat /\ DimensionsLen = n * L
  BY ChunkAssumption, Widths DEF DimensionsLen
<1>2. b = FlattenSeq(q)
  BY DEF Bytes
<1>3. ASSUME NEW i \in 1 .. n
      PROVE  q[i] \in Seq(Byte) /\ Len(q[i]) = L /\ Uint(q[i]) = units[i]
  <2> DEFINE u == units[i]
  <2>1. u \in 0 .. MaxUint64
    OBVIOUS
  <2> HIDE DEF u
  <2>2. Uint(BigEndian(u, Uint64Len)) = u /\ BigEndian(u, Uint64Len) \in Seq(Byte)
        /\ Len(BigEndian(u, Uint64Len)) = Uint64Len
    BY <2>1, IntegerIs
  <2> QED BY <2>2 DEF u
<1>4. DOMAIN q = 1 .. n /\ q = [i \in 1 .. n |-> q[i]]
  OBVIOUS
<1>5. CASE n = 0
  <2>1. q = <<>>
    BY <1>5
  <2>2. b = <<>>
    BY <1>2, <2>1 DEF FlattenSeq
  <2>3. Len(b) = 0 /\ DimensionsLen = 0
    BY <1>1, <1>5, <2>2
  <2>4. UnpackDimensions(b) = units
    BY <1>5 DEF UnpackDimensions
  <2>5. b \in Seq(Byte)
    BY <2>2, EmptySeq
  <2> QED BY <2>3, <2>4, <2>5
<1>6. CASE n # 0
  <2> DEFINE S == Byte
  <2>1. \A i \in 1 .. n : q[i] \in Seq(S) /\ Len(q[i]) = L
    BY <1>3
  <2> HIDE DEF n, L, q, S
  <2>2. n \in Nat \ {0} /\ q \in [1 .. n -> Seq(S)]
    BY <1>1, <1>4, <1>6, <2>1
  <2>3. b \in Seq(S) /\ Len(b) = n * L /\ Pieces(b, q, n, L)
    BY <1>1, <1>2, <2>1, <2>2, FlattenPieces
  <2>4. ASSUME NEW i \in 1 .. n PROVE Uint(SubSeq(b, (i - 1) * L + 1, i * L)) = units[i]
    <3>1. SubSeq(b, (i - 1) * L + 1, i * L) = q[i]
      BY <2>3 DEF Pieces
    <3> QED BY <1>3, <3>1
  <2>5. UnpackDimensions(b) = [i \in 1 .. n |-> Uint(SubSeq(b, (i - 1) * L + 1, i * L))]
    BY DEF UnpackDimensions, n, L
  <2>6. units = [i \in 1 .. n |-> units[i]]
    BY DEF n
  <2>7. UnpackDimensions(b) = units
    BY <2>4, <2>5, <2>6, Zenon
  <2> QED BY <1>1, <2>3, <2>7 DEF S
<1> QED BY <1>5, <1>6

\* The value of a row, and what is read of it.
Entry(t, success, units, fee) ==
  BigEndian(t, Uint64Len) \o (IF success THEN <<1>> ELSE <<0>>)
    \o Bytes(units) \o BigEndian(fee, Uint64Len)

Holds(v, t, success, units, fee) ==
  /\ Uint(SubSeq(v, 1, Uint64Len)) = t
  /\ v[Uint64Len + 1] # 0 <=> success
  /\ UnpackDimensions(SubSeq(v, Uint64Len + 2, Uint64Len + 1 + DimensionsLen)) = units
  /\ Uint(SubSeq(v, Uint64Len + 2 + DimensionsLen, Len(v))) = fee
  /\ v # <<>>

\* Every number is read back as it was written.
LEMMA EntryHolds ==
  ASSUME NEW t, t \in 0 .. MaxUint64, NEW success, success \in BOOLEAN,
         NEW units, units \in [1 .. Dimensions -> 0 .. MaxUint64],
         NEW fee, fee \in 0 .. MaxUint64, NEW v, v = Entry(t, success, units, fee)
  PROVE  Holds(v, t, success, units, fee)
<1> DEFINE n == Uint64Len
           D == DimensionsLen
           S == Nat
           T == BigEndian(t, n)
           B == IF success THEN <<1>> ELSE <<0>>
           U == Bytes(units)
           G == BigEndian(fee, n)
           x == T \o B
           y == x \o U
           e == <<>>
<1>1. n \in Nat /\ n # 0
  BY Widths
<1>2. T \in Seq(S) /\ Len(T) = n /\ Uint(T) = t
  BY IntegerIs, BytesAreNats
<1>3. G \in Seq(S) /\ Len(G) = n /\ Uint(G) = fee
  BY IntegerIs, BytesAreNats
<1>4. B \in Seq(S) /\ Len(B) = 1 /\ (B[1] # 0 <=> success)
  OBVIOUS
<1>5. U \in Seq(S) /\ Len(U) = D /\ D \in Nat /\ UnpackDimensions(U) = units
  <2>1. U \in Seq(Byte) /\ Len(U) = D /\ UnpackDimensions(U) = units
    BY BytesAre
  <2> HIDE DEF U
  <2>2. Len(U) \in Nat /\ U \in Seq(Nat)
    BY <2>1, BytesAreNats
  <2> QED BY <2>1, <2>2
<1>6. v = y \o G
  BY DEF Entry
<1>7. e \in Seq(S)
  BY EmptySeq
<1> HIDE DEF n, D, S, T, B, U, G, e
<1>8. x \in Seq(S) /\ Len(x) = n + 1 /\ x[n + 1] = B[1]
  <2>1. T \in Seq(S) /\ B \in Seq(S)
    BY <1>2, <1>4
  <2>2. /\ x \in Seq(S) /\ Len(x) = Len(T) + Len(B)
        /\ \A i \in 1 .. Len(T) + Len(B) : x[i] = IF i <= Len(T) THEN T[i] ELSE B[i - Len(T)]
    BY <2>1, ConcatProperties
  <2>3. n + 1 \in 1 .. Len(T) + Len(B) /\ ~ (n + 1 <= Len(T)) /\ (n + 1) - Len(T) = 1
    BY <1>1, <1>2, <1>4
  <2> HIDE DEF x
  <2> QED BY <1>2, <1>4, <2>2, <2>3
<1>9. SubSeq(x, 1, n) = T
  <2>1. SubSeq(T \o B, 1, n) = SubSeq(T, 1, n)
    BY <1>1, <1>2, <1>4, SubSeqOfFirst
  <2>2. SubSeq(T, 1, Len(T)) = T
    BY <1>2, Whole
  <2> QED BY <1>2, <2>1, <2>2
<1> HIDE DEF x
<1>10. y \in Seq(S) /\ Len(y) = n + 1 + D /\ y[n + 1] = x[n + 1]
  <2>1. x \in Seq(S) /\ U \in Seq(S)
    BY <1>5, <1>8
  <2>2. /\ y \in Seq(S) /\ Len(y) = Len(x) + Len(U)
        /\ \A i \in 1 .. Len(x) + Len(U) : y[i] = IF i <= Len(x) THEN x[i] ELSE U[i - Len(x)]
    BY <2>1, ConcatProperties
  <2>3. n + 1 \in 1 .. Len(x) + Len(U) /\ n + 1 <= Len(x)
    BY <1>1, <1>5, <1>8
  <2> HIDE DEF y
  <2> QED BY <1>5, <1>8, <2>2, <2>3
<1>11. SubSeq(y, 1, n) = T
  <2>1. SubSeq(x \o U, 1, n) = SubSeq(x, 1, n)
    BY <1>1, <1>5, <1>8, SubSeqOfFirst
  <2> QED BY <1>9, <2>1
<1>12. v = Cat3(x, U, G)
  BY <1>6 DEF Cat3
<1> HIDE DEF y
<1>13. v \in Seq(S) /\ Len(v) = n + 1 + D + n /\ v[n + 1] = y[n + 1]
  <2>1. y \in Seq(S) /\ G \in Seq(S)
    BY <1>3, <1>10
  <2>2. /\ v \in Seq(S) /\ Len(v) = Len(y) + Len(G)
        /\ \A i \in 1 .. Len(y) + Len(G) : v[i] = IF i <= Len(y) THEN y[i] ELSE G[i - Len(y)]
    BY <1>6, <2>1, ConcatProperties
  <2>3. n + 1 \in 1 .. Len(y) + Len(G) /\ n + 1 <= Len(y)
    BY <1>1, <1>3, <1>5, <1>10
  <2> QED BY <1>3, <1>10, <2>2, <2>3
<1>14. SubSeq(v, 1, n) = T
  <2>1. SubSeq(y \o G, 1, n) = SubSeq(y, 1, n)
    BY <1>1, <1>3, <1>5, <1>10, SubSeqOfFirst
  <2> QED BY <1>6, <1>11, <2>1
<1>15. SubSeq(v, n + 2, n + 1 + D) = U
  <2>1. x \in Seq(S) /\ U \in Seq(S) /\ G \in Seq(S)
    BY <1>3, <1>5, <1>8
  <2>2. SubSeq(Cat3(x, U, G), Len(x) + 1, Len(x) + Len(U)) = U
    BY <2>1, Middle
  <2>3. Len(x) + 1 = n + 2 /\ Len(x) + Len(U) = n + 1 + D
    BY <1>1, <1>5, <1>8
  <2> QED BY <1>12, <2>2, <2>3
<1>16. SubSeq(v, n + 2 + D, Len(v)) = G
  <2>1. y \in Seq(S) /\ G \in Seq(S) /\ e \in Seq(S)
    BY <1>3, <1>7, <1>10
  <2>2. SubSeq(Cat3(y, G, e), Len(y) + 1, Len(y) + Len(G)) = G
    BY <2>1, Middle
  <2>3. Cat3(y, G, e) = v
    <3>1. v \o <<>> = v
      BY <1>13, ConcatEmptySeq
    <3> QED BY <1>6, <3>1 DEF Cat3, e
  <2>4. Len(y) + 1 = n + 2 + D /\ Len(y) + Len(G) = Len(v)
    BY <1>1, <1>3, <1>5, <1>10, <1>13
  <2> QED BY <2>2, <2>3, <2>4
<1>17. v # <<>>
  <2>1. Len(v) # 0
    BY <1>1, <1>5, <1>13
  <2> QED BY <2>1, EmptySeq
<1>18. v[n + 1] # 0 <=> success
  BY <1>4, <1>8, <1>10, <1>13
<1> QED BY <1>2, <1>3, <1>5, <1>14, <1>15, <1>16, <1>17, <1>18 DEF Holds, n, D

\* The row that StoreTransaction writes of a result, for a fee.
RowOf(e, fee) == Entry(e.at, e.success, Consumed(e), fee)

\* Each row of the index is that of its result, with the fee of what was sent.
RowsInv ==
  /\ now \in Times
  /\ \A i \in DOMAIN executed : executed[i].at \in Times /\ executed[i].n \in DOMAIN sent
  /\ \A i \in DOMAIN asked : db[Row(executed[i])] = RowOf(executed[i], Fee(executed[i]))

\* What was asked about has a result.
LEMMA AskedExecuted ==
  ASSUME ResultsInv, AskedInv
  PROVE  /\ Len(asked) \in Nat /\ DOMAIN asked = 1 .. Len(asked) /\ Len(executed) \in Nat
         /\ DOMAIN executed = 1 .. Len(executed) /\ Len(asked) <= Len(executed)
         /\ DOMAIN asked \subseteq DOMAIN executed
<1> DEFINE S == {Files(r.action) : r \in AllRequests}
           R == Results
<1>1. asked \in Seq(S) /\ executed \in Seq(R) /\ Len(asked) <= Len(executed)
  BY DEF AskedInv, ResultsInv
<1> HIDE DEF S, R
<1> QED BY <1>1

\* Rows are told apart by their results.
LEMMA RowsApart ==
  ASSUME NumbersInv, NEW i, i \in DOMAIN executed, NEW j, j \in DOMAIN executed,
         Row(executed[i]) = Row(executed[j])
  PROVE  i = j
<1> DEFINE a == executed[i].n
           b == executed[j].n
<1>1. a \in DOMAIN Requests /\ b \in DOMAIN Requests
  BY DEF NumbersInv, Numbers
<1>2. TxKey(TxID(a)) = TxKey(TxID(b))
  BY DEF Row
<1> HIDE DEF a, b
<1>3. a = b
  BY <1>1, <1>2, RowsDiffer
<1> QED BY <1>3 DEF NumbersInv, a, b

\* A row is written once, and what it is made of does not change.
LEMMA RowsInductive ==
  /\ Init => RowsInv
  /\ ChainInv /\ ResultsInv /\ NumbersInv /\ AskedInv /\ IndexInv /\ RowsInv /\ [Next]_vars
       => RowsInv'
<1>1. Init => RowsInv
  <2> SUFFICES ASSUME Init PROVE RowsInv
    OBVIOUS
  <2>1. now = 0 /\ DOMAIN executed = {} /\ DOMAIN asked = {}
    BY DEF Init
  <2> QED BY <2>1, ChainAssumption DEF RowsInv
<1>2. ASSUME ChainInv, ResultsInv, NumbersInv, AskedInv, IndexInv, RowsInv, [Next]_vars
      PROVE  RowsInv'
  <2>0. /\ Len(asked) \in Nat /\ DOMAIN asked = 1 .. Len(asked) /\ Len(executed) \in Nat
        /\ DOMAIN executed = 1 .. Len(executed) /\ Len(asked) <= Len(executed)
        /\ DOMAIN asked \subseteq DOMAIN executed
    BY <1>2, AskedExecuted
  <2>1. ASSUME NEW r \in Requests[Len(sent) + 1], Send(r) PROVE RowsInv'
    <3>1. UNCHANGED <<now, executed, db, asked>>
      BY <2>1 DEF Send, records
    <3>2. \A n \in DOMAIN sent : n \in DOMAIN sent' /\ sent'[n] = sent[n]
      <4> DEFINE R == {SentOf(q) : q \in AllRequests}
                 e == [request |-> r, size |-> Len(Wire(r)), tx |-> UnmarshalTx(Wire(r))]
      <4>1. sent \in Seq(R) /\ sent' = Append(sent, e)
        BY <1>2, <2>1 DEF Send, ChainInv, SentInv
      <4> HIDE DEF R, e
      <4> QED BY <4>1
    <3>3. ASSUME NEW i \in DOMAIN asked
          PROVE  db'[Row(executed[i])] = RowOf(executed[i], sent'[executed[i].n].size)
      <4>1. executed[i].n \in DOMAIN sent
        BY <1>2, <2>0 DEF RowsInv
      <4> QED BY <1>2, <3>1, <3>2, <4>1 DEF RowsInv, Fee
    <3>4. \A i \in DOMAIN executed : executed[i].at \in Times /\ executed[i].n \in DOMAIN sent'
      BY <1>2, <3>2 DEF RowsInv
    <3>5. now' \in Times
      BY <1>2, <3>1 DEF RowsInv
    <3>6. ASSUME NEW i \in DOMAIN asked'
          PROVE  db'[Row(executed'[i])] = RowOf(executed'[i], sent'[executed'[i].n].size)
      BY <3>1, <3>3
    <3> QED BY <3>1, <3>4, <3>5, <3>6
            DEF RowsInv, Row, TxKey, TxID, RowOf, Entry, Fee, Consumed, ComputeUnits
  <2>2. ASSUME NEW n \in DOMAIN sent, NEW outcome \in Outcomes, Process(n, outcome)
        PROVE  RowsInv'
    <3>1. PICK tx, w : Processes(n, tx, w)
                       /\ Grown(executed, Result(n, tx, now, ~ w.failed), executed', Results)
      BY <1>2, <2>2, ProcessAdds DEF ResultsInv
    <3> DEFINE e == Result(n, tx, now, ~ w.failed)
    <3>2. UNCHANGED <<now, sent, db, asked>>
      BY <3>1 DEF Processes
    <3>3. e.n = n /\ e.at = now
      BY ResultIs
    <3> HIDE DEF e
    <3>4. Grown(executed, e, executed', Results)
      BY <3>1 DEF e
    <3>5. ASSUME NEW i \in DOMAIN executed'
          PROVE  executed'[i].at \in Times /\ executed'[i].n \in DOMAIN sent
      <4>1. CASE i \in DOMAIN executed
        BY <1>2, <3>4, <4>1 DEF Grown, RowsInv
      <4>2. CASE i = Len(executed')
        BY <1>2, <2>2, <3>3, <3>4, <4>2 DEF Grown, RowsInv
      <4> QED BY <3>4, <4>1, <4>2 DEF Grown
    <3>6. ASSUME NEW i \in DOMAIN asked
          PROVE  db[Row(executed'[i])] = RowOf(executed'[i], sent[executed'[i].n].size)
      <4>1. executed'[i] = executed[i]
        BY <2>0, <3>4 DEF Grown
      <4>2. db[Row(executed[i])] = RowOf(executed[i], sent[executed[i].n].size)
        BY <1>2 DEF RowsInv, Fee
      <4> QED BY <4>1, <4>2
    <3>7. now \in Times
      BY <1>2 DEF RowsInv
    <3> QED BY <3>2, <3>5, <3>6, <3>7
            DEF RowsInv, Row, TxKey, TxID, RowOf, Entry, Fee, Consumed, ComputeUnits
  <2>3. CASE Accepted
    <3> DEFINE j == Len(asked) + 1
               e == executed[j]
               k == Row(e)
               f == Files(e.tx.action)
    <3>1. /\ Len(asked) < Len(executed) /\ asked' = Append(asked, f)
          /\ UNCHANGED <<now, sent, executed>>
      BY <2>3 DEF Accepted, records
    <3>2. db' = Put(db, k, RowOf(e, Fee(e)))
      BY <2>3 DEF Accepted, StoreTransaction, Row, RowOf, Entry
    <3>3. DOMAIN asked' = 1 .. j /\ j \in DOMAIN executed /\ j \in Nat
      <4> DEFINE S == {Files(r.action) : r \in AllRequests}
      <4>1. asked \in Seq(S)
        BY <1>2 DEF AskedInv
      <4> HIDE DEF S, f
      <4> QED BY <2>0, <3>1, <4>1
    <3>4. ASSUME NEW i \in 1 .. j
          PROVE  db'[Row(executed[i])] = RowOf(executed[i], Fee(executed[i]))
      <4>1. CASE i = j
        <5> DEFINE x == RowOf(e, Fee(e))
        <5>1. db' = Put(db, k, x)
          BY <3>2
        <5> HIDE DEF x, k
        <5>2. db'[k] = x
          BY <5>1 DEF Put
        <5> QED BY <4>1, <5>2 DEF x, k
      <4>2. CASE i # j
        <5>1. i \in DOMAIN asked /\ i \in DOMAIN executed
          BY <2>0, <3>3, <4>2
        <5> DEFINE l == Row(executed[i])
                   x == RowOf(e, Fee(e))
        <5>2. l # k
          BY <1>2, <3>3, <4>2, <5>1, RowsApart
        <5>3. l \in DOMAIN db
          BY <1>2, <5>1 DEF IndexInv
        <5>4. db' = Put(db, k, x)
          BY <3>2
        <5>5. db[l] = RowOf(executed[i], Fee(executed[i]))
          BY <1>2, <5>1 DEF RowsInv
        <5> HIDE DEF l, k, x
        <5>6. db'[l] = db[l]
          BY <5>2, <5>3, <5>4 DEF Put
        <5> QED BY <5>5, <5>6 DEF l
      <4> QED BY <4>1, <4>2
    <3> HIDE DEF j, e, k, f
    <3>5. \A i \in DOMAIN asked' :
            db'[Row(executed[i])] = RowOf(executed[i], sent[executed[i].n].size)
      BY <3>3, <3>4 DEF Fee
    <3>6. /\ now \in Times
          /\ \A i \in DOMAIN executed : executed[i].at \in Times /\ executed[i].n \in DOMAIN sent
      BY <1>2 DEF RowsInv
    <3> QED BY <3>1, <3>5, <3>6
            DEF RowsInv, Row, TxKey, TxID, RowOf, Entry, Fee, Consumed, ComputeUnits
  <2>4. CASE now' \in Times /\ UNCHANGED <<sent, executed, asked, db>>
    BY <1>2, <2>4
       DEF RowsInv, Row, TxKey, TxID, RowOf, Entry, Fee, Consumed, ComputeUnits
  <2>5. CASE Block
    BY <2>4, <2>5 DEF Block
  <2>6. CASE UNCHANGED vars
    BY <1>2, <2>4, <2>6 DEF vars, records, RowsInv
  <2> QED BY <1>2, <2>1, <2>2, <2>3, <2>5, <2>6 DEF Next
<1> QED BY <1>1, <1>2

\* The units of a transaction are a number.
LEMMA UnitsNat == \A tx : IsTx(tx) => ComputeUnits(tx) \in Nat
<1> SUFFICES ASSUME NEW tx, IsTx(tx) PROVE ComputeUnits(tx) \in Nat
  OBVIOUS
<1> DEFINE a == tx.action
           q == AuthUnits[tx.auth.scheme]
<1>1. q \in Nat
  <2>1. tx.auth.scheme \in AuthRegistry
    BY DEF IsTx, IsAuth
  <2> QED BY <2>1, ChainAssumption
<1>2. PICK c : IsOf(a, c)
  BY ActionIsOf DEF IsTx
<1>3. c \in ActionRegistry /\ Codec(a.type) = c
  <2>1. c \in ActionRegistry /\ a.type = c.type
    BY <1>2 DEF IsOf
  <2> QED BY <2>1, CodecOfType
<1>4. c.maxUnits \in Nat
  <2>1. Transfer.maxUnits \in Nat /\ Register.maxUnits \in Nat
    BY DEF Transfer, Register
  <2> QED BY <1>3, <2>1, UnitsAre DEF ActionRegistry
<1> HIDE DEF q, a
<1>5. ComputeUnits(tx) = 1 + c.maxUnits + q
  BY <1>3 DEF ComputeUnits, BaseComputeUnits, q, a
<1> QED BY <1>1, <1>4, <1>5

\* What is assumed of sizes and of times.
LEMMA SizesAre ==
  /\ \A r \in AllRequests : /\ IsTx(r) /\ Len(Wire(r)) \in 0 .. MaxUint64
                            /\ ComputeUnits(r) + Dimensions <= MaxUint64
  /\ MaxUint64 \in Int /\ \A t \in Times : t \in 0 .. MaxUint64
<1>1. \A r \in AllRequests : IsTx(r)
  BY RequestAssumption DEF AllRequests
<1>2. \A r \in AllRequests : /\ Len(Wire(r)) \in 0 .. MaxUint64
                             /\ ComputeUnits(r) + Dimensions <= MaxUint64
  BY SizeAssumption DEF AllRequests
<1>3. MaxUint64 \in Int
  BY PowNat, Widths DEF MaxUint64
<1>4. ASSUME NEW t \in Times PROVE t \in 0 .. MaxUint64
  <2>1. t \in Nat
    BY ChainAssumption
  <2>2. t + 300000 <= MaxUint64
    BY ChainAssumption
  <2> QED BY <1>3, <2>1, <2>2
<1> QED BY <1>1, <1>2, <1>3, <1>4

\* What a result consumed fits integers, and so do its timestamp and its fee.
LEMMA ResultFits ==
  ASSUME SentInv, ResultsInv, RowsInv, NEW i, i \in DOMAIN executed
  PROVE  /\ executed[i].at \in 0 .. MaxUint64 /\ executed[i].success \in BOOLEAN
         /\ Fee(executed[i]) \in 0 .. MaxUint64
         /\ Consumed(executed[i]) \in [1 .. Dimensions -> 0 .. MaxUint64]
<1> DEFINE e == executed[i]
           tx == e.tx
           R == Results
<1>1. e \in R
  <2>1. executed \in Seq(R)
    BY DEF ResultsInv
  <2> HIDE DEF R
  <2> QED BY <2>1
<1>2. tx \in AllRequests /\ e.success \in BOOLEAN
  BY <1>1, ResultIs DEF Results
<1>3. IsTx(tx) /\ ComputeUnits(tx) + Dimensions <= MaxUint64
  BY <1>2, SizesAre
<1>4. e.at \in Times /\ e.n \in DOMAIN sent
  BY DEF RowsInv
<1>5. MaxUint64 \in Int
  BY SizesAre
<1>6. e.at \in 0 .. MaxUint64
  BY <1>4, SizesAre
<1>7. Fee(e) \in 0 .. MaxUint64
  <2> DEFINE S == {SentOf(q) : q \in AllRequests}
             n == e.n
  <2>1. sent \in Seq(S) /\ n \in DOMAIN sent
    BY <1>4 DEF SentInv
  <2> HIDE DEF S, n
  <2>2. sent[n] \in S
    BY <2>1
  <2>3. PICK q \in AllRequests : sent[n] = SentOf(q)
    BY <2>2 DEF S
  <2>4. sent[n].size = Len(Wire(q))
    BY <2>3 DEF SentOf
  <2>5. Len(Wire(q)) \in 0 .. MaxUint64
    BY SizesAre
  <2> QED BY <2>4, <2>5 DEF Fee, n
<1>8. Consumed(e) \in [1 .. Dimensions -> 0 .. MaxUint64]
  <2> DEFINE u == ComputeUnits(tx)
             d == Dimensions
  <2>1. u \in Nat
    BY <1>3, UnitsNat
  <2>2. d \in Nat /\ u + d <= MaxUint64
    BY <1>3, ChunkAssumption
  <2> HIDE DEF u, d
  <2>3. \A k \in 1 .. d : u + k \in 0 .. MaxUint64
    BY <1>5, <2>1, <2>2
  <2>4. Consumed(e) = [k \in 1 .. d |-> u + k]
    BY DEF Consumed, u, d
  <2> QED BY <2>3, <2>4 DEF d
<1> QED BY <1>2, <1>6, <1>7, <1>8

\* Tx answers for a row with what the row holds.
LEMMA TxAnswers ==
  ASSUME NEW id, TxKey(id) \in DOMAIN db,
         NEW t, NEW success \in BOOLEAN, NEW units, NEW fee,
         Holds(db[TxKey(id)], t, success, units, fee)
  PROVE  Tx(id) = [err |-> FALSE, timestamp |-> t, success |-> success,
                   units |-> units, fee |-> fee]
<1> DEFINE v == db[TxKey(id)]
           b == v[Uint64Len + 1] # 0
           yes == TRUE
           no == FALSE
           g == GetTransaction(db, id)
<1>1. /\ Uint(SubSeq(v, 1, Uint64Len)) = t /\ b = success
      /\ UnpackDimensions(SubSeq(v, Uint64Len + 2, Uint64Len + 1 + DimensionsLen)) = units
      /\ Uint(SubSeq(v, Uint64Len + 2 + DimensionsLen, Len(v))) = fee
      /\ v # <<>>
  BY DEF Holds
<1>2. Get(db, TxKey(id)) = v
  BY DEF Get
<1>3. v # NotFound
  BY <1>1 DEF NotFound
<1> HIDE DEF v
<1>4. GetTransaction(db, id)
      = [ found   |-> yes,
          t       |-> Uint(SubSeq(v, 1, Uint64Len)),
          success |-> b,
          units   |-> UnpackDimensions(SubSeq(v, Uint64Len + 2, Uint64Len + 1 + DimensionsLen)),
          fee     |-> Uint(SubSeq(v, Uint64Len + 2 + DimensionsLen, Len(v))) ]
  BY <1>2, <1>3 DEF GetTransaction
<1> HIDE DEF b
<1>5. g = [found |-> yes, t |-> t, success |-> success, units |-> units, fee |-> fee]
  BY <1>1, <1>4
<1> HIDE DEF g, yes, no
<1>6. g.found = yes /\ g.t = t /\ g.success = success /\ g.units = units /\ g.fee = fee
  BY <1>5
<1>7. Tx(id) = [err |-> no, timestamp |-> g.t, success |-> g.success,
                units |-> g.units, fee |-> g.fee]
  BY <1>6 DEF Tx, g, yes, no
<1> QED BY <1>6, <1>7 DEF no

\* The Tx method answers with every number of the result of a transaction that the node
\* has accepted, and has not heard of any other.
THEOREM TxRepliesWithResults == Spec => []TxReplies
<1>1. SentInv /\ ResultsInv /\ NumbersInv /\ AskedInv /\ IndexInv /\ RowsInv => TxReplies
  <2> SUFFICES ASSUME SentInv, ResultsInv, NumbersInv, AskedInv, IndexInv, RowsInv,
                      NEW n \in DOMAIN Requests
               PROVE  IF \E i \in DOMAIN asked : executed[i].n = n
                      THEN LET e == CHOOSE e \in ToSet(executed) : e.n = n
                           IN  Tx(TxID(n)) = [err |-> FALSE, timestamp |-> e.at,
                                              success |-> e.success,
                                              units |-> Consumed(e), fee |-> Fee(e)]
                      ELSE Tx(TxID(n)) = [err |-> TRUE]
    BY DEF TxReplies
  <2>0. DOMAIN asked \subseteq DOMAIN executed
    BY AskedExecuted
  <2>1. ASSUME NEW i \in DOMAIN asked, executed[i].n = n
        PROVE  LET e == CHOOSE e \in ToSet(executed) : e.n = n
               IN  Tx(TxID(n)) = [err |-> FALSE, timestamp |-> e.at, success |-> e.success,
                                  units |-> Consumed(e), fee |-> Fee(e)]
    <3> DEFINE e == executed[i]
               c == CHOOSE x \in ToSet(executed) : x.n = n
    <3>1. i \in DOMAIN executed /\ e \in ToSet(executed) /\ e.n = n
      BY <2>0, <2>1 DEF ToSet
    <3>2. \A x \in ToSet(executed) : x.n = n => x = e
      BY <3>1 DEF ToSet, NumbersInv
    <3>3. c = e
      BY <3>1, <3>2
    <3>4. /\ e.at \in 0 .. MaxUint64 /\ e.success \in BOOLEAN /\ Fee(e) \in 0 .. MaxUint64
          /\ Consumed(e) \in [1 .. Dimensions -> 0 .. MaxUint64]
      BY <3>1, ResultFits
    <3>5. Row(e) = TxKey(TxID(n)) /\ TxKey(TxID(n)) \in DOMAIN db
      BY <2>1 DEF IndexInv, Row
    <3>6. db[Row(e)] = RowOf(e, Fee(e))
      BY DEF RowsInv
    <3> DEFINE t == e.at
               b == e.success
               u == Consumed(e)
               f == Fee(e)
               v == db[TxKey(TxID(n))]
               id == TxID(n)
    <3>7. v = Entry(t, b, u, f)
      BY <3>5, <3>6 DEF RowOf
    <3> HIDE DEF t, b, u, f, v
    <3>8. Holds(v, t, b, u, f)
      BY <3>4, <3>7, EntryHolds DEF t, b, u, f
    <3> HIDE DEF id
    <3>9. Tx(id) = [err |-> FALSE, timestamp |-> t, success |-> b, units |-> u, fee |-> f]
      <4>1. b \in BOOLEAN /\ TxKey(id) \in DOMAIN db /\ Holds(db[TxKey(id)], t, b, u, f)
        BY <3>4, <3>5, <3>8 DEF b, v, id
      <4> QED BY <4>1, TxAnswers
    <3> HIDE DEF c, e
    <3>10. Tx(TxID(n)) = [err |-> FALSE, timestamp |-> c.at, success |-> c.success,
                          units |-> Consumed(c), fee |-> Fee(c)]
      BY <3>3, <3>9 DEF t, b, u, f, id
    <3> QED BY <3>10 DEF c
  <2>2. ASSUME ~ \E i \in DOMAIN asked : executed[i].n = n
        PROVE  Tx(TxID(n)) = [err |-> TRUE]
    <3>1. TxKey(TxID(n)) \notin DOMAIN db
      <4> SUFFICES ASSUME TxKey(TxID(n)) \in DOMAIN db PROVE FALSE
        OBVIOUS
      <4>1. PICK i \in DOMAIN asked : TxKey(TxID(n)) = Row(executed[i])
        BY DEF IndexInv
      <4> DEFINE m == executed[i].n
      <4>2. m \in DOMAIN Requests /\ TxKey(TxID(n)) = TxKey(TxID(m))
        BY <2>0, <4>1 DEF NumbersInv, Numbers, Row
      <4> HIDE DEF m
      <4>3. m = n
        BY <4>2, RowsDiffer
      <4> QED BY <2>2, <4>3 DEF m
    <3>2. Get(db, TxKey(TxID(n))) = NotFound
      BY <3>1 DEF Get
    <3> DEFINE no == FALSE
               yes == TRUE
               id == TxID(n)
               g == GetTransaction(db, id)
    <3>3. g = [found |-> no]
      BY <3>2 DEF GetTransaction
    <3> HIDE DEF g, no, yes, id
    <3>4. g.found = no
      BY <3>3
    <3>5. Tx(id) = [err |-> yes]
      BY <3>4 DEF Tx, g, no, yes
    <3> QED BY <3>5 DEF yes, id
  <2> QED BY <2>1, <2>2
<1>2. ChainInv => SentInv
  BY DEF ChainInv
<1> QED BY <1>1, <1>2, ChainInductive, ResultsInductive, NumbersInductive, AskedInductive,
           IndexInductive, RowsInductive, PTL DEF Spec

-----------------------------------------------------------------------------
(* The voting records                                                      *)

\* The records of a store, as ProofVoting has them.
Num(s, key)  == IF Get(s, key) = NotFound THEN -1 ELSE Uint(Get(s, key))
Deadlines(s) == [id \in TxIDs |-> Num(s, TimeOutKey(id))]
Weights(s)   == [id \in TxIDs |-> Num(s, WeightKey(id))]
Marked(s)    == {id \in TxIDs : ~ GetVerifyStatusFromState(s, id).err}
VotesIn(s)   == {va \in TxIDs \X Accounts : GetVote(s, va[1], va[2])}

\* Transactions have ids of the length of ids.
LEMMA IDsOfTxs == TxIDs \subseteq IDs
<1> SUFFICES ASSUME NEW n \in DOMAIN Requests PROVE TxID(n) \in IDs
  BY DEF TxIDs
<1>1. n \in Nat
  BY RequestNumbers
<1> QED BY <1>1, TxIDsAre

\* A vote's key begins with its prefix, and is told by the id and the account.
LEMMA VoteKeyIs ==
  ASSUME NEW x, x \in Seq(Byte), NEW b, b \in Seq(Byte)
  PROVE  VoteKey(x, b) = KeyIs(11, x \o b, 1)
<1> DEFINE S == Nat
           p == <<11>>
           z == Suffix(1)
           v == x \o b
<1>1. p \in Seq(S) /\ x \in Seq(S) /\ b \in Seq(S)
  <2>1. PICK n \in Nat : n = 11
    OBVIOUS
  <2>2. <<n>> \in Seq(Nat)
    BY OneNat
  <2> QED BY <2>1, <2>2, BytesAreNats
<1> HIDE DEF S, p, z
<1>2. (p \o x) \o b = p \o v
  BY <1>1, ConcatAssociative
<1>3. VoteKey(x, b) = ((p \o x) \o b) \o z
  BY DEF VoteKey, votePrefix, TimeOutChunks, p, z
<1> HIDE DEF v
<1>4. KeyIs(11, v, 1) = (p \o v) \o z
  BY DEF KeyIs, Cat3, p, z
<1> QED BY <1>2, <1>3, <1>4 DEF v

\* Of two sequences one after the other, each is found where it is.
LEMMA Halves ==
  ASSUME NEW S, NEW u, u \in Seq(S), NEW d, d \in Seq(S)
  PROVE  SubSeq(u \o d, 1, Len(u)) = u /\ SubSeq(u \o d, Len(u) + 1, Len(u) + Len(d)) = d
<1> DEFINE e == <<>>
           w == u \o d
<1>0. e \in Seq(S) /\ Len(e) = 0 /\ Len(u) \in Nat
  BY EmptySeq, LenProperties
<1>1. w \in Seq(S) /\ e \o u = u
  BY ConcatProperties, ConcatEmptySeq
<1> HIDE DEF w
<1>2. w \o e = w
  BY <1>1, ConcatEmptySeq
<1>3. Cat3(e, u, d) = w /\ Cat3(u, d, e) = w
  BY <1>1, <1>2 DEF Cat3, w
<1> HIDE DEF e
<1>4. e \in Seq(S) /\ u \in Seq(S) /\ d \in Seq(S)
  BY <1>0
<1>5. SubSeq(Cat3(e, u, d), Len(e) + 1, Len(e) + Len(u)) = u
  BY <1>4, Middle
<1>6. SubSeq(Cat3(u, d, e), Len(u) + 1, Len(u) + Len(d)) = d
  BY <1>4, Middle
<1>7. Len(e) + 1 = 1 /\ Len(e) + Len(u) = Len(u)
  BY <1>0
<1> QED BY <1>3, <1>5, <1>6, <1>7 DEF w

\* Two such are told apart, where the first have one length.
LEMMA BothTold ==
  ASSUME NEW S, NEW x, x \in Seq(S), NEW y, y \in Seq(S), NEW b, b \in Seq(S), NEW c, c \in Seq(S),
         Len(x) = Len(y), Len(b) = Len(c), x \o b = y \o c
  PROVE  x = y /\ b = c
<1>1. SubSeq(x \o b, 1, Len(x)) = x /\ SubSeq(x \o b, Len(x) + 1, Len(x) + Len(b)) = b
  BY Halves
<1>2. SubSeq(y \o c, 1, Len(y)) = y /\ SubSeq(y \o c, Len(y) + 1, Len(y) + Len(c)) = c
  BY Halves
<1> DEFINE v == x \o b
           w == y \o c
<1>3. v = w
  OBVIOUS
<1> HIDE DEF v, w
<1>4. /\ SubSeq(v, 1, Len(x)) = x /\ SubSeq(v, Len(x) + 1, Len(x) + Len(b)) = b
      /\ SubSeq(w, 1, Len(x)) = y /\ SubSeq(w, Len(x) + 1, Len(x) + Len(b)) = c
  BY <1>1, <1>2 DEF v, w
<1> QED BY <1>3, <1>4

\* The keys of a deadline and of a weight are told by the transaction.
LEMMA IdKeys ==
  ASSUME NEW x, x \in IDs, NEW y, y \in IDs
  PROVE  /\ TimeOutKey(x) = TimeOutKey(y) => x = y
         /\ WeightKey(x) = WeightKey(y) => x = y
<1>1. x \in Seq(Byte) /\ y \in Seq(Byte) /\ Len(x) = IDLen /\ Len(y) = IDLen
  BY ArraysAreBytes
<1>3. PICK p \in Nat, q \in Nat, m \in 0 .. 9 : p = 8 /\ q = 9 /\ m = 1
  OBVIOUS
<1>4. \A z : TimeOutKey(z) = KeyIs(p, z, m) /\ WeightKey(z) = KeyIs(q, z, m)
  BY <1>3 DEF TimeOutKey, WeightKey, KeyIs, Cat3, timeOutPrefix, weightPrefix, TimeOutChunks
<1>5. ASSUME TimeOutKey(x) = TimeOutKey(y) PROVE x = y
  <2>1. KeyIs(p, x, m) = KeyIs(p, y, m)
    BY <1>4, <1>5
  <2> QED BY <1>1, <2>1, KeysDiffer
<1>6. ASSUME WeightKey(x) = WeightKey(y) PROVE x = y
  <2>1. KeyIs(q, x, m) = KeyIs(q, y, m)
    BY <1>4, <1>6
  <2> QED BY <1>1, <2>1, KeysDiffer
<1> QED BY <1>5, <1>6

\* The key of a vote, by the transaction and the account.
LEMMA VoteKeys ==
  ASSUME NEW x, x \in IDs, NEW y, y \in IDs, NEW b, b \in Accounts, NEW c, c \in Accounts
  PROVE  VoteKey(x, b) = VoteKey(y, c) => x = y /\ b = c
<1>1. /\ x \in Seq(Byte) /\ y \in Seq(Byte) /\ Len(x) = IDLen /\ Len(y) = IDLen
      /\ b \in Seq(Byte) /\ c \in Seq(Byte)
  BY ArraysAreBytes
<1>2. Len(b) = AddressLen /\ Len(c) = AddressLen
  BY ArraysAreBytes, ChainAssumption
<1>3. PICK r \in Nat, m \in 0 .. 9 : r = 11 /\ m = 1
  OBVIOUS
<1>7. ASSUME VoteKey(x, b) = VoteKey(y, c) PROVE x = y /\ b = c
  <2> DEFINE v == x \o b
             w == y \o c
  <2>1. v \in Seq(Byte) /\ w \in Seq(Byte) /\ Len(v) = IDLen + AddressLen /\ Len(w) = IDLen + AddressLen
    <3> DEFINE S == Byte
    <3>1. x \in Seq(S) /\ y \in Seq(S) /\ b \in Seq(S) /\ c \in Seq(S)
      BY <1>1
    <3> HIDE DEF S
    <3>2. v \in Seq(S) /\ w \in Seq(S) /\ Len(v) = Len(x) + Len(b) /\ Len(w) = Len(y) + Len(c)
      BY <3>1, ConcatProperties
    <3> QED BY <1>1, <1>2, <3>2 DEF S
  <2>2. VoteKey(x, b) = KeyIs(r, v, m) /\ VoteKey(y, c) = KeyIs(r, w, m)
    BY <1>1, <1>3, VoteKeyIs
  <2> HIDE DEF v, w
  <2>3. KeyIs(r, v, m) = KeyIs(r, w, m)
    BY <1>7, <2>2
  <2>4. v = w
    BY <2>1, <2>3, KeysDiffer
  <2>5. x \o b = y \o c
    BY <2>4 DEF v, w
  <2> DEFINE S == Byte
  <2>6. x \in Seq(S) /\ y \in Seq(S) /\ b \in Seq(S) /\ c \in Seq(S) /\ Len(x) = Len(y) /\ Len(b) = Len(c)
    BY <1>1, <1>2
  <2> HIDE DEF S
  <2> QED BY <2>5, <2>6, BothTold
<1> QED BY <1>7

\* Where no key is written, a record stays as it is.
LEMMA SameAt ==
  \A s, t, L, k : Only(s, t, L) /\ k \notin L => Get(t, k) = Get(s, k)
BY DEF Only, Get

\* So do all records of a kind.
LEMMA RecordsSame ==
  ASSUME NEW s, NEW t, NEW L, Only(s, t, L)
  PROVE  /\ (\A id \in TxIDs : TimeOutKey(id) \notin L) => Deadlines(t) = Deadlines(s)
         /\ (\A id \in TxIDs : WeightKey(id) \notin L) => Weights(t) = Weights(s)
         /\ (\A id \in TxIDs, b \in Accounts : VoteKey(id, b) \notin L) => VotesIn(t) = VotesIn(s)
<1>1. ASSUME \A id \in TxIDs : TimeOutKey(id) \notin L PROVE Deadlines(t) = Deadlines(s)
  <2>1. \A id \in TxIDs : Get(t, TimeOutKey(id)) = Get(s, TimeOutKey(id))
    BY <1>1, SameAt
  <2> QED BY <2>1 DEF Deadlines, Num
<1>2. ASSUME \A id \in TxIDs : WeightKey(id) \notin L PROVE Weights(t) = Weights(s)
  <2>1. \A id \in TxIDs : Get(t, WeightKey(id)) = Get(s, WeightKey(id))
    BY <1>2, SameAt
  <2> QED BY <2>1 DEF Weights, Num
<1>3. ASSUME \A id \in TxIDs, b \in Accounts : VoteKey(id, b) \notin L PROVE VotesIn(t) = VotesIn(s)
  <2>1. \A id \in TxIDs, b \in Accounts : Get(t, VoteKey(id, b)) = Get(s, VoteKey(id, b))
    BY <1>3, SameAt
  <2>2. \A va \in TxIDs \X Accounts : GetVote(t, va[1], va[2]) <=> GetVote(s, va[1], va[2])
    BY <2>1 DEF GetVote
  <2> QED BY <2>2 DEF VotesIn
<1> QED BY <1>1, <1>2, <1>3

\* Keys of other prefixes are not theirs.
LEMMA OtherKeys ==
  ASSUME NEW L, NEW id, id \in TxIDs
  PROVE  /\ (\A k \in L : k[1] # 8) => TimeOutKey(id) \notin L
         /\ (\A k \in L : k[1] # 9) => WeightKey(id) \notin L
         /\ (\A k \in L : k[1] # 10) => StatusKey(id) \notin L
         /\ (\A k \in L : k[1] # 11) => \A b \in Accounts : VoteKey(id, b) \notin L
<1>1. id \in Seq(Byte)
  BY IDsOfTxs, ArraysAreBytes
<1>2. \A b \in Accounts : VoteKey(id, b)[1] = 11
  BY <1>1, ArraysAreBytes, KeysAre
<1>3. TimeOutKey(id)[1] = 8 /\ WeightKey(id)[1] = 9 /\ StatusKey(id)[1] = 10
  BY <1>1, KeysAre
<1> QED BY <1>2, <1>3

\* Without a status record nothing is marked.
LEMMA NothingMarked ==
  ASSUME NEW s, \A k \in DOMAIN s : k[1] # 10
  PROVE  Marked(s) = {}
<1> DEFINE D == DOMAIN s
<1>1. \A id \in TxIDs : StatusKey(id) \notin D
  <2>1. \A k \in D : k[1] # 10
    OBVIOUS
  <2> HIDE DEF D
  <2> QED BY <2>1, OtherKeys
<1>2. \A id \in TxIDs : GetVerifyStatusFromState(s, id).err
  BY <1>1 DEF GetVerifyStatusFromState, Get, NotFound
<1> QED BY <1>2 DEF Marked

\* Exactly one key is put.
Puts(v, w, K, key, val) ==
  IsView(w, K) /\ w.failed = v.failed /\ w.store = Put(v.store, key, val)

\* Insert puts an integer where the view may, at a key of one chunk.
LEMMA IntegerPuts ==
  ASSUME NEW v, NEW K, IsView(v, K), NEW p \in Nat, NEW id, id \in Seq(Byte),
         NEW key, key = KeyIs(p, id, 1), key \in K,
         NEW val, Len(val) = Uint64Len \/ Len(val) = Uint16Len, NEW w, w = Insert(v, key, val)
  PROVE  Puts(v, w, K, key, val)
<1>1. Inserted(v, K, key, val, w)
  BY InsertIs
<1>2. Allowed(key, val)
  BY IntegerFits
<1> QED BY <1>1, <1>2 DEF Inserted, Puts

\* The keys of the voting records.
LEMMA RecordKeys ==
  ASSUME NEW id, id \in Seq(Byte), NEW b, b \in Seq(Byte)
  PROVE  /\ TimeOutKey(id) = KeyIs(8, id, 1) /\ WeightKey(id) = KeyIs(9, id, 1)
         /\ VoteKey(id, b) = KeyIs(11, id \o b, 1) /\ id \o b \in Seq(Byte)
<1>1. TimeOutKey(id) = KeyIs(8, id, 1) /\ WeightKey(id) = KeyIs(9, id, 1)
  BY DEF TimeOutKey, WeightKey, KeyIs, Cat3, timeOutPrefix, weightPrefix, TimeOutChunks
<1>2. VoteKey(id, b) = KeyIs(11, id \o b, 1)
  BY VoteKeyIs
<1>3. id \o b \in Seq(Byte)
  BY ConcatProperties
<1> QED BY <1>1, <1>2, <1>3

\* The weight after a yes vote, of uint64.
Tallied(s, id, weight) ==
  IF Get(s, WeightKey(id)) = NotFound THEN weight
  ELSE (Uint(Get(s, WeightKey(id))) + weight) % (MaxUint64 + 1)

\* It is one.
LEMMA TalliedType ==
  ASSUME NEW s, Sound(s), NEW id, NEW weight, weight \in 0 .. MaxUint64
  PROVE  Tallied(s, id, weight) \in 0 .. MaxUint64
<1> DEFINE x == Uint(Get(s, WeightKey(id)))
           M == MaxUint64
<1>1. x \in Nat /\ M \in Nat
  BY GetIs, MaxInts
<1>2. Tallied(s, id, weight) = weight \/ Tallied(s, id, weight) = (x + weight) % (M + 1)
  BY DEF Tallied
<1> HIDE DEF x, M
<1>3. ((x + weight) % (M + 1)) \in 0 .. M
  <2>1. weight \in Nat
    BY <1>1 DEF M
  <2> QED BY <1>1, <2>1
<1>4. weight \in 0 .. M
  BY DEF M
<1> QED BY <1>2, <1>3, <1>4 DEF M

\* UpdateWeight writes the tally, where it may; the status, which it may not, it leaves.
LEMMA UpdateWeightIs ==
  ASSUME NEW v, NEW K, IsView(v, K), Sound(v.store), NEW id, id \in Seq(Byte),
         StatusKey(id) \notin K, WeightKey(id) \in K,
         NEW weight, weight \in 0 .. MaxUint64, NEW total, NEW w, w = UpdateWeight(v, id, weight, total)
  PROVE  Puts(v, w, K, WeightKey(id), BigEndian(Tallied(v.store, id, weight), Uint64Len))
<1> DEFINE val == Get(v.store, WeightKey(id))
           nW  == (Uint(val) + weight) % (MaxUint64 + 1)
           one == BigEndian(1, Uint16Len)
           i   == Insert(v, StatusKey(id), one)
           d   == Drop(v, i)
           m   == IF nW > total THEN d ELSE v
           n   == Tallied(v.store, id, weight)
           u   == IF val = NotFound THEN v ELSE m
           key == WeightKey(id)
           x   == BigEndian(n, Uint64Len)
<1>1. w = Insert(u, key, x)
  <2> DEFINE b == BigEndian(weight, Uint64Len)
             c == BigEndian(nW, Uint64Len)
  <2>1. w = IF val = NotFound THEN Insert(v, key, b) ELSE Insert(m, key, c)
    BY DEF UpdateWeight
  <2>2. n = IF val = NotFound THEN weight ELSE nW
    BY DEF Tallied
  <2> HIDE DEF m, nW, val, n
  <2> QED BY <2>1, <2>2
<1>2. Len(x) = Uint64Len
  <2>1. n \in Nat
    BY TalliedType, MaxInts
  <2> HIDE DEF n
  <2> QED BY <2>1, BigEndianBytes, Widths
<1>3. IsView(u, K) /\ u.store = v.store /\ u.failed = v.failed
  <2>1. Inserted(v, K, StatusKey(id), one, i)
    <3> HIDE DEF i, one
    <3>1. i = Insert(v, StatusKey(id), one)
      BY DEF i
    <3> QED BY <3>1, InsertIs
  <2>2. i.store = v.store
    <3> DEFINE b == TRUE
               s == v.store
    <3>1. i = [v EXCEPT !.failed = b] /\ v = [store |-> s, keys |-> K, failed |-> v.failed] /\ v.keys = K
      <4>1. v = [store |-> s, keys |-> K, failed |-> v.failed]
        BY DEF IsView
      <4> HIDE DEF s, b, one
      <4>2. v.keys = K
        BY <4>1
      <4>3. i = [v EXCEPT !.failed = b]
        BY <4>2 DEF Insert, b
      <4> QED BY <4>1, <4>2, <4>3
    <3> HIDE DEF b, s, i
    <3>2. i = [store |-> s, keys |-> K, failed |-> b]
      BY <3>1
    <3>3. i.store = s
      BY <3>2
    <3> QED BY <3>3 DEF s
  <2> HIDE DEF i
  <2>3. IsView(d, K) /\ d.store = v.store /\ d.failed = v.failed
    BY <2>1, <2>2, DropIs DEF Inserted
  <2> HIDE DEF d, nW, val
  <2> QED BY <2>3
<1> HIDE DEF u, x, key
<1>4. key = KeyIs(9, id, 1) /\ key \in K
  BY RecordKeys DEF key
<1>5. PICK p \in Nat : p = 9
  OBVIOUS
<1>6. Puts(u, w, K, key, x)
  <2>1. key = KeyIs(p, id, 1)
    BY <1>4, <1>5
  <2> QED BY <1>1, <1>2, <1>3, <1>4, <2>1, IntegerPuts
<1>7. Puts(v, w, K, key, x)
  BY <1>3, <1>6 DEF Puts
<1> QED BY <1>7 DEF key, x

\* What is left of a vote that counts, and of one that does not.
VoteLeaves(v, w, a, actor) ==
  /\ ~ w.failed
  /\ w.store = Put(IF a.vote
                   THEN Put(v.store, WeightKey(a.txID),
                            BigEndian(Tallied(v.store, a.txID, Weight), Uint64Len))
                   ELSE v.store,
                   VoteKey(a.txID, actor), BigEndian(1, Uint16Len))

\* A vote counts once; its two writes are done, as it declares both keys.
LEMMA VoteCountsIs ==
  ASSUME NEW v, NEW K, IsView(v, K), ~ v.failed, Sound(v.store), NEW a, a.txID \in Seq(Byte),
         NEW actor, actor \in Seq(Byte), StatusKey(a.txID) \notin K, WeightKey(a.txID) \in K,
         VoteKey(a.txID, actor) \in K, NEW outcome, Counts(a, actor, outcome),
         NEW w, w = ExecuteValidatorVote(v, a, actor, outcome)
  PROVE  VoteLeaves(v, w, a, actor)
<1> DEFINE id == a.txID
           u == UpdateWeight(v, id, Weight, Weight)
           d == Drop(v, u)
           x == IF a.vote THEN d ELSE v
           one == BigEndian(1, Uint16Len)
           key == VoteKey(id, actor)
           y == Insert(x, key, one)
           s == Put(v.store, WeightKey(id), BigEndian(Tallied(v.store, id, Weight), Uint64Len))
           t == IF a.vote THEN s ELSE v.store
<1>1. w = Drop(v, y)
  <2> DEFINE p == Drop(v, StoreVote(x, id, actor))
             c == Counts(a, actor, outcome)
             e == InWindow(id) /\ outcome = "unmatched"
             f == Fail(v)
  <2>1. w = CASE c -> p [] e -> v [] OTHER -> f
    BY DEF ExecuteValidatorVote
  <2>2. p = Drop(v, y)
    BY DEF StoreVote
  <2>3. c /\ ~ e
    BY DEF Counts
  <2> HIDE DEF p, c, e, f, y
  <2> QED BY <2>1, <2>2, <2>3
<1>2. Puts(v, u, K, WeightKey(id), BigEndian(Tallied(v.store, id, Weight), Uint64Len))
  <2>1. u = UpdateWeight(v, id, Weight, Weight) /\ Weight \in 0 .. MaxUint64
    BY ChainAssumption
  <2> HIDE DEF u, id
  <2>2. id \in Seq(Byte) /\ StatusKey(id) \notin K /\ WeightKey(id) \in K
    BY DEF id
  <2> QED BY <2>1, <2>2, UpdateWeightIs
<1>3. IsView(d, K) /\ d.store = s /\ d.failed = v.failed
  <2> HIDE DEF u
  <2>1. IsView(u, K) /\ u.store = s
    BY <1>2 DEF Puts
  <2> HIDE DEF s
  <2> QED BY <2>1, DropIs
<1>4. IsView(x, K) /\ x.store = t /\ x.failed = v.failed
  <2> HIDE DEF d, s
  <2> QED BY <1>3
<1> HIDE DEF x, t
<1>5. key = KeyIs(11, id \o actor, 1) /\ id \o actor \in Seq(Byte) /\ key \in K
  <2> HIDE DEF id
  <2>1. id \in Seq(Byte) /\ VoteKey(id, actor) \in K
    BY DEF id
  <2> QED BY <2>1, RecordKeys
<1>6. Len(one) = Uint16Len
  BY BigEndianBytes, Widths
<1> DEFINE z == id \o actor
<1> HIDE DEF one, key
<1>7. Puts(x, y, K, key, one)
  <2>1. y = Insert(x, key, one)
    OBVIOUS
  <2>2. z \in Seq(Byte) /\ key \in K
    BY <1>5
  <2>3. PICK p \in Nat : p = 11
    OBVIOUS
  <2>4. key = KeyIs(p, z, 1)
    BY <1>5, <2>3
  <2> HIDE DEF y, z
  <2> QED BY <1>4, <1>6, <2>1, <2>2, <2>4, IntegerPuts
<1> HIDE DEF y
<1>8. w.store = y.store /\ w.failed = v.failed
  BY <1>1, <1>7, DropIs DEF Puts
<1>9. w.store = Put(t, key, one)
  BY <1>4, <1>7, <1>8 DEF Puts
<1> QED BY <1>8, <1>9 DEF VoteLeaves, t, key, one

\* What a verification writes.
Limited300(n) == IF n < 20 THEN 20 ELSE IF n > 300 THEN 300 ELSE n

\* StoreTimeOut writes the deadline, and it fits.
LEMMA DeadlineIs ==
  ASSUME NEW v, NEW K, IsView(v, K), NEW id, id \in Seq(Byte), TimeOutKey(id) \in K,
         NEW n, n \in Nat, NEW ts, ts \in Times, NEW w, w = StoreTimeOut(v, id, n, ts)
  PROVE  /\ Puts(v, w, K, TimeOutKey(id), BigEndian(ts + Limited300(n) * 1000, Uint64Len))
         /\ ts + Limited300(n) * 1000 \in 0 .. MaxUint64
<1> DEFINE m == ts + Limited300(n) * 1000
           key == TimeOutKey(id)
           val == BigEndian(m, Uint64Len)
<1>1. m \in 0 .. MaxUint64
  <2>1. ts \in Nat /\ ts + 300000 <= MaxUint64 /\ MaxUint64 \in Nat
    BY ChainAssumption, MaxInts
  <2> QED BY <2>1 DEF Limited300
<1>2. w = Insert(v, key, val)
  BY DEF StoreTimeOut, Limited300
<1> HIDE DEF m, key
<1>3. Len(val) = Uint64Len
  BY <1>1, IntegerIs
<1>4. key = KeyIs(8, id, 1) /\ key \in K
  BY RecordKeys DEF key
<1>5. PICK p \in Nat : p = 8
  OBVIOUS
<1>6. key = KeyIs(p, id, 1)
  BY <1>4, <1>5
<1> HIDE DEF val
<1>7. Puts(v, w, K, key, val)
  BY <1>2, <1>3, <1>4, <1>6, IntegerPuts
<1> QED BY <1>1, <1>7 DEF m, key, val

\* What is put is there, and the rest is as before.
LEMMA GetOfPut ==
  \A s, k, val, j : Get(Put(s, k, val), j) = IF j = k THEN val ELSE Get(s, j)
BY DEF Get, Put

\* A number is read from the integer that was put.
LEMMA NumOfPut ==
  ASSUME NEW s, NEW k, NEW n, n \in 0 .. MaxUint64
  PROVE  Num(Put(s, k, BigEndian(n, Uint64Len)), k) = n
<1> DEFINE val == BigEndian(n, Uint64Len)
<1>1. Uint(val) = n /\ Len(val) = Uint64Len
  BY IntegerIs
<1> HIDE DEF val
<1>2. val # <<>>
  BY <1>1, Widths
<1>3. Get(Put(s, k, val), k) = val
  BY GetOfPut
<1>4. Num(Put(s, k, val), k) = n
  BY <1>1, <1>2, <1>3 DEF Num, NotFound
<1> QED BY <1>4 DEF val

\* The records f with n for id.
With(f, id, n) == [f EXCEPT ![id] = n]

\* A deadline that is written is read.
LEMMA DeadlineRead ==
  ASSUME NEW s, NEW id, id \in TxIDs, NEW n, n \in 0 .. MaxUint64,
         NEW t, t = Put(s, TimeOutKey(id), BigEndian(n, Uint64Len))
  PROVE  /\ Deadlines(t) = With(Deadlines(s), id, n)
         /\ Weights(t) = Weights(s) /\ VotesIn(t) = VotesIn(s)
<1> DEFINE key == TimeOutKey(id)
           L == {key}
<1>1. Only(s, t, L)
  BY PutIs
<1>2. \A k \in L : k[1] = 8
  <2>1. id \in Seq(Byte)
    BY IDsOfTxs, ArraysAreBytes
  <2> QED BY <2>1, KeysAre
<1>3. ASSUME NEW x, x \in TxIDs PROVE WeightKey(x) \notin L /\ \A b \in Accounts : VoteKey(x, b) \notin L
  <2> HIDE DEF L
  <2>1. (\A k \in L : k[1] # 9) /\ (\A k \in L : k[1] # 11)
    BY <1>2
  <2> QED BY <1>3, <2>1, OtherKeys
<1>4. Weights(t) = Weights(s) /\ VotesIn(t) = VotesIn(s)
  <2> HIDE DEF L
  <2> QED BY <1>1, <1>3, RecordsSame
<1>5. ASSUME NEW x, x \in TxIDs PROVE Num(t, TimeOutKey(x)) = IF x = id THEN n ELSE Num(s, TimeOutKey(x))
  <2>1. CASE x = id
    BY <2>1, NumOfPut
  <2>2. CASE x # id
    <3>1. TimeOutKey(x) # key
      BY <1>5, <2>2, IDsOfTxs, IdKeys
    <3>2. Get(t, TimeOutKey(x)) = Get(s, TimeOutKey(x))
      BY <3>1, GetOfPut
    <3> QED BY <2>2, <3>2 DEF Num
  <2> QED BY <2>1, <2>2
<1>6. Deadlines(t) = [Deadlines(s) EXCEPT ![id] = n]
  <2> DEFINE f == Deadlines(s)
             g == Deadlines(t)
  <2>1. DOMAIN f = TxIDs /\ \A x \in TxIDs : f[x] = Num(s, TimeOutKey(x))
    BY DEF Deadlines
  <2>2. g = [x \in TxIDs |-> Num(t, TimeOutKey(x))]
    BY DEF Deadlines
  <2>3. f = [x \in TxIDs |-> f[x]]
    BY DEF Deadlines
  <2> HIDE DEF f, g
  <2>4. [f EXCEPT ![id] = n] = [x \in TxIDs |-> IF x = id THEN n ELSE f[x]]
    BY <2>1, <2>3
  <2>5. g = [x \in TxIDs |-> IF x = id THEN n ELSE f[x]]
    BY <1>5, <2>1, <2>2
  <2>6. g = [f EXCEPT ![id] = n]
    BY <2>4, <2>5
  <2> QED BY <2>6 DEF f, g
<1> QED BY <1>4, <1>6 DEF With

\* So is a weight.
LEMMA WeightRead ==
  ASSUME NEW s, NEW id, id \in TxIDs, NEW n, n \in 0 .. MaxUint64,
         NEW t, t = Put(s, WeightKey(id), BigEndian(n, Uint64Len))
  PROVE  /\ Weights(t) = With(Weights(s), id, n)
         /\ Deadlines(t) = Deadlines(s) /\ VotesIn(t) = VotesIn(s)
<1> DEFINE key == WeightKey(id)
           L == {key}
<1>1. Only(s, t, L)
  BY PutIs
<1>2. \A k \in L : k[1] = 9
  <2>1. id \in Seq(Byte)
    BY IDsOfTxs, ArraysAreBytes
  <2> QED BY <2>1, KeysAre
<1>3. ASSUME NEW x, x \in TxIDs PROVE TimeOutKey(x) \notin L /\ \A b \in Accounts : VoteKey(x, b) \notin L
  <2> HIDE DEF L
  <2>1. (\A k \in L : k[1] # 8) /\ (\A k \in L : k[1] # 11)
    BY <1>2
  <2> QED BY <1>3, <2>1, OtherKeys
<1>4. Deadlines(t) = Deadlines(s) /\ VotesIn(t) = VotesIn(s)
  <2> HIDE DEF L
  <2> QED BY <1>1, <1>3, RecordsSame
<1>5. ASSUME NEW x, x \in TxIDs PROVE Num(t, WeightKey(x)) = IF x = id THEN n ELSE Num(s, WeightKey(x))
  <2>1. CASE x = id
    BY <2>1, NumOfPut
  <2>2. CASE x # id
    <3>1. WeightKey(x) # key
      BY <1>5, <2>2, IDsOfTxs, IdKeys
    <3>2. Get(t, WeightKey(x)) = Get(s, WeightKey(x))
      BY <3>1, GetOfPut
    <3> QED BY <2>2, <3>2 DEF Num
  <2> QED BY <2>1, <2>2
<1>6. Weights(t) = [Weights(s) EXCEPT ![id] = n]
  <2> DEFINE f == Weights(s)
             g == Weights(t)
  <2>1. DOMAIN f = TxIDs /\ \A x \in TxIDs : f[x] = Num(s, WeightKey(x))
    BY DEF Weights
  <2>2. g = [x \in TxIDs |-> Num(t, WeightKey(x))]
    BY DEF Weights
  <2>3. f = [x \in TxIDs |-> f[x]]
    BY DEF Weights
  <2> HIDE DEF f, g
  <2>4. [f EXCEPT ![id] = n] = [x \in TxIDs |-> IF x = id THEN n ELSE f[x]]
    BY <2>1, <2>3
  <2>5. g = [x \in TxIDs |-> IF x = id THEN n ELSE f[x]]
    BY <1>5, <2>1, <2>2
  <2>6. g = [f EXCEPT ![id] = n]
    BY <2>4, <2>5
  <2> QED BY <2>6 DEF f, g
<1> QED BY <1>4, <1>6 DEF With

\* The records of t are those of s, with the mark of a vote.
Votes(s, t, id, actor) ==
  /\ VotesIn(t) = VotesIn(s) \cup {<<id, actor>>}
  /\ Deadlines(t) = Deadlines(s) /\ Weights(t) = Weights(s)

\* And a mark.
LEMMA VoteRead ==
  ASSUME NEW s, NEW id, id \in TxIDs, NEW actor, actor \in Accounts,
         NEW t, t = Put(s, VoteKey(id, actor), BigEndian(1, Uint16Len))
  PROVE  Votes(s, t, id, actor)
<1> DEFINE key == VoteKey(id, actor)
           L == {key}
           one == BigEndian(1, Uint16Len)
<1>1. Only(s, t, L)
  BY PutIs
<1>2. \A k \in L : k[1] = 11
  <2>1. id \in Seq(Byte) /\ actor \in Seq(Byte)
    BY IDsOfTxs, ArraysAreBytes
  <2> QED BY <2>1, KeysAre
<1>3. ASSUME NEW x, x \in TxIDs PROVE TimeOutKey(x) \notin L /\ WeightKey(x) \notin L
  <2> HIDE DEF L
  <2>1. (\A k \in L : k[1] # 8) /\ (\A k \in L : k[1] # 9)
    BY <1>2
  <2> QED BY <1>3, <2>1, OtherKeys
<1>4. Deadlines(t) = Deadlines(s) /\ Weights(t) = Weights(s)
  <2> HIDE DEF L
  <2> QED BY <1>1, <1>3, RecordsSame
<1>5. Uint(one) = 1 /\ one # <<>>
  <2>1. PICK c \in 0 .. 9 : c = 1
    OBVIOUS
  <2>2. Uint(Suffix(c)) = c /\ Len(Suffix(c)) = Uint16Len
    BY SuffixIs
  <2>3. Uint(one) = 1 /\ Len(one) = Uint16Len
    BY <2>1, <2>2 DEF Suffix
  <2> HIDE DEF one
  <2>4. one # <<>>
    BY <2>3, Widths
  <2> QED BY <2>3, <2>4
<1> HIDE DEF one
<1>6. ASSUME NEW x, x \in TxIDs, NEW b, b \in Accounts
      PROVE  GetVote(t, x, b) <=> GetVote(s, x, b) \/ (x = id /\ b = actor)
  <2>1. Get(t, VoteKey(x, b)) = IF VoteKey(x, b) = key THEN one ELSE Get(s, VoteKey(x, b))
    BY GetOfPut DEF one
  <2>2. x \in IDs /\ id \in IDs
    BY <1>6, IDsOfTxs
  <2>3. VoteKey(x, b) = key => x = id /\ b = actor
    BY <1>6, <2>2, VoteKeys
  <2>4. CASE x = id /\ b = actor
    <3>1. Get(t, VoteKey(x, b)) = one
      BY <2>1, <2>4
    <3> QED BY <1>5, <2>4, <3>1 DEF GetVote, NotFound
  <2>5. CASE ~ (x = id /\ b = actor)
    <3>1. Get(t, VoteKey(x, b)) = Get(s, VoteKey(x, b))
      BY <2>1, <2>3, <2>5
    <3> QED BY <2>5, <3>1 DEF GetVote
  <2> QED BY <2>4, <2>5
<1>7. ASSUME NEW va
      PROVE  va \in VotesIn(t) <=> va \in VotesIn(s) \cup {<<id, actor>>}
  <2>1. CASE va \in TxIDs \X Accounts
    <3> DEFINE x == va[1]
               b == va[2]
    <3>1. x \in TxIDs /\ b \in Accounts /\ va = <<x, b>>
      BY <2>1
    <3> HIDE DEF x, b
    <3>2. va[1] = x /\ va[2] = b
      BY <3>1
    <3>3. va = <<id, actor>> <=> x = id /\ b = actor
      BY <3>1
    <3>4. va \in VotesIn(t) <=> GetVote(t, x, b)
      BY <2>1, <3>2 DEF VotesIn
    <3>5. va \in VotesIn(s) <=> GetVote(s, x, b)
      BY <2>1, <3>2 DEF VotesIn
    <3> QED BY <1>6, <3>1, <3>3, <3>4, <3>5
  <2>2. CASE va \notin TxIDs \X Accounts
    BY <2>2 DEF VotesIn
  <2> QED BY <2>1, <2>2
<1>8. VotesIn(t) = VotesIn(s) \cup {<<id, actor>>}
  BY <1>7
<1> QED BY <1>4, <1>8 DEF Votes

\* A window is of a transaction that was executed.
OpenedInv ==
  \A x \in IDs : TimeOutKey(x) \in DOMAIN store =>
    \E i \in DOMAIN executed : x = TxID(executed[i].n)

\* Genesis has none, and no transaction opens another's.
LEMMA OpenedInductive ==
  /\ Init => OpenedInv
  /\ ChainInv /\ ResultsInv /\ OpenedInv /\ [Next]_vars => OpenedInv'
<1>0. \A x \in IDs : TimeOutKey(x)[1] = 8
  BY ArraysAreBytes, KeysAre
<1>1. ASSUME Init PROVE OpenedInv
  <2>1. DOMAIN store = {BalanceKey(a) : a \in Accounts}
    BY <1>1 DEF Init
  <2>2. \A a \in Accounts : BalanceKey(a)[1] = 0
    BY ArraysAreBytes, KeysAre
  <2>3. \A k \in DOMAIN store : k[1] = 0
    BY <2>1, <2>2
  <2>4. \A x \in IDs : TimeOutKey(x) \notin DOMAIN store
    BY <1>0, <2>3
  <2> QED BY <2>4 DEF OpenedInv
<1>2. ASSUME ChainInv, ResultsInv, OpenedInv, [Next]_vars PROVE OpenedInv'
  <2>1. ASSUME NEW n \in DOMAIN sent, NEW outcome \in Outcomes, Process(n, outcome)
        PROVE  OpenedInv'
    <3>1. PICK tx, w : Processes(n, tx, w)
                       /\ Grown(executed, Result(n, tx, now, ~ w.failed), executed', Results)
      BY <1>2, <2>1, ProcessAdds DEF ResultsInv
    <3> DEFINE e == Result(n, tx, now, ~ w.failed)
               a == tx.action
               actor == Address(tx.auth)
               id == TxID(n)
               L == Written(a, actor, id)
    <3>2. e.n = n
      <4> DEFINE ok == ~ w.failed
                 ts == now
      <4> HIDE DEF ok, ts
      <4>1. Result(n, tx, ts, ok).n = n
        BY ResultIs
      <4> QED BY <4>1 DEF ok, ts
    <3> HIDE DEF e
    <3>3. Grown(executed, e, executed', Results)
      BY <3>1 DEF e
    <3>4. /\ Only(store, w.store, L) /\ store' = IF ~ w.failed THEN w.store ELSE store
          /\ IsAction(a) /\ actor \in Accounts /\ id \in IDs
      BY <3>1 DEF Processes, Effect, IsTx
    <3> HIDE DEF a, actor
    <3>5. ASSUME NEW x \in IDs, TimeOutKey(x) \in L PROVE x = id
      <4> DEFINE k == TimeOutKey(x)
      <4>1. k[1] = 8 /\ k \in Written(a, actor, id)
        BY <1>0, <3>5
      <4> HIDE DEF k, id
      <4>2. k = TimeOutKey(id)
        BY <3>4, <4>1, WrittenHeads
      <4> QED BY <3>4, <4>2, IdKeys DEF k
    <3> HIDE DEF L
    <3>6. ASSUME NEW x \in IDs, TimeOutKey(x) \in DOMAIN store' PROVE TimeOutKey(x) \in DOMAIN store \/ x = id
      <4>1. CASE store' = store
        BY <3>6, <4>1
      <4>2. CASE store' = w.store
        BY <3>4, <3>5, <3>6, <4>2 DEF Only
      <4> QED BY <3>4, <4>1, <4>2
    <3>7. ASSUME NEW x \in IDs, TimeOutKey(x) \in DOMAIN store'
          PROVE  \E i \in DOMAIN executed' : x = TxID(executed'[i].n)
      <4>1. CASE TimeOutKey(x) \in DOMAIN store
        <5>1. PICK i \in DOMAIN executed : x = TxID(executed[i].n)
          BY <1>2, <4>1 DEF OpenedInv
        <5>2. i \in DOMAIN executed' /\ executed'[i] = executed[i]
          BY <3>3 DEF Grown
        <5> QED BY <5>1, <5>2
      <4>2. CASE x = id
        <5> DEFINE j == Len(executed')
        <5>1. j \in DOMAIN executed' /\ executed'[j] = e
          BY <3>3 DEF Grown
        <5> HIDE DEF j
        <5> QED BY <3>2, <4>2, <5>1
      <4> QED BY <3>6, <3>7, <4>1, <4>2
    <3> QED BY <3>7 DEF OpenedInv, TxID
  <2>2. CASE Block
    <3>1. UNCHANGED executed /\ \A k \in DOMAIN store' : k \in DOMAIN store \/ k[1] \in {1, 2, 3}
      BY <1>2, <2>2, BlockIs DEF ChainInv, StoreInv, Block
    <3>2. \A x \in IDs : TimeOutKey(x) \in DOMAIN store' => TimeOutKey(x) \in DOMAIN store
      BY <1>0, <3>1
    <3> QED BY <1>2, <3>1, <3>2 DEF OpenedInv, TxID
  <2>3. CASE UNCHANGED <<executed, store>>
    BY <1>2, <2>3 DEF OpenedInv, TxID
  <2> QED BY <1>2, <2>1, <2>2, <2>3 DEF Next, vars, Send, Accepted, records
<1> QED BY <1>1, <1>2

\* Transactions are told apart by their ids.
LEMMA IDsDiffer ==
  ASSUME NEW m, m \in DOMAIN Requests, NEW n, n \in DOMAIN Requests, TxID(m) = TxID(n)
  PROVE  m = n
BY RowsDiffer DEF TxKey

\* So a transaction that was not executed has no window, and what has one is a transaction.
LEMMA WindowsKnown ==
  ASSUME OpenedInv, NumbersInv
  PROVE  /\ \A n \in DOMAIN Requests : ~ Processed(n) => Deadlines(store)[TxID(n)] = -1
         /\ \A x \in IDs : InWindow(x) => x \in TxIDs
<1>1. ASSUME NEW i \in DOMAIN executed PROVE executed[i].n \in DOMAIN Requests
  BY DEF NumbersInv, Numbers
<1>2. ASSUME NEW n \in DOMAIN Requests, ~ Processed(n) PROVE Deadlines(store)[TxID(n)] = -1
  <2> DEFINE id == TxID(n)
  <2>1. id \in IDs /\ id \in TxIDs
    BY IDsOfTxs DEF TxIDs
  <2>2. TimeOutKey(id) \notin DOMAIN store
    <3> SUFFICES ASSUME TimeOutKey(id) \in DOMAIN store PROVE FALSE
      OBVIOUS
    <3>1. PICK i \in DOMAIN executed : id = TxID(executed[i].n)
      <4> HIDE DEF id
      <4> QED BY <2>1 DEF OpenedInv
    <3> DEFINE m == executed[i].n
    <3>2. m \in DOMAIN Requests /\ TxID(m) = TxID(n)
      BY <1>1, <3>1
    <3> HIDE DEF m
    <3>3. m = n
      BY <3>2, IDsDiffer
    <3> QED BY <1>2, <3>3 DEF m, Processed
  <2> HIDE DEF id
  <2>3. Get(store, TimeOutKey(id)) = NotFound
    BY <2>2 DEF Get, NotFound
  <2>4. Deadlines(store)[id] = -1
    BY <2>1, <2>3 DEF Deadlines, Num
  <2> QED BY <2>4 DEF id
<1>3. ASSUME NEW x \in IDs, InWindow(x) PROVE x \in TxIDs
  <2>1. TimeOutKey(x) \in DOMAIN store
    BY <1>3 DEF InWindow, GetTimeOut, Get, NotFound
  <2>2. PICK i \in DOMAIN executed : x = TxID(executed[i].n)
    BY <2>1 DEF OpenedInv
  <2> QED BY <1>1, <2>2 DEF TxIDs
<1> QED BY <1>2, <1>3

\* A vote says yes or no, and a request that wants nothing asks for some time.
LEMMA VoteTypes ==
  ASSUME NEW a, IsAction(a)
  PROVE  /\ a.type = ValidatorVoteID => a.vote \in BOOLEAN
         /\ IsVerify(a) /\ ~ Wanting(a) => a.timeOutBlocks # 0
<1>1. PICK c : IsOf(a, c)
  BY ActionIsOf
<1>2. /\ c \in ActionRegistry /\ a.type = c.type
      /\ \A i \in DOMAIN c.marshal : /\ a[c.marshal[i].name] \in TypeOf(c.marshal[i].kind)
                                     /\ c.marshal[i].name \in DOMAIN a
  BY <1>1 DEF IsOf
<1>3. c = ValidatorVote => a.vote \in BOOLEAN
  <2>1. ASSUME NEW i \in DOMAIN c.marshal, c.marshal[i] = F("bool", "vote")
        PROVE  a.vote \in BOOLEAN
    <3>1. a.vote \in TypeOf("bool")
      BY <1>2, <2>1 DEF F
    <3> QED BY <3>1 DEF TypeOf
  <2>2. CASE c = ValidatorVote
    <3>1. 2 \in DOMAIN c.marshal /\ c.marshal[2] = F("bool", "vote")
      BY <2>2 DEF ValidatorVote
    <3> QED BY <2>1, <3>1
  <2> QED BY <2>2
<1>4. c \in {SP1, Jolt, RiscZero, Miden, PLONKY2} => "timeOutBlocks" \in DOMAIN a
  <2>1. ASSUME NEW i \in DOMAIN c.marshal, c.marshal[i] = F("uint64", "timeOutBlocks")
        PROVE  "timeOutBlocks" \in DOMAIN a
    BY <1>2, <2>1 DEF F
  <2>2. CASE c = SP1
    <3>1. 3 \in DOMAIN c.marshal /\ c.marshal[3] = F("uint64", "timeOutBlocks")
      BY <2>2 DEF SP1
    <3> QED BY <2>1, <3>1
  <2>3. CASE c = Jolt
    <3>1. 3 \in DOMAIN c.marshal /\ c.marshal[3] = F("uint64", "timeOutBlocks")
      BY <2>3 DEF Jolt, SP1
    <3> QED BY <2>1, <3>1
  <2>4. CASE c = RiscZero
    <3>1. 4 \in DOMAIN c.marshal /\ c.marshal[4] = F("uint64", "timeOutBlocks")
      BY <2>4 DEF RiscZero
    <3> QED BY <2>1, <3>1
  <2>5. CASE c = Miden
    <3>1. 6 \in DOMAIN c.marshal /\ c.marshal[6] = F("uint64", "timeOutBlocks")
      BY <2>5 DEF Miden
    <3> QED BY <2>1, <3>1
  <2>6. CASE c = PLONKY2
    <3>1. 5 \in DOMAIN c.marshal /\ c.marshal[5] = F("uint64", "timeOutBlocks")
      BY <2>6 DEF PLONKY2
    <3> QED BY <2>1, <3>1
  <2> QED BY <2>2, <2>3, <2>4, <2>5, <2>6
<1>5. /\ a.type = ValidatorVoteID => c = ValidatorVote
      /\ IsVerify(a) => c \in {SP1, Jolt, RiscZero, Miden, PLONKY2}
  BY <1>2, TypesAre DEF ActionRegistry, IsVerify, ValidatorVoteID,
     SP1ID, RiscZeroID, MidenID, JoltID, Plonky2ID
<1>6. "timeOutBlocks" \in DOMAIN a /\ ~ Wanting(a) => a.timeOutBlocks # 0
  BY DEF Wanting
<1> QED BY <1>3, <1>4, <1>5, <1>6

\* What a step of the chain adds to the history: of the transaction tx, sent n-th, that
\* leaves w.
Remembers(n, tx, outcome, w) ==
  LET a      == tx.action
      actor  == Address(tx.auth)
      counts == ~ w.failed /\ a.type = ValidatorVoteID /\ Counts(a, actor, outcome)
  IN  /\ opened' = IF IsVerify(a) /\ ~ w.failed
                   THEN opened \cup {[tx |-> TxID(n), asked |-> a.timeOutBlocks, at |-> now]}
                   ELSE opened
      /\ counted' = IF counts
                    THEN counted \cup {[tx |-> a.txID, actor |-> actor, node |-> "v",
                                        vote |-> a.vote, at |-> now]}
                    ELSE counted
      /\ succeeded' = IF ~ w.failed /\ a.type = ValidatorVoteID
                      THEN succeeded \cup {<<a.txID, actor>>} ELSE succeeded

\* What a step of the chain is to the voting: of a transaction that wants nothing and was
\* not executed yet.
Steps(n, tx, outcome, w) ==
  /\ Processes(n, tx, w) /\ Remembers(n, tx, outcome, w)
  /\ w = Execute(tx.action, Address(tx.auth), TxID(n), outcome)
  /\ ~ Processed(n) /\ ~ Wanting(tx.action)
  /\ tx.action.type = ValidatorVoteID =>
       /\ tx.action.txID # TxID(n)
       /\ outcome = "matched" => env.interned
       /\ outcome = "unmatched" => ~ env.interned

\* That is what Process is.
LEMMA ProcessSteps ==
  ASSUME ChainInv, NEW n, n \in DOMAIN sent, NEW outcome, Process(n, outcome)
  PROVE  \E tx, w : Steps(n, tx, outcome, w)
<1> DEFINE tx == sent[n].tx
           w == Leaves(n, outcome)
           a == tx.action
<1>1. Processes(n, tx, w)
  BY SentRoundTrips, ProcessesSent DEF ChainInv, StoreInv
<1>2. w = Execute(tx.action, Address(tx.auth), TxID(n), outcome)
  BY DEF Leaves
<1>3. Remembers(n, tx, outcome, w)
  BY DEF Process, Remembers, Leaves
<1>4. ~ Processed(n) /\ tx # Refused
  BY DEF Process
<1>5. ~ Wanting(a)
  <2>1. RoundTrip
    BY SentRoundTrips DEF ChainInv
  <2> QED BY <1>4, <2>1 DEF RoundTrip
<1>6. a.type = ValidatorVoteID => outcome \in {"invalid", IF env.interned THEN "matched" ELSE "unmatched"}
  BY DEF Process
<1> HIDE DEF tx, w
<1>7. a.type = ValidatorVoteID => a.txID # TxID(n)
  <2>1. n \in DOMAIN Requests /\ tx \in Requests[n]
    BY <1>1 DEF Processes
  <2> QED BY <2>1, RequestAssumption DEF TxID
<1>8. a.type = ValidatorVoteID =>
        (outcome = "matched" => env.interned) /\ (outcome = "unmatched" => ~ env.interned)
  BY <1>6
<1> QED BY <1>1, <1>2, <1>3, <1>4, <1>5, <1>7, <1>8 DEF Steps

-----------------------------------------------------------------------------
(* Steps of the chain as steps of the voting                               *)

\* What of the voting is the same after a step.
SameRecords ==
  /\ Deadlines(store') = Deadlines(store) /\ Weights(store') = Weights(store)
  /\ Marked(store') = Marked(store) /\ VotesIn(store') = VotesIn(store)

\* A block whose records are the same is one of the voting.
LEMMA BlockMaps ==
  ASSUME SameRecords, now' \in Times, now' > now, UNCHANGED <<env, opened, counted, succeeded>>
  PROVE  Voting!Block
BY DEF SameRecords, Voting!Block, Voting!chain, Voting!history, Deadlines, Weights, Marked, VotesIn,
   Num, Stored, VerifyStatus

\* A step that changes no record and none of the history is none of the voting.
LEMMA QuietMaps ==
  ASSUME SameRecords, UNCHANGED <<env, now, opened, counted, succeeded>>
  PROVE  UNCHANGED Voting!vars
BY DEF SameRecords, Voting!vars, Voting!chain, Voting!history, Deadlines, Weights, Marked, VotesIn,
   Num, Stored, VerifyStatus

\* A deadline that is written is a verification.
LEMMA VerifyMaps ==
  ASSUME NEW id, id \in TxIDs, NEW n, n # 0, Deadlines(store)[id] = -1,
         Deadlines(store') = [Deadlines(store) EXCEPT ![id] = now + Limited300(n) * 1000],
         Weights(store') = Weights(store), Marked(store') = Marked(store), VotesIn(store') = VotesIn(store),
         opened' = opened \cup {[tx |-> id, asked |-> n, at |-> now]},
         UNCHANGED <<env, now, counted, succeeded>>
  PROVE  Voting!VerifyAction(id, n)
<1>1. Voting!Verify(id, n)
  BY DEF Voting!Verify, Voting!StoreTimeOut, Voting!Deadline, Voting!Clamp, Limited300, Voting!NoRecord,
     Deadlines, Weights, Marked, VotesIn, Num, Stored, VerifyStatus
<1> QED BY <1>1 DEF Voting!VerifyAction, Voting!SP1

\* A window is one of the voting.
LEMMA WindowMaps ==
  ASSUME Sound(store), NEW id, id \in TxIDs, InWindow(id)
  PROVE  Voting!InWindow(id)
<1>1. Get(store, TimeOutKey(id)) # NotFound /\ now <= Uint(Get(store, TimeOutKey(id)))
  BY DEF InWindow, GetTimeOut
<1>2. Stored(TimeOutKey(id)) = Uint(Get(store, TimeOutKey(id)))
  BY <1>1 DEF Stored
<1>3. Stored(TimeOutKey(id)) # -1 /\ now <= Stored(TimeOutKey(id))
  BY <1>1, <1>2, GetIs
<1> QED BY <1>3 DEF Voting!InWindow, Voting!NoRecord

\* A vote that is skipped.
LEMMA SkipMaps ==
  ASSUME Sound(store), SameRecords, NEW id, id \in TxIDs, NEW actor, InWindow(id), ~ env.interned,
         succeeded' = succeeded \cup {<<id, actor>>}, UNCHANGED <<env, now, opened, counted>>
  PROVE  Voting!VoteSkipped(id, actor, "k", "valid")
<1>1. Voting!InWindow(id)
  BY WindowMaps
<1>2. Voting!Reaches(id, "k", "valid")
  BY <1>1 DEF Voting!Reaches, Voting!Malformed, Voting!PublicKeys
<1>3. Voting!Matching("k") = {}
  BY DEF Voting!Matching
<1> QED BY <1>2, <1>3 DEF Voting!VoteSkipped, SameRecords, Voting!chain, Deadlines, Weights, Marked, VotesIn,
   Num, Stored, VerifyStatus

\* No transaction has the empty id.
LEMMA NotEmpty == EmptyID \notin TxIDs
<1>1. EmptyID = BigEndian(0, IDLen)
  <2>1. ASSUME NEW i \in 1 .. IDLen PROVE (0 \div Pow[IDLen - i]) % Radix = 0
    <3> DEFINE p == Pow[IDLen - i]
    <3>1. p \in Nat \ {0} /\ Radix \in Nat \ {0}
      BY PowNat, Widths
    <3> HIDE DEF p
    <3>2. 0 \div p = 0
      BY <3>1
    <3>3. 0 % Radix = 0
      BY <3>1
    <3> QED BY <3>2, <3>3 DEF p
  <2> QED BY <2>1 DEF EmptyID, BigEndian
<1> SUFFICES ASSUME NEW n \in DOMAIN Requests, TxID(n) = EmptyID PROVE FALSE
  BY DEF TxIDs
<1>2. n \in 1 .. Pow[IDLen] - 1 /\ Pow[IDLen] \in Nat /\ IDLen \in Nat
  BY RequestNumbers, PowNat, Widths
<1>3. Uint(TxID(n)) = n
  BY <1>2, UintOfBigEndian DEF TxID
<1>4. Uint(BigEndian(0, IDLen)) = 0
  BY <1>2, UintOfBigEndian
<1> QED BY <1>1, <1>2, <1>3, <1>4

\* The tally of a yes vote, which no status follows.
LEMMA WeightMaps ==
  ASSUME Sound(store), NEW id, id \in TxIDs, NEW actor,
         Marked(store) = {}, Marked(store') = {},
         Weights(store') = [Weights(store) EXCEPT ![id] = Tallied(store, id, Weight)]
  PROVE  Voting!UpdateWeight(id, actor, Weight, Weight)
<1>1. ~ Voting!Writable(<<"status", id>>, id, actor)
  <2>1. id # EmptyID
    BY NotEmpty
  <2>2. <<"status", id>> \notin Voting!StateKeys(id, actor)
    BY <2>1 DEF Voting!StateKeys
  <2> QED BY <2>2 DEF Voting!Writable
<1> DEFINE x == Uint(Get(store, WeightKey(id)))
<1>2. x \in Nat
  BY GetIs
<1>3. Stored(WeightKey(id)) = IF Get(store, WeightKey(id)) = NotFound THEN -1 ELSE x
  BY DEF Stored
<1> HIDE DEF x
<1>4. [y \in TxIDs |-> Stored(WeightKey(y))] = Weights(store)
      /\ {y \in TxIDs : ~ VerifyStatus(y).err} = Marked(store)
  BY DEF Weights, Num, Stored, Marked, VerifyStatus
<1>5. [y \in TxIDs |-> Stored(WeightKey(y))'] = Weights(store')
      /\ {y \in TxIDs : ~ VerifyStatus(y)'.err} = Marked(store')
  BY DEF Weights, Num, Stored, Marked, VerifyStatus
<1>6. Weights(store)[id] = Stored(WeightKey(id))
  BY DEF Weights, Num, Stored
<1>7. CASE Get(store, WeightKey(id)) = NotFound
  <2>1. Tallied(store, id, Weight) = Weight /\ Weights(store)[id] = -1
    BY <1>3, <1>6, <1>7 DEF Tallied
  <2> QED BY <1>4, <1>5, <2>1 DEF Voting!UpdateWeight, Voting!NoRecord
<1>8. CASE Get(store, WeightKey(id)) # NotFound
  <2>1. Tallied(store, id, Weight) = (x + Weight) % (MaxUint64 + 1)
    BY <1>8 DEF Tallied, x
  <2>2. Weights(store)[id] = x /\ x # -1
    BY <1>2, <1>3, <1>6, <1>8
  <2> QED BY <1>1, <1>4, <1>5, <2>1, <2>2 DEF Voting!UpdateWeight, Voting!NoRecord
<1> QED BY <1>7, <1>8

\* A vote that is counted.
LEMMA VoteMaps ==
  ASSUME Sound(store), NEW id, id \in TxIDs, NEW actor, actor \in Accounts, InWindow(id),
         ~ GetVote(store, id, actor), env.interned, NEW vote, vote \in BOOLEAN,
         Marked(store) = {}, Marked(store') = {}, Deadlines(store') = Deadlines(store),
         Weights(store') = IF vote THEN [Weights(store) EXCEPT ![id] = Tallied(store, id, Weight)]
                           ELSE Weights(store),
         VotesIn(store') = VotesIn(store) \cup {<<id, actor>>},
         counted' = counted \cup {[tx |-> id, actor |-> actor, node |-> "v", vote |-> vote, at |-> now]},
         succeeded' = succeeded \cup {<<id, actor>>}, UNCHANGED <<env, now, opened>>
  PROVE  Voting!VoteCounted(id, actor, "k", "valid", vote, "v")
<1>1. Voting!Reaches(id, "k", "valid")
  BY WindowMaps DEF Voting!Reaches, Voting!Malformed, Voting!PublicKeys
<1>2. Voting!Counts(id, actor, "k", "valid", "v")
  BY DEF Voting!Counts, Voting!Matching, Voting!GetVote
<1>3. Voting!StoreVote(id, actor)
  BY DEF Voting!StoreVote, VotesIn
<1>4. IF vote THEN Voting!UpdateWeight(id, actor, Weight, Weight)
      ELSE Weights(store') = Weights(store) /\ Marked(store') = Marked(store)
  BY WeightMaps
<1> QED BY <1>1, <1>2, <1>3, <1>4 DEF Voting!VoteCounted, Deadlines, Weights, Marked,
   Num, Stored, VerifyStatus

\* A store has no status record.
LEMMA MarkedNothing == StoreInv => Marked(store) = {}
BY NothingMarked DEF StoreInv

\* Nor has the next.
LEMMA MarkedNothingNext == StoreInv' => Marked(store') = {}
<1> SUFFICES ASSUME StoreInv' PROVE Marked(store') = {}
  OBVIOUS
<1> DEFINE s == store'
<1>1. \A k \in DOMAIN s : k[1] # 10
  BY DEF StoreInv
<1> HIDE DEF s
<1>2. Marked(s) = {}
  BY <1>1, NothingMarked
<1> QED BY <1>2 DEF s

\* Writes of other keys leave the records of the voting as they are.
LEMMA OthersSame ==
  ASSUME StoreInv, StoreInv', NEW L, Only(store, store', L), \A k \in L : k[1] \in {0, 1, 2, 3, 7}
  PROVE  SameRecords
<1> DEFINE t == store'
<1>0. Only(store, t, L)
  OBVIOUS
<1> HIDE DEF t
<1>1. ASSUME NEW id \in TxIDs
      PROVE  /\ TimeOutKey(id) \notin L /\ WeightKey(id) \notin L
             /\ \A b \in Accounts : VoteKey(id, b) \notin L
  <2>1. (\A k \in L : k[1] # 8) /\ (\A k \in L : k[1] # 9) /\ (\A k \in L : k[1] # 11)
    OBVIOUS
  <2> QED BY <2>1, OtherKeys
<1>2. Deadlines(t) = Deadlines(store) /\ Weights(t) = Weights(store) /\ VotesIn(t) = VotesIn(store)
  BY <1>0, <1>1, RecordsSame
<1> QED BY <1>2, MarkedNothing, MarkedNothingNext DEF SameRecords, t

\* A transaction whose action fails leaves everything as it was.
LEMMA FailedMaps ==
  ASSUME NEW n, NEW tx, NEW outcome, NEW w, Steps(n, tx, outcome, w), w.failed
  PROVE  UNCHANGED Voting!vars
<1>1. store' = store /\ UNCHANGED <<env, now>>
  BY DEF Steps, Processes
<1>2. UNCHANGED <<opened, counted, succeeded>>
  BY DEF Steps, Remembers
<1>3. SameRecords
  BY <1>1 DEF SameRecords
<1> QED BY <1>1, <1>2, <1>3, QuietMaps

\* So does one that is no verification and no vote, for the voting.
LEMMA PlainMaps ==
  ASSUME StoreInv, StoreInv', NEW n, NEW tx, NEW outcome, NEW w, Steps(n, tx, outcome, w),
         ~ IsVerify(tx.action), tx.action.type # ValidatorVoteID
  PROVE  UNCHANGED Voting!vars
<1> DEFINE a == tx.action
           actor == Address(tx.auth)
           id == TxID(n)
           L == Written(a, actor, id)
<1>1. /\ IsAction(a) /\ actor \in Accounts /\ id \in IDs /\ UNCHANGED <<env, now>>
      /\ Only(store, w.store, L) /\ store' = IF ~ w.failed THEN w.store ELSE store
  BY DEF Steps, Processes, Effect, IsTx
<1>2. UNCHANGED <<opened, counted, succeeded>>
  BY DEF Steps, Remembers
<1>3. ASSUME NEW k \in L PROVE k[1] \in {0, 1, 2, 3, 7}
  <2>1. a.type \in {0, 1, 2, 3} /\ k \in Written(a, actor, id) /\ ~ IsVerify(a) /\ a.type # 3
    BY <1>1, <1>3, FieldTypes DEF ValidatorVoteID
  <2> HIDE DEF a, actor, id, L
  <2>2. CASE a.type = TransferID
    <3>1. a.to \in Accounts \/ a.to \in Seq(Byte)
      <4>1. a.to \in [1 .. AddressLen -> Byte]
        BY <1>1, <2>2, FieldTypes
      <4> QED BY <4>1, ArraysAreBytes
    <3>2. k \in {BalanceKey(actor), BalanceKey(a.to)}
      BY <2>1, <2>2 DEF Written
    <3>3. k[1] = 0
      <4>1. a.to \in Seq(Byte) /\ actor \in Seq(Byte)
        BY <1>1, <3>1, ArraysAreBytes
      <4> QED BY <3>2, <4>1, KeysAre
    <3> QED BY <3>3
  <2>3. CASE a.type = RegisterImageID
    <3>1. a.imageID \in Seq(Byte) /\ a.valType \in Nat
      <4>1. a.imageID \in IDs /\ a.valType \in Nat
        BY <1>1, <2>3, FieldTypes
      <4> QED BY <4>1, ArraysAreBytes
    <3>2. k = HashKey(a.imageID, a.valType)
      BY <2>1, <2>3 DEF Written, TransferID, RegisterImageID
    <3>3. k[1] = 7
      BY <3>1, <3>2, KeysAre
    <3> QED BY <3>3
  <2>4. CASE a.type = RegisterID
    BY <2>1, <2>4 DEF Written, TransferID, RegisterImageID, ValidatorVoteID, RegisterID
  <2> QED BY <2>1, <2>2, <2>3, <2>4 DEF TransferID, RegisterImageID, RegisterID
<1> HIDE DEF L
<1>4. Only(store, store', L)
  BY <1>1 DEF Only
<1>5. SameRecords
  BY <1>3, <1>4, OthersSame
<1> QED BY <1>1, <1>2, <1>5, QuietMaps

\* A verification is one of the voting.
LEMMA VerificationMaps ==
  ASSUME StoreInv, StoreInv', OpenedInv, NumbersInv, now \in Times,
         NEW n, NEW tx, NEW outcome, NEW w, Steps(n, tx, outcome, w), IsVerify(tx.action)
  PROVE  Voting!Next
<1> DEFINE a == tx.action
           actor == Address(tx.auth)
           id == TxID(n)
           asks == a.timeOutBlocks
           K == StateKeys(a, actor, id)
           v == View(store, K)
           m == now + Limited300(asks) * 1000
           key == TimeOutKey(id)
           val == BigEndian(m, Uint64Len)
<1>1. /\ IsAction(a) /\ id \in IDs /\ n \in DOMAIN Requests /\ tx \in AllRequests
      /\ ~ w.failed /\ store' = w.store /\ UNCHANGED <<env, now>>
  BY DEF Steps, Processes, Opens, IsTx
<1>2. /\ opened' = opened \cup {[tx |-> id, asked |-> asks, at |-> now]}
      /\ UNCHANGED <<counted, succeeded>>
  <2>1. a.type # ValidatorVoteID
    BY <1>1, FieldTypes DEF ValidatorVoteID
  <2> QED BY <1>1, <2>1 DEF Steps, Remembers
<1>3. id \in TxIDs /\ id \in Seq(Byte)
  BY <1>1, ArraysAreBytes DEF TxIDs
<1>4. asks \in Nat /\ asks # 0
  BY <1>1, FieldTypes, VoteTypes DEF Steps
<1>5. w = StoreTimeOut(v, id, asks, now) /\ key \in K
  <2>1. ~ (a.type \in {0, 1, 2, 3})
    BY <1>1, FieldTypes
  <2>2. w = Execute(a, actor, id, outcome)
    BY DEF Steps
  <2>3. w = ExecuteVerify(v, a, id)
    BY <2>1, <2>2 DEF Execute, TransferID, RegisterID, RegisterImageID, ValidatorVoteID
  <2>4. K = {key}
    BY <2>1 DEF StateKeys, TransferID, RegisterID, RegisterImageID, ValidatorVoteID
  <2> QED BY <2>3, <2>4 DEF ExecuteVerify
<1>6. Puts(v, w, K, key, val) /\ m \in 0 .. MaxUint64
  <2>1. IsView(v, K)
    BY ViewIs
  <2>2. now \in Times
    OBVIOUS
  <2> DEFINE ts == now
  <2>3. ts \in Times /\ w = StoreTimeOut(v, id, asks, ts)
    BY <1>5
  <2> HIDE DEF v, K, id, asks, ts
  <2>4. TimeOutKey(id) \in K
    BY <1>5
  <2>5. /\ Puts(v, w, K, TimeOutKey(id), BigEndian(ts + Limited300(asks) * 1000, Uint64Len))
        /\ ts + Limited300(asks) * 1000 \in 0 .. MaxUint64
    BY <1>3, <1>4, <2>1, <2>3, <2>4, DeadlineIs
  <2> QED BY <2>5 DEF ts
<1>7. store' = Put(store, key, val)
  <2>1. v.store = store
    BY ViewIs
  <2> HIDE DEF v, val, key
  <2> QED BY <1>1, <1>6, <2>1 DEF Puts
<1>8. /\ store' = Put(store, TimeOutKey(id), BigEndian(m, Uint64Len))
  BY <1>7
<1> DEFINE t == store'
<1>9. /\ Deadlines(t) = With(Deadlines(store), id, m)
      /\ Weights(t) = Weights(store) /\ VotesIn(t) = VotesIn(store)
  <2>1. t = Put(store, TimeOutKey(id), BigEndian(m, Uint64Len))
    BY <1>8
  <2>2. id \in TxIDs /\ m \in 0 .. MaxUint64
    BY <1>3, <1>6
  <2> HIDE DEF t, id, m
  <2> QED BY <2>1, <2>2, DeadlineRead
<1>10. Marked(store') = Marked(store)
  BY MarkedNothing, MarkedNothingNext
<1>11. Deadlines(store)[id] = -1
  BY <1>1, WindowsKnown DEF Steps
<1>12. asks \in {r.action.timeOutBlocks : r \in {q \in UNION Range(Requests) : IsVerify(q.action)}}
  BY <1>1 DEF AllRequests
<1> HIDE DEF id, asks
<1>13. Voting!VerifyAction(id, asks)
  BY <1>1, <1>2, <1>3, <1>4, <1>9, <1>10, <1>11, VerifyMaps DEF With
<1> QED BY <1>3, <1>12, <1>13 DEF Voting!Next

\* What is written of a vote that counts, as the voting has it.
LEMMA VoteWrites ==
  ASSUME Sound(store), NEW id, id \in TxIDs, NEW actor, actor \in Accounts, NEW vote, vote \in BOOLEAN,
         NEW s, s = (IF vote THEN Put(store, WeightKey(id), BigEndian(Tallied(store, id, Weight), Uint64Len))
                     ELSE store),
         NEW t, t = Put(s, VoteKey(id, actor), BigEndian(1, Uint16Len))
  PROVE  /\ Deadlines(t) = Deadlines(store) /\ VotesIn(t) = VotesIn(store) \cup {<<id, actor>>}
         /\ Weights(t) = IF vote THEN With(Weights(store), id, Tallied(store, id, Weight))
                         ELSE Weights(store)
<1>1. /\ Deadlines(t) = Deadlines(s) /\ VotesIn(t) = VotesIn(s) \cup {<<id, actor>>}
      /\ Weights(t) = Weights(s)
  <2>1. Votes(s, t, id, actor)
    BY VoteRead
  <2> QED BY <2>1 DEF Votes
<1>2. CASE vote
  <2> DEFINE n == Tallied(store, id, Weight)
  <2>1. n \in 0 .. MaxUint64
    <3>1. Weight \in 0 .. MaxUint64
      BY ChainAssumption
    <3> QED BY <3>1, TalliedType
  <2>2. s = Put(store, WeightKey(id), BigEndian(n, Uint64Len))
    BY <1>2
  <2> HIDE DEF n
  <2>3. /\ Weights(s) = With(Weights(store), id, n)
        /\ Deadlines(s) = Deadlines(store) /\ VotesIn(s) = VotesIn(store)
    BY <2>1, <2>2, WeightRead
  <2> QED BY <1>1, <1>2, <2>3 DEF n
<1>3. CASE ~ vote
  BY <1>1, <1>3
<1> QED BY <1>2, <1>3

\* A vote that did not fail is one of the voting: it counts, or is skipped.
LEMMA VotedMaps ==
  ASSUME ChainInv, StoreInv', OpenedInv, NumbersInv,
         NEW n, NEW tx, NEW outcome, NEW w, Steps(n, tx, outcome, w),
         tx.action.type = ValidatorVoteID, ~ w.failed
  PROVE  Voting!Next
<1> DEFINE a == tx.action
           actor == Address(tx.auth)
           id == a.txID
           mine == TxID(n)
           vote == a.vote
           K == StateKeys(a, actor, mine)
           v == View(store, K)
<1>1. /\ IsAction(a) /\ mine \in IDs /\ actor \in Accounts /\ actor \in Seq(Byte)
      /\ store' = w.store /\ UNCHANGED <<env, now>>
  <2>1. /\ IsAction(a) /\ mine \in IDs /\ actor \in Accounts
        /\ store' = w.store /\ UNCHANGED <<env, now>>
    BY DEF Steps, Processes, IsTx
  <2> HIDE DEF a, mine, actor
  <2> QED BY <2>1, ArraysAreBytes
<1>2. Sound(store) /\ Marked(store) = {} /\ Marked(store') = {}
  BY MarkedNothing, MarkedNothingNext DEF ChainInv, StoreInv
<1>3. id \in IDs /\ id \in Seq(Byte) /\ vote \in BOOLEAN /\ ~ IsVerify(a) /\ id # mine
  <2>1. id \in IDs /\ ~ IsVerify(a)
    BY <1>1, FieldTypes DEF ValidatorVoteID
  <2>2. vote \in BOOLEAN /\ id # mine
    BY <1>1, VoteTypes DEF Steps
  <2> QED BY <2>1, <2>2, ArraysAreBytes
<1>4. /\ w = ExecuteValidatorVote(v, a, actor, outcome)
      /\ K = {TimeOutKey(id), WeightKey(id), StatusKey(mine), VoteKey(id, actor)}
  <2>1. w = Execute(a, actor, mine, outcome)
    BY DEF Steps
  <2> QED BY <1>3, <2>1 DEF Execute, StateKeys, TransferID, RegisterID, RegisterImageID, ValidatorVoteID
<1>5. IsView(v, K) /\ v.store = store /\ ~ v.failed
  BY ViewIs
<1>6. StatusKey(id) \notin K
  <2> HIDE DEF id, mine, actor, K
  <2>1. StatusKey(id) \notin {TimeOutKey(id), WeightKey(id), StatusKey(mine), VoteKey(id, actor)}
    BY <1>1, <1>3, StatusNotDeclared
  <2> QED BY <1>4, <2>1
<1>7. /\ opened' = opened /\ succeeded' = succeeded \cup {<<id, actor>>}
      /\ counted' = IF Counts(a, actor, outcome)
                    THEN counted \cup {[tx |-> id, actor |-> actor, node |-> "v", vote |-> vote, at |-> now]}
                    ELSE counted
  BY <1>3 DEF Steps, Remembers
<1>8. outcome = "matched" => env.interned
  BY DEF Steps
<1>9. outcome = "unmatched" => ~ env.interned
  BY DEF Steps
<1>10. InWindow(id) => id \in TxIDs
  <2> HIDE DEF id
  <2> QED BY <1>3, WindowsKnown
<1>11. CASE Counts(a, actor, outcome)
  <2>1. InWindow(id) /\ outcome = "matched" /\ ~ GetVote(store, id, actor)
    BY <1>11 DEF Counts
  <2>2. VoteLeaves(v, w, a, actor)
    <3>1. a.txID \in Seq(Byte) /\ StatusKey(a.txID) \notin K /\ WeightKey(a.txID) \in K
          /\ VoteKey(a.txID, actor) \in K
      BY <1>3, <1>4, <1>6
    <3>2. Sound(v.store)
      BY <1>2, <1>5
    <3> HIDE DEF v, K, a, actor
    <3> QED BY <1>1, <1>4, <1>5, <1>11, <3>1, <3>2, VoteCountsIs
  <2> DEFINE s == IF vote THEN Put(store, WeightKey(id), BigEndian(Tallied(store, id, Weight), Uint64Len))
                  ELSE store
             t == store'
  <2>3. t = Put(s, VoteKey(id, actor), BigEndian(1, Uint16Len))
    <3> HIDE DEF v
    <3> QED BY <1>1, <1>5, <2>2 DEF VoteLeaves
  <2>4. /\ Deadlines(t) = Deadlines(store) /\ VotesIn(t) = VotesIn(store) \cup {<<id, actor>>}
        /\ Weights(t) = IF vote THEN With(Weights(store), id, Tallied(store, id, Weight))
                        ELSE Weights(store)
    <3>1. id \in TxIDs
      BY <1>10, <2>1
    <3>2. s = IF vote THEN Put(store, WeightKey(id), BigEndian(Tallied(store, id, Weight), Uint64Len))
              ELSE store
      OBVIOUS
    <3> HIDE DEF s, t, id, actor, vote
    <3> QED BY <1>1, <1>2, <1>3, <2>3, <3>1, <3>2, VoteWrites
  <2>5. counted' = counted \cup {[tx |-> id, actor |-> actor, node |-> "v", vote |-> vote, at |-> now]}
    BY <1>7, <1>11
  <2>6. id \in TxIDs /\ env.interned
    BY <1>8, <1>10, <2>1
  <2> HIDE DEF s, id, actor, vote
  <2>7. Voting!VoteCounted(id, actor, "k", "valid", vote, "v")
    BY <1>1, <1>2, <1>3, <1>7, <2>1, <2>4, <2>5, <2>6, VoteMaps DEF With
  <2>8. Voting!ValidatorVote(id, actor, "k", "valid", vote)
    BY <2>7 DEF Voting!ValidatorVote
  <2> QED BY <1>1, <1>3, <2>6, <2>8 DEF Voting!Next, Voting!Signatures
<1>12. CASE ~ Counts(a, actor, outcome)
  <2>1. InWindow(id) /\ outcome = "unmatched" /\ w = v
    <3> DEFINE x == InWindow(id) /\ outcome = "unmatched"
               c == Counts(a, actor, outcome)
               d == Drop(v, StoreVote(IF a.vote THEN Drop(v, UpdateWeight(v, a.txID, Weight, Weight)) ELSE v,
                                      a.txID, actor))
               f == Fail(v)
    <3>1. w = CASE c -> d [] x -> v [] OTHER -> f
      BY <1>4 DEF ExecuteValidatorVote
    <3>2. f.failed
      <4> HIDE DEF v, f
      <4>1. f = Fail(v)
        BY DEF f
      <4> QED BY <1>5, <4>1 DEF Fail, IsView
    <3>3. ~ c
      BY <1>12
    <3> HIDE DEF c, d, x, f, v
    <3>4. x /\ w = v
      BY <3>1, <3>2, <3>3
    <3> QED BY <3>4 DEF x
  <2>2. store' = store /\ id \in TxIDs /\ ~ env.interned
    BY <1>1, <1>5, <1>9, <1>10, <2>1
  <2>3. SameRecords
    BY <2>2 DEF SameRecords
  <2>4. counted' = counted
    BY <1>7, <1>12
  <2> HIDE DEF id, actor, vote
  <2>5. Voting!VoteSkipped(id, actor, "k", "valid")
    BY <1>1, <1>2, <1>7, <2>1, <2>2, <2>3, <2>4, SkipMaps
  <2>6. Voting!ValidatorVote(id, actor, "k", "valid", vote)
    BY <2>5 DEF Voting!ValidatorVote
  <2> QED BY <1>1, <1>3, <2>2, <2>6 DEF Voting!Next, Voting!Signatures
<1> QED BY <1>11, <1>12

\* Genesis, which holds balances alone, is a state with no votes.
LEMMA GenesisMaps == Init => Voting!Init
<1> SUFFICES ASSUME Init PROVE Voting!Init
  OBVIOUS
<1>1. ASSUME NEW k \in DOMAIN store PROVE k[1] = 0
  <2>1. DOMAIN store = {BalanceKey(a) : a \in Accounts}
    BY DEF Init
  <2>2. \A a \in Accounts : BalanceKey(a)[1] = 0
    BY ArraysAreBytes, KeysAre
  <2> QED BY <1>1, <2>1, <2>2
<1>2. ASSUME NEW id \in TxIDs
      PROVE  /\ Stored(TimeOutKey(id)) = -1 /\ Stored(WeightKey(id)) = -1
             /\ VerifyStatus(id).err /\ \A b \in Accounts : ~ GetVote(store, id, b)
  <2> DEFINE L == DOMAIN store
  <2>1. (\A k \in L : k[1] # 8) /\ (\A k \in L : k[1] # 9) /\ (\A k \in L : k[1] # 10)
        /\ (\A k \in L : k[1] # 11)
    BY <1>1
  <2> HIDE DEF L
  <2>2. /\ TimeOutKey(id) \notin L /\ WeightKey(id) \notin L /\ StatusKey(id) \notin L
        /\ \A b \in Accounts : VoteKey(id, b) \notin L
    BY <2>1, OtherKeys
  <2> QED BY <2>2 DEF L, Stored, VerifyStatus, GetVerifyStatusFromState, GetVote, Get, NotFound
<1>3. env.interned \in BOOLEAN
  BY DEF Init
<1>4. /\ now \in Times /\ opened = {} /\ counted = {} /\ succeeded = {}
  BY ChainAssumption DEF Init
<1> QED BY <1>2, <1>3, <1>4 DEF Voting!Init, Voting!Libraries, Voting!NoRecord

\* Read back from the bytes, the chain's records of deadlines, weights, marks and votes
\* are those of the voting, and every transaction is one step of it or none: no key of
\* storage.go collides with another, hides it, or is cut into it.
THEOREM TxImplementsVoting == Spec => VotingSpec
<1>1. now \in Times /\ [Next]_vars => (now \in Times)'
  BY DEF Next, vars, Send, Process, Block, Accepted
<1>2. Init => now \in Times
  BY ChainAssumption DEF Init
<1>3. /\ now \in Times /\ ChainInv /\ ChainInv' /\ OpenedInv /\ NumbersInv /\ [Next]_vars
      => [Voting!Next]_(Voting!vars)
  <2> SUFFICES ASSUME now \in Times, ChainInv, ChainInv', OpenedInv, NumbersInv, [Next]_vars
               PROVE  [Voting!Next]_(Voting!vars)
    OBVIOUS
  <2>1. StoreInv /\ StoreInv'
    BY DEF ChainInv
  <2>2. ASSUME NEW n \in DOMAIN sent, NEW outcome \in Outcomes, Process(n, outcome)
        PROVE  [Voting!Next]_(Voting!vars)
    <3>1. PICK tx, w : Steps(n, tx, outcome, w)
      BY <2>2, ProcessSteps
    <3>2. CASE w.failed
      BY <3>1, <3>2, FailedMaps
    <3>3. CASE IsVerify(tx.action)
      BY <2>1, <3>1, <3>3, VerificationMaps
    <3>4. CASE tx.action.type = ValidatorVoteID /\ ~ w.failed
      BY <2>1, <3>1, <3>4, VotedMaps
    <3>5. CASE ~ IsVerify(tx.action) /\ tx.action.type # ValidatorVoteID
      BY <2>1, <3>1, <3>5, PlainMaps
    <3> QED BY <3>2, <3>3, <3>4, <3>5
  <2>3. CASE Block
    <3>1. Only(store, store', BlockKeys)
      BY <2>1, <2>3, BlockIs DEF StoreInv
    <3>2. \A k \in BlockKeys : k[1] \in {0, 1, 2, 3, 7}
      BY KeysAre
    <3>3. SameRecords
      BY <2>1, <3>1, <3>2, OthersSame
    <3>4. now' \in Times /\ now' > now /\ UNCHANGED <<env, opened, counted, succeeded>>
      BY <2>3 DEF Block
    <3>5. Voting!Block
      BY <3>3, <3>4, BlockMaps
    <3> QED BY <3>5 DEF Voting!Next
  <2>4. CASE UNCHANGED <<env, now, records>>
    <3>1. SameRecords /\ UNCHANGED <<env, now, opened, counted, succeeded>>
      BY <2>4 DEF SameRecords, records
    <3> QED BY <3>1, QuietMaps
  <2> QED BY <2>2, <2>3, <2>4 DEF Next, vars, Send, Accepted
<1> QED BY <1>1, <1>2, <1>3, GenesisMaps, ChainInductive, ResultsInductive, NumbersInductive,
           OpenedInductive, PTL DEF Spec, VotingSpec, Voting!Spec
=============================================================================
