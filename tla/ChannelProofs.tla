----------------------------- MODULE ChannelProofs -----------------------------
(***************************************************************************)
(* The byte ring of memory.rs implements a bounded first-in first-out      *)
(* queue, for any capacity that divides the range of its counters.  For    *)
(* any receivers and senders, any capacity and any batch, the byte channel *)
(* of files.rs keeps that ring within bounds, has one receiver at a time   *)
(* behind its guard, and never loses track of a parked receiver.           *)
(***************************************************************************)
EXTENDS CircBuf, Channel, WellFoundedInduction, TLAPS

--------------------------------------------------------------------------------
(* Remainders. *)

LEMMA MulLess ==
    ASSUME NEW c \in Nat, NEW a \in Nat, NEW b \in Nat, a < b
    PROVE  a * c + c <= b * c
  <1>1. a * c \in Nat /\ b * c \in Nat /\ (a + 1) * c = a * c + c
    OBVIOUS
  <1>2. PICK d \in Nat : b = (a + 1) + d
    <2>1. b - (a + 1) \in Nat /\ b = (a + 1) + (b - (a + 1))
      OBVIOUS
    <2> QED BY <2>1
  <1>3. b * c = (a + 1) * c + d * c /\ d * c \in Nat
    BY <1>2
  <1> QED BY <1>1, <1>3

LEMMA Rest ==
    ASSUME NEW c \in Nat \ {0}, NEW p \in Nat
    PROVE  /\ p % c \in 0..(c - 1)
           /\ \E q \in Nat : q * c \in Nat /\ p = q * c + (p % c)
  <1>1. /\ p \div c \in Nat /\ (p \div c) * c \in Nat
        /\ p % c \in 0..(c - 1) /\ p = (p \div c) * c + (p % c)
    OBVIOUS
  <1> QED BY <1>1, Zenon

\* A number has one remainder.
LEMMA RestIs ==
    ASSUME NEW c \in Nat \ {0}, NEW p \in Nat, NEW q \in Nat, NEW s \in 0..(c - 1),
           p = q * c + s
    PROVE  p % c = s
  <1> DEFINE r == p % c
  <1>1. PICK d \in Nat : d * c \in Nat /\ p = d * c + r
    BY Rest, Zenon
  <1>2. r \in 0..(c - 1) /\ q * c \in Nat
    BY Rest
  <1> HIDE DEF r
  <1>3. CASE d < q
    BY <1>1, <1>2, <1>3, MulLess
  <1>4. CASE q < d
    BY <1>1, <1>2, <1>4, MulLess
  <1>5. r = s
    BY <1>1, <1>2, <1>3, <1>4
  <1> QED BY <1>5 DEF r

LEMMA RestShift ==
    ASSUME NEW c \in Nat \ {0}, NEW p \in Nat, NEW m \in Nat
    PROVE  p + m * c \in Nat /\ (p + m * c) % c = p % c
  <1>1. PICK q \in Nat : q * c \in Nat /\ p = q * c + (p % c)
    BY Rest, Zenon
  <1>2. m * c \in Nat /\ (q + m) * c = q * c + m * c /\ p % c \in 0..(c - 1)
    BY Rest
  <1>3. p + m * c = (q + m) * c + (p % c) /\ q + m \in Nat /\ p + m * c \in Nat
    BY <1>1, <1>2
  <1> QED BY <1>2, <1>3, RestIs, Zenon

\* Numbers less than c apart have different remainders.
LEMMA RestApart ==
    ASSUME NEW c \in Nat \ {0}, NEW p \in Nat, NEW i \in 1..c, NEW j \in 1..c,
           (p + i) % c = (p + j) % c
    PROVE  i = j
  <1> DEFINE s == (p + i) % c
  <1>1. p + i \in Nat /\ p + j \in Nat
    OBVIOUS
  <1>2. PICK a \in Nat : a * c \in Nat /\ p + i = a * c + s
    BY <1>1, Rest, Zenon
  <1>3. PICK b \in Nat : b * c \in Nat /\ p + j = b * c + s
    BY <1>1, Rest, Zenon
  <1>4. s \in 0..(c - 1)
    BY <1>1, Rest, Zenon
  <1> HIDE DEF s
  <1>5. ~(a < b)
    BY <1>2, <1>3, <1>4, MulLess
  <1>6. ~(b < a)
    BY <1>2, <1>3, <1>4, MulLess
  <1>7. a = b
    BY <1>5, <1>6
  <1> QED BY <1>2, <1>3, <1>4, <1>7

\* Counting modulo m and then adding is adding and then counting.
LEMMA RestAdd ==
    ASSUME NEW m \in Nat \ {0}, NEW p \in Nat, NEW i \in Nat
    PROVE  ((p % m) + i) % m = (p + i) % m
  <1>1. PICK q \in Nat : q * m \in Nat /\ p = q * m + (p % m)
    BY Rest, Zenon
  <1>2. p % m \in Nat
    BY Rest
  <1>3. p + i = ((p % m) + i) + q * m /\ (p % m) + i \in Nat
    BY <1>1, <1>2
  <1>4. ASSUME NEW a \in Nat PROVE (a + q * m) % m = a % m
    BY RestShift, Zenon
  <1>5. ((p % m) + i + q * m) % m = ((p % m) + i) % m
    BY <1>3, <1>4, Zenon
  <1> QED BY <1>3, <1>5, Zenon

\* If c divides m the remainder by c can be taken before or after the one by m.
LEMMA RestTwice ==
    ASSUME NEW c \in Nat \ {0}, NEW m \in Nat \ {0}, m % c = 0, NEW p \in Nat
    PROVE  (p % m) % c = p % c
  <1>1. PICK k \in Nat : k * c \in Nat /\ m = k * c
    BY Rest
  <1>2. PICK q \in Nat : q * m \in Nat /\ p = q * m + (p % m)
    BY Rest, Zenon
  <1>3. q * m = (q * k) * c /\ q * k \in Nat
    BY <1>1
  <1>4. p % m \in Nat
    BY Rest
  <1>5. p = (p % m) + (q * k) * c
    BY <1>2, <1>3, <1>4
  <1>6. ASSUME NEW a \in Nat, NEW b \in Nat PROVE (a + b * c) % c = a % c
    BY RestShift, Zenon
  <1>7. ((p % m) + (q * k) * c) % c = (p % m) % c
    BY <1>3, <1>4, <1>6, Zenon
  <1> QED BY <1>5, <1>7, Zenon

--------------------------------------------------------------------------------
(* Lists. *)

LEMMA SameElements ==
    ASSUME NEW S, NEW s \in Seq(S), NEW t \in Seq(S), Len(s) = Len(t),
           \A i \in 1..Len(s) : s[i] = t[i]
    PROVE  s = t
  OBVIOUS

LEMMA Joined ==
    ASSUME NEW S, NEW p \in Seq(S), NEW q \in Seq(S)
    PROVE  /\ p \o q \in Seq(S) /\ Len(p \o q) = Len(p) + Len(q)
           /\ \A i \in 1..(Len(p) + Len(q)) :
                 (p \o q)[i] = IF i <= Len(p) THEN p[i] ELSE q[i - Len(p)]
  OBVIOUS

--------------------------------------------------------------------------------
(* Rings. *)

\* wr is n bytes ahead of rd.
RingOK(r) ==
    /\ r \in [data : [Cells -> Bytes], rd : 0..(Wrap - 1), wr : 0..(Wrap - 1), n : 0..Cap]
    /\ r.wr = (r.rd + r.n) % Wrap

\* The bytes in a ring, oldest first.
ContentsOf(r) == [i \in 1..r.n |-> r.data[((r.rd + i) % Wrap) % Cap]]

LEMMA Sizes == Cap \in Nat \ {0} /\ Wrap \in Nat \ {0}
  BY CircBufAssumption

LEMMA CellOf ==
    ASSUME NEW p \in Nat
    PROVE  (p % Wrap) % Cap \in Cells
  <1>1. p % Wrap \in 0..(Wrap - 1)
    BY Sizes, Rest, Zenon
  <1>2. p % Wrap \in Nat
    BY <1>1, Sizes
  <1> QED BY <1>2, Sizes, Rest, Zenon DEF Cells

LEMMA ContentsSeq ==
    ASSUME NEW r, RingOK(r)
    PROVE  ContentsOf(r) \in Seq(Bytes) /\ Len(ContentsOf(r)) = r.n
  <1>1. r.n \in Nat /\ r.rd \in Nat /\ r.data \in [Cells -> Bytes]
    BY Sizes DEF RingOK
  <1>2. ASSUME NEW i \in 1..r.n PROVE r.data[((r.rd + i) % Wrap) % Cap] \in Bytes
    <2>1. r.rd + i \in Nat
      BY <1>1
    <2>2. ((r.rd + i) % Wrap) % Cap \in Cells
      BY <2>1, CellOf, Zenon
    <2> QED BY <1>1, <2>2, Zenon
  <1>3. ContentsOf(r) \in [1..r.n -> Bytes]
    BY <1>2, Zenon DEF ContentsOf
  <1> QED BY <1>1, <1>3

\* push puts the byte behind the others; a full ring stays as it is.
LEMMA PushIs ==
    ASSUME Wrap % Cap = 0, NEW r, RingOK(r), NEW v \in Bytes
    PROVE  /\ RingOK(Pushed(r, v))
           /\ Full(r) => Pushed(r, v) = r /\ r.n = Cap
           /\ ~Full(r) => /\ Pushed(r, v).n = r.n + 1
                          /\ ContentsOf(Pushed(r, v)) = Append(ContentsOf(r), v)
  <1>1. /\ r \in [data : [Cells -> Bytes], rd : 0..(Wrap - 1), wr : 0..(Wrap - 1), n : 0..Cap]
        /\ r.n \in Nat /\ r.rd \in Nat /\ r.wr \in Nat /\ r.n <= Cap
        /\ r.wr = (r.rd + r.n) % Wrap
    BY Sizes DEF RingOK
  <1>2. CASE Full(r)
    BY <1>1, <1>2, Sizes DEF Full, Pushed
  <1>3. CASE ~Full(r)
    <2> DEFINE w == (r.wr + 1) % Wrap
               s == Pushed(r, v)
    <2>1. r.n < Cap /\ r.n + 1 \in 0..Cap
      BY <1>1, <1>3, Sizes DEF Full
    <2>2. w \in 0..(Wrap - 1) /\ w = (r.rd + (r.n + 1)) % Wrap
      <3>1. r.rd + r.n \in Nat /\ (r.rd + r.n) + 1 = r.rd + (r.n + 1) /\ r.wr + 1 \in Nat
        BY <1>1
      <3>2. w \in 0..(Wrap - 1)
        BY <3>1, Sizes, Rest, Zenon
      <3>3. (((r.rd + r.n) % Wrap) + 1) % Wrap = ((r.rd + r.n) + 1) % Wrap
        BY <3>1, Sizes, RestAdd
      <3> QED BY <1>1, <3>1, <3>2, <3>3
    <2>3. w \in Nat /\ w % Cap \in Cells
      <3>1. w \in Nat
        BY <2>2, Sizes
      <3> HIDE DEF w
      <3> QED BY <3>1, Sizes, Rest, Zenon DEF Cells
    <2>4. s = [r EXCEPT !.wr = w, !.data[w % Cap] = v, !.n = @ + 1]
      BY <1>3 DEF Pushed
    <2> HIDE DEF w, s
    <2>5. /\ s \in [data : [Cells -> Bytes], rd : 0..(Wrap - 1), wr : 0..(Wrap - 1), n : 0..Cap]
          /\ s.n = r.n + 1 /\ s.rd = r.rd /\ s.wr = w
          /\ s.data = [r.data EXCEPT ![w % Cap] = v]
      BY <1>1, <2>1, <2>2, <2>3, <2>4, Zenon
    <2>6. RingOK(s)
      BY <2>2, <2>5 DEF RingOK
    <2>7. ContentsOf(s) = Append(ContentsOf(r), v)
      <3> DEFINE c == ContentsOf(s)
                 d == Append(ContentsOf(r), v)
      <3>1. c \in Seq(Bytes) /\ Len(c) = r.n + 1
        BY <2>5, <2>6, ContentsSeq
      <3>2. /\ d \in Seq(Bytes) /\ Len(d) = r.n + 1 /\ d[r.n + 1] = v
            /\ \A i \in 1..r.n : d[i] = ContentsOf(r)[i]
        BY <1>1, ContentsSeq
      <3>3. ASSUME NEW i \in 1..(r.n + 1) PROVE c[i] = d[i]
        <4> DEFINE cell == ((r.rd + i) % Wrap) % Cap
        <4>1. i \in Nat /\ r.rd + i \in Nat /\ i \in 1..Cap /\ r.n + 1 \in 1..Cap
          <5> DEFINE k == r.n
                     p == r.rd
          <5>1. k \in Nat /\ p \in Nat /\ k < Cap /\ i \in 1..(k + 1)
            BY <1>1, <2>1
          <5> HIDE DEF k, p
          <5>2. i \in Nat /\ p + i \in Nat /\ i \in 1..Cap /\ k + 1 \in 1..Cap
            BY <5>1, Sizes
          <5> QED BY <5>2 DEF k, p
        <4>2. c[i] = IF cell = w % Cap THEN v ELSE r.data[cell]
          <5>1. c[i] = s.data[cell]
            BY <2>5 DEF ContentsOf
          <5>2. cell \in Cells
            BY <4>1, CellOf, Zenon
          <5> HIDE DEF cell
          <5> QED BY <1>1, <2>5, <5>1, <5>2
        <4>3. CASE i = r.n + 1
          BY <2>2, <3>2, <4>2, <4>3
        <4>4. CASE i # r.n + 1
          <5>1. i \in 1..r.n
            BY <1>1, <4>4
          <5>2. cell # w % Cap
            <6>1. cell = (r.rd + i) % Cap
              BY <4>1, Sizes, RestTwice, Zenon
            <6>2. r.rd + (r.n + 1) \in Nat
              BY <1>1
            <6>3. w % Cap = (r.rd + (r.n + 1)) % Cap
              BY <2>2, <6>2, Sizes, RestTwice, Zenon
            <6> QED BY <1>1, <4>1, <4>4, <6>1, <6>3, Sizes, RestApart, Zenon
          <5>3. d[i] = r.data[cell]
            BY <3>2, <5>1, Zenon DEF ContentsOf
          <5> QED BY <4>2, <5>2, <5>3, Zenon
        <4> QED BY <4>3, <4>4, Zenon
      <3> HIDE DEF c, d
      <3>4. c = d
        BY <1>1, <3>1, <3>2, <3>3
      <3> QED BY <3>4 DEF c, d
    <2> QED BY <1>3, <2>5, <2>6, <2>7 DEF s
  <1> QED BY <1>2, <1>3

\* pop takes the oldest byte, the one peek shows.
LEMMA PopIs ==
    ASSUME NEW r, RingOK(r), r.n # 0
    PROVE  /\ RingOK(Popped(r)) /\ Popped(r).n = r.n - 1
           /\ Peeked(r) = ContentsOf(r)[1]
           /\ \A i \in 1..(r.n - 1) : ContentsOf(Popped(r))[i] = ContentsOf(r)[i + 1]
  <1> DEFINE s == Popped(r)
  <1>1. /\ r \in [data : [Cells -> Bytes], rd : 0..(Wrap - 1), wr : 0..(Wrap - 1), n : 0..Cap]
        /\ r.n \in Nat /\ r.rd \in Nat /\ r.n \in 1..Cap
        /\ r.wr = (r.rd + r.n) % Wrap
    BY Sizes DEF RingOK
  <1>2. (r.rd + 1) % Wrap \in 0..(Wrap - 1)
    <2>1. r.rd + 1 \in Nat
      BY <1>1
    <2> QED BY <2>1, Sizes, Rest, Zenon
  <1>3. r.n - 1 \in 0..Cap /\ r.n - 1 \in Nat
    BY <1>1, Sizes
  <1>4. /\ s \in [data : [Cells -> Bytes], rd : 0..(Wrap - 1), wr : 0..(Wrap - 1), n : 0..Cap]
        /\ s.n = r.n - 1 /\ s.rd = (r.rd + 1) % Wrap /\ s.wr = r.wr /\ s.data = r.data
    BY <1>1, <1>2, <1>3, Zenon DEF Popped
  <1> HIDE DEF s
  <1>5. ASSUME NEW i \in Nat PROVE (s.rd + i) % Wrap = (r.rd + (i + 1)) % Wrap
    <2>1. r.rd + 1 \in Nat /\ (r.rd + 1) + i = r.rd + (i + 1)
      BY <1>1
    <2>2. (((r.rd + 1) % Wrap) + i) % Wrap = ((r.rd + 1) + i) % Wrap
      BY <2>1, Sizes, RestAdd, Zenon
    <2> QED BY <1>4, <2>1, <2>2
  <1>6. RingOK(s)
    <2>1. (s.rd + (r.n - 1)) % Wrap = (r.rd + ((r.n - 1) + 1)) % Wrap
      BY <1>3, <1>5, Zenon
    <2>2. (r.n - 1) + 1 = r.n
      BY <1>1
    <2> QED BY <1>1, <1>4, <2>1, <2>2 DEF RingOK
  <1>7. Peeked(r) = ContentsOf(r)[1]
    <2>1. 1 \in 1..r.n
      BY <1>1
    <2> QED BY <2>1, Zenon DEF Peeked, ContentsOf
  <1>8. ASSUME NEW i \in 1..(r.n - 1) PROVE ContentsOf(s)[i] = ContentsOf(r)[i + 1]
    <2>1. i \in Nat /\ i + 1 \in 1..r.n /\ i \in 1..s.n
      BY <1>1, <1>4
    <2>2. ContentsOf(s)[i] = s.data[((s.rd + i) % Wrap) % Cap]
      BY <2>1, Zenon DEF ContentsOf
    <2>3. ContentsOf(r)[i + 1] = r.data[((r.rd + (i + 1)) % Wrap) % Cap]
      BY <2>1, Zenon DEF ContentsOf
    <2> QED BY <1>4, <1>5, <2>1, <2>2, <2>3, Zenon
  <1> QED BY <1>4, <1>6, <1>7, <1>8 DEF s

--------------------------------------------------------------------------------
(* The loops of fill_from and drain_to.  tlapm has no induction over data; the *)
(* least counterexample does its work.                                         *)

LEMMA LeastExists ==
    ASSUME NEW T \in SUBSET Nat, T # {}
    PROVE  \E N \in T : \A m \in T : N <= m
  <1>1. IsWellFoundedOn(OpToRel(<, Nat), Nat)
    BY NatLessThanWellFounded, Zenon
  <1>2. PICK N \in T : \A y \in T : ~(<<y, N>> \in OpToRel(<, Nat))
    BY <1>1, WFMin, Zenon
  <1>3. \A y \in T : ~(y < N)
    BY <1>2, Zenon DEF OpToRel
  <1> QED BY <1>3

\* A set of numbers up to N that holds 0 and, with a number, the next one.
LEMMA UpTo ==
    ASSUME NEW N \in Nat, NEW G, 0 \in G, \A k \in 1..N : k - 1 \in G => k \in G
    PROVE  \A k \in 0..N : k \in G
  <1> DEFINE T == {k \in 0..N : k \notin G}
  <1> SUFFICES ASSUME T # {} PROVE FALSE
    OBVIOUS
  <1>1. PICK k \in T : \A m \in T : k <= m
    <2>1. T \in SUBSET Nat
      OBVIOUS
    <2> HIDE DEF T
    <2> QED BY <2>1, LeastExists, Zenon
  <1>2. k # 0
    BY <1>1
  <1>3. k \in 1..N /\ k - 1 \in 0..N /\ ~(k <= k - 1)
    BY <1>1, <1>2
  <1>4. k - 1 \in G
    BY <1>1, <1>3
  <1> QED BY <1>1, <1>3, <1>4

\* F holds the rings of the first N rounds of fill_from.
Fills(r, src, F, N) ==
    F = [k \in 0..N |-> IF k = 0 THEN r ELSE Pushed(F[k - 1], src[k])]

LEMMA FillsExist ==
    ASSUME NEW r, NEW src, Len(src) \in Nat
    PROVE  \E F : Fills(r, src, F, Len(src)) /\ Filled(r, src) = F[Len(src)]
  <1> DEFINE G == {N \in Nat : \E F : Fills(r, src, F, N)}
  <1>1. 0 \in G
    <2>1. Fills(r, src, [k \in 0..0 |-> r], 0)
      BY DEF Fills
    <2> QED BY <2>1
  <1>2. ASSUME NEW N \in 1..Len(src), N - 1 \in G PROVE N \in G
    <2>1. PICK F : Fills(r, src, F, N - 1)
      BY <1>2
    <2> DEFINE H == [k \in 0..N |-> IF k < N THEN F[k] ELSE Pushed(F[N - 1], src[N])]
    <2>2. N \in Nat /\ N - 1 \in 0..N /\ N - 1 < N /\ N # 0
      OBVIOUS
    <2>3. \A k \in 0..(N - 1) : F[k] = IF k = 0 THEN r ELSE Pushed(F[k - 1], src[k])
      BY <2>1, Zenon DEF Fills
    <2>4. ASSUME NEW k \in 0..N
          PROVE  H[k] = IF k = 0 THEN r ELSE Pushed(H[k - 1], src[k])
      <3>1. H[k] = IF k < N THEN F[k] ELSE Pushed(F[N - 1], src[N])
        BY Zenon
      <3>2. k # 0 => k - 1 \in 0..N /\ k - 1 < N
        BY <2>2
      <3>3. k # 0 => H[k - 1] = F[k - 1]
        BY <3>2, Zenon
      <3> HIDE DEF H
      <3>4. CASE k < N
        <4>1. k \in 0..(N - 1)
          BY <3>4
        <4> QED BY <2>3, <3>1, <3>3, <3>4, <4>1, Zenon
      <3>5. CASE ~(k < N)
        <4>1. k = N
          BY <3>5
        <4> QED BY <2>2, <3>1, <3>3, <3>5, <4>1, Zenon
      <3> QED BY <3>4, <3>5
    <2>5. Fills(r, src, H, N)
      BY <2>4, Zenon DEF Fills
    <2> QED BY <2>2, <2>5
  <1>3. Len(src) \in 0..Len(src)
    OBVIOUS
  <1> HIDE DEF G
  <1>4. Len(src) \in G
    BY <1>1, <1>2, <1>3, UpTo, Zenon
  <1>5. Fills(r, src, (CHOOSE F : Fills(r, src, F, Len(src))), Len(src))
    BY <1>4, Zenon DEF G
  <1>6. Filled(r, src) = (CHOOSE F : Fills(r, src, F, Len(src)))[Len(src)]
    BY DEF Filled, Fills
  <1> QED BY <1>5, <1>6, Zenon

LEMMA SubSeqGrows ==
    ASSUME NEW S, NEW c \in Seq(S), NEW src \in Seq(S), NEW k \in 1..Len(src)
    PROVE  Append(c \o SubSeq(src, 1, k - 1), src[k]) = c \o SubSeq(src, 1, k)
  <1> DEFINE a == SubSeq(src, 1, k - 1)
             b == SubSeq(src, 1, k)
             x == Append(c \o a, src[k])
             y == c \o b
  <1>0. Len(c) \in Nat /\ Len(src) \in Nat /\ src[k] \in S /\ k - 1 \in Nat
    OBVIOUS
  <1>1. a \in Seq(S) /\ Len(a) = k - 1 /\ \A i \in 1..(k - 1) : a[i] = src[i]
    BY <1>0
  <1>2. b \in Seq(S) /\ Len(b) = k /\ \A i \in 1..k : b[i] = src[i]
    BY <1>0
  <1> HIDE DEF a, b
  <1>3. /\ x \in Seq(S) /\ Len(x) = Len(c) + k /\ x[Len(c) + k] = src[k]
        /\ \A i \in 1..(Len(c) + (k - 1)) : x[i] = IF i <= Len(c) THEN c[i] ELSE a[i - Len(c)]
    <2>1. /\ c \o a \in Seq(S) /\ Len(c \o a) = Len(c) + (k - 1)
          /\ \A i \in 1..(Len(c) + (k - 1)) :
                (c \o a)[i] = IF i <= Len(c) THEN c[i] ELSE a[i - Len(c)]
      <3>1. /\ c \o a \in Seq(S) /\ Len(c \o a) = Len(c) + Len(a)
            /\ \A i \in 1..(Len(c) + Len(a)) :
                  (c \o a)[i] = IF i <= Len(c) THEN c[i] ELSE a[i - Len(c)]
        BY <1>1, Joined, Zenon
      <3> QED BY <1>1, <3>1, Zenon
    <2> DEFINE d == c \o a
    <2> HIDE DEF d
    <2>2. /\ Append(d, src[k]) \in Seq(S) /\ Len(Append(d, src[k])) = Len(d) + 1
          /\ Append(d, src[k])[Len(d) + 1] = src[k]
          /\ \A i \in 1..Len(d) : Append(d, src[k])[i] = d[i]
      BY <1>0, <2>1 DEF d
    <2> QED BY <1>0, <2>1, <2>2 DEF d
  <1>4. /\ y \in Seq(S) /\ Len(y) = Len(c) + k
        /\ \A i \in 1..(Len(c) + k) : y[i] = IF i <= Len(c) THEN c[i] ELSE b[i - Len(c)]
    BY <1>2, Joined, Zenon
  <1> HIDE DEF x, y
  <1>5. ASSUME NEW i \in 1..(Len(c) + k) PROVE x[i] = y[i]
    <2>1. CASE i = Len(c) + k
      <3>1. ~(i <= Len(c)) /\ i - Len(c) = k /\ k \in 1..k
        BY <1>0, <2>1
      <3> QED BY <1>2, <1>3, <1>4, <2>1, <3>1
    <2>2. CASE i # Len(c) + k
      <3>1. i \in 1..(Len(c) + (k - 1))
        BY <1>0, <2>2
      <3>2. CASE i <= Len(c)
        BY <1>3, <1>4, <3>1, <3>2, Zenon
      <3>3. CASE ~(i <= Len(c))
        <4>1. i - Len(c) \in 1..(k - 1) /\ i - Len(c) \in 1..k
          BY <1>0, <3>1, <3>3
        <4> QED BY <1>1, <1>2, <1>3, <1>4, <3>1, <3>3, <4>1, Zenon
      <3> QED BY <3>2, <3>3
    <2> QED BY <2>1, <2>2
  <1>6. x = y
    BY <1>3, <1>4, <1>5, SameElements, Zenon
  <1> QED BY <1>6, Zenon DEF x, y, a, b

\* fill_from puts as many of the bytes as fit behind those in the ring.
LEMMA FillIs ==
    ASSUME Wrap % Cap = 0, NEW r, RingOK(r), NEW src \in Seq(Bytes)
    PROVE  LET f == Filled(r, src)
               m == IF Len(src) < Cap - r.n THEN Len(src) ELSE Cap - r.n
           IN  /\ RingOK(f) /\ f.n = r.n + m
               /\ ContentsOf(f) = ContentsOf(r) \o SubSeq(src, 1, m)
  <1> DEFINE m(k) == IF k < Cap - r.n THEN k ELSE Cap - r.n
  <1>1. Len(src) \in Nat /\ Cap \in Nat /\ r.n \in Nat /\ r.n <= Cap /\ Cap - r.n \in Nat
    BY Sizes DEF RingOK
  <1>2. ContentsOf(r) \in Seq(Bytes)
    BY ContentsSeq, Zenon
  <1>3. PICK F : Fills(r, src, F, Len(src)) /\ Filled(r, src) = F[Len(src)]
    BY <1>1, FillsExist, Zenon
  <1>4. \A k \in 0..Len(src) : F[k] = IF k = 0 THEN r ELSE Pushed(F[k - 1], src[k])
    BY <1>3, Zenon DEF Fills
  <1> DEFINE Good(k) == /\ RingOK(F[k]) /\ F[k].n = r.n + m(k)
                        /\ ContentsOf(F[k]) = ContentsOf(r) \o SubSeq(src, 1, m(k))
             G == {k \in Nat : Good(k)}
  <1>5. 0 \in G
    <2>1. F[0] = r /\ m(0) = 0
      BY <1>1, <1>4
    <2>2. ContentsOf(r) \o SubSeq(src, 1, 0) = ContentsOf(r)
      BY <1>2
    <2> QED BY <1>1, <2>1, <2>2
  <1>6. ASSUME NEW k \in 1..Len(src), k - 1 \in G PROVE k \in G
    <2> DEFINE f == F[k - 1]
    <2>1. F[k] = Pushed(f, src[k]) /\ src[k] \in Bytes /\ k \in Nat
      <3>1. k \in 0..Len(src) /\ k # 0 /\ k \in Nat
        BY <1>1
      <3> QED BY <1>4, <3>1
    <2>2. /\ RingOK(f) /\ f.n = r.n + m(k - 1)
          /\ ContentsOf(f) = ContentsOf(r) \o SubSeq(src, 1, m(k - 1))
      BY <1>6, Zenon
    <2> HIDE DEF f
    <2>3. CASE Full(f)
      <3>1. Pushed(f, src[k]) = f /\ f.n = Cap
        BY <2>1, <2>2, <2>3, PushIs, Zenon
      <3>2. m(k - 1) = m(k)
        BY <1>1, <2>2, <3>1
      <3> QED BY <2>1, <2>2, <3>1, <3>2, Zenon
    <2>4. CASE ~Full(f)
      <3>1. /\ RingOK(F[k]) /\ F[k].n = f.n + 1
            /\ ContentsOf(F[k]) = Append(ContentsOf(f), src[k])
        BY <2>1, <2>2, <2>4, PushIs, Zenon
      <3>2. m(k - 1) = k - 1 /\ m(k) = k
        BY <1>1, <2>2, <2>4 DEF Full
      <3>3. Append(ContentsOf(r) \o SubSeq(src, 1, k - 1), src[k])
              = ContentsOf(r) \o SubSeq(src, 1, k)
        BY <1>2, SubSeqGrows, Zenon
      <3>4. F[k].n = r.n + m(k)
        BY <1>1, <2>2, <3>1, <3>2
      <3>5. ContentsOf(F[k]) = ContentsOf(r) \o SubSeq(src, 1, m(k))
        BY <2>2, <3>1, <3>2, <3>3, Zenon
      <3> HIDE DEF m
      <3> QED BY <2>1, <3>1, <3>4, <3>5, Zenon
    <2> QED BY <2>3, <2>4, Zenon
  <1>7. Good(Len(src))
    <2> HIDE DEF Good
    <2>1. \A k \in 0..Len(src) : k \in G
      <3> HIDE DEF G
      <3> QED BY <1>1, <1>5, <1>6, UpTo, Zenon
    <2> QED BY <1>1, <2>1
  <1> QED BY <1>3, <1>7

\* F holds the rings of the first N rounds of drain_to.
Pops(r, F, N) == F = [k \in 0..N |-> IF k = 0 THEN r ELSE Popped(F[k - 1])]

LEMMA PopsExist ==
    ASSUME NEW r, NEW take \in Nat
    PROVE  Pops(r, Drains(r, take), take)
  <1> DEFINE G == {N \in Nat : \E F : Pops(r, F, N)}
  <1>1. 0 \in G
    <2>1. Pops(r, [k \in 0..0 |-> r], 0)
      BY DEF Pops
    <2> QED BY <2>1
  <1>2. ASSUME NEW N \in 1..take, N - 1 \in G PROVE N \in G
    <2>1. PICK F : Pops(r, F, N - 1)
      BY <1>2
    <2> DEFINE H == [k \in 0..N |-> IF k < N THEN F[k] ELSE Popped(F[N - 1])]
    <2>2. N \in Nat /\ N - 1 \in 0..N /\ N - 1 < N /\ N # 0
      OBVIOUS
    <2>3. \A k \in 0..(N - 1) : F[k] = IF k = 0 THEN r ELSE Popped(F[k - 1])
      BY <2>1, Zenon DEF Pops
    <2>4. ASSUME NEW k \in 0..N
          PROVE  H[k] = IF k = 0 THEN r ELSE Popped(H[k - 1])
      <3>1. H[k] = IF k < N THEN F[k] ELSE Popped(F[N - 1])
        BY Zenon
      <3>2. k # 0 => k - 1 \in 0..N /\ k - 1 < N
        BY <2>2
      <3>3. k # 0 => H[k - 1] = F[k - 1]
        BY <3>2, Zenon
      <3> HIDE DEF H
      <3>4. CASE k < N
        <4>1. k \in 0..(N - 1)
          BY <3>4
        <4> QED BY <2>3, <3>1, <3>3, <3>4, <4>1, Zenon
      <3>5. CASE ~(k < N)
        <4>1. k = N
          BY <3>5
        <4> QED BY <2>2, <3>1, <3>3, <3>5, <4>1, Zenon
      <3> QED BY <3>4, <3>5
    <2>5. Pops(r, H, N)
      BY <2>4, Zenon DEF Pops
    <2> QED BY <2>2, <2>5
  <1>3. take \in 0..take
    OBVIOUS
  <1> HIDE DEF G
  <1>4. take \in G
    BY <1>1, <1>2, <1>3, UpTo, Zenon
  <1>5. Pops(r, (CHOOSE F : Pops(r, F, take)), take)
    BY <1>4, Zenon DEF G
  <1>6. Drains(r, take) = CHOOSE F : Pops(r, F, take)
    BY DEF Drains, Pops
  <1> QED BY <1>5, <1>6, Zenon

\* drain_to takes the oldest bytes, in their order.
LEMMA DrainIs ==
    ASSUME NEW r, RingOK(r), NEW take \in 0..r.n
    PROVE  LET seen == Drains(r, take)
           IN  /\ RingOK(seen[take]) /\ seen[take].n = r.n - take
               /\ \A i \in 1..take : Peeked(seen[i - 1]) = ContentsOf(r)[i]
               /\ \A i \in 1..(r.n - take) : ContentsOf(seen[take])[i] = ContentsOf(r)[i + take]
  <1> DEFINE F == Drains(r, take)
             Good(k) == /\ RingOK(F[k]) /\ F[k].n = r.n - k
                        /\ \A i \in 1..(r.n - k) : ContentsOf(F[k])[i] = ContentsOf(r)[i + k]
             G == {k \in Nat : Good(k)}
  <1>1. r.n \in Nat /\ take \in Nat
    BY Sizes DEF RingOK
  <1>2. \A k \in 0..take : F[k] = IF k = 0 THEN r ELSE Popped(F[k - 1])
    <2>1. Pops(r, F, take)
      BY <1>1, PopsExist, Zenon
    <2> HIDE DEF F
    <2> QED BY <2>1, Zenon DEF Pops
  <1> HIDE DEF F
  <1>3. 0 \in G
    <2>1. F[0] = r
      BY <1>1, <1>2
    <2>2. r.n = r.n - 0 /\ \A i \in 1..(r.n - 0) : i = i + 0
      BY <1>1
    <2> QED BY <2>1, <2>2
  <1>4. ASSUME NEW k \in 1..take, k - 1 \in G PROVE k \in G
    <2> DEFINE f == F[k - 1]
    <2>1. F[k] = Popped(f) /\ k \in Nat /\ k <= r.n
      <3>1. k \in 0..take /\ k # 0 /\ k \in Nat /\ k <= r.n
        BY <1>1
      <3> QED BY <1>2, <3>1
    <2>2. /\ RingOK(f) /\ f.n = r.n - (k - 1)
          /\ \A i \in 1..(r.n - (k - 1)) : ContentsOf(f)[i] = ContentsOf(r)[i + (k - 1)]
      BY <1>4, Zenon
    <2> HIDE DEF f
    <2>3. f.n # 0 /\ f.n - 1 = r.n - k
      BY <1>1, <2>1, <2>2
    <2>4. /\ RingOK(F[k]) /\ F[k].n = f.n - 1
          /\ \A i \in 1..(f.n - 1) : ContentsOf(F[k])[i] = ContentsOf(f)[i + 1]
      BY <2>1, <2>2, <2>3, PopIs, Zenon
    <2>5. ASSUME NEW i \in 1..(r.n - k) PROVE ContentsOf(F[k])[i] = ContentsOf(r)[i + k]
      <3>1. i \in 1..(f.n - 1) /\ i + 1 \in 1..(r.n - (k - 1)) /\ (i + 1) + (k - 1) = i + k
        BY <1>1, <2>1, <2>3
      <3>2. ContentsOf(f)[i + 1] = ContentsOf(r)[(i + 1) + (k - 1)]
        BY <2>2, <3>1, Zenon
      <3> QED BY <2>4, <3>1, <3>2, Zenon
    <2> QED BY <2>1, <2>3, <2>4, <2>5, Zenon
  <1>5. \A k \in 0..take : Good(k)
    <2> HIDE DEF Good
    <2>1. \A k \in 0..take : k \in G
      <3> HIDE DEF G
      <3> QED BY <1>1, <1>3, <1>4, UpTo, Zenon
    <2> QED BY <2>1
  <1>6. ASSUME NEW i \in 1..take PROVE Peeked(F[i - 1]) = ContentsOf(r)[i]
    <2>1. i - 1 \in 0..take /\ 1 \in 1..(r.n - (i - 1)) /\ 1 + (i - 1) = i /\ r.n - (i - 1) # 0
      BY <1>1
    <2>2. /\ RingOK(F[i - 1]) /\ F[i - 1].n = r.n - (i - 1)
          /\ ContentsOf(F[i - 1])[1] = ContentsOf(r)[1 + (i - 1)]
      BY <1>5, <2>1, Zenon
    <2>3. Peeked(F[i - 1]) = ContentsOf(F[i - 1])[1]
      BY <2>1, <2>2, PopIs, Zenon
    <2> QED BY <2>1, <2>2, <2>3
  <1>7. take \in 0..take
    BY <1>1
  <1> QED BY <1>5, <1>6, <1>7, Zenon DEF F

--------------------------------------------------------------------------------
(* The refinement. *)

Divides == Wrap % Cap = 0

LEMMA RingInitOK ==
    RingInit => RingOK(ring) /\ Queue!Init
  <1> SUFFICES ASSUME RingInit PROVE RingOK(ring) /\ Queue!Init
    OBVIOUS
  <1>1. PICK r \in 0..(Wrap - 1), zero \in Bytes :
           ring = [data |-> [i \in Cells |-> zero], rd |-> r, wr |-> r, n |-> 0]
    BY Zenon DEF RingInit
  <1>2. RingOK(ring)
    <2>1. (r + 0) % Wrap = r /\ 0 \in 0..Cap
      <3>1. r \in Nat /\ 0 \in Nat /\ r = 0 * Wrap + r /\ r + 0 = r /\ 0 \in 0..Cap
        BY Sizes
      <3>2. r % Wrap = r
        BY <3>1, Sizes, RestIs, Zenon
      <3> QED BY <3>1, <3>2
    <2> QED BY <1>1, <2>1 DEF RingOK
  <1>3. Contents = <<>>
    BY <1>1 DEF Contents
  <1> QED BY <1>2, <1>3 DEF RingInit, Queue!Init

LEMMA OneByte ==
    ASSUME NEW v
    PROVE  SubSeq(<<v>>, 1, 1) = <<v>>
  <1> DEFINE s == SubSeq(<<v>>, 1, 1)
  <1>1. <<v>> \in Seq({v}) /\ Len(<<v>>) = 1
    OBVIOUS
  <1>2. s \in Seq({v}) /\ Len(s) = 1
    BY <1>1
  <1> HIDE DEF s
  <1>3. \A i \in 1..Len(s) : s[i] = <<v>>[i]
    BY <1>2
  <1> QED BY <1>1, <1>2, <1>3, SameElements, Zenon DEF s

LEMMA PushStep ==
    ASSUME Divides, RingOK(ring), NEW v \in Bytes, Push(v)
    PROVE  RingOK(ring)' /\ Queue!Write(<<v>>)
  <1>1. ring' = Pushed(ring, v) /\ wrote' = (IF Full(ring) THEN 0 ELSE 1) /\ got' = <<>>
    BY DEF Push
  <1>2. /\ RingOK(ring')
        /\ Full(ring) => ring' = ring /\ ring.n = Cap
        /\ ~Full(ring) => ContentsOf(ring') = Append(ContentsOf(ring), v)
    BY <1>1, PushIs, Zenon DEF Divides
  <1>3. /\ ContentsOf(ring) \in Seq(Bytes) /\ Len(ContentsOf(ring)) = ring.n
        /\ Cap \in Nat /\ ring.n \in 0..Cap
    BY ContentsSeq, Sizes, Zenon DEF RingOK
  <1>4. Contents = ContentsOf(ring) /\ Contents' = ContentsOf(ring')
    BY DEF Contents, ContentsOf
  <1>5. wrote' = Queue!Least(Len(<<v>>), Cap - Len(Contents))
    BY <1>1, <1>3, <1>4 DEF Full, Queue!Least
  <1>6. Contents' = Contents \o SubSeq(<<v>>, 1, wrote')
    <2>1. CASE Full(ring)
      <3>1. wrote' = 0 /\ Contents' = Contents
        BY <1>1, <1>2, <1>4, <2>1
      <3>2. Contents \in Seq(Bytes) /\ SubSeq(<<v>>, 1, 0) = <<>>
        BY <1>3, <1>4
      <3>3. Contents \o <<>> = Contents
        BY <3>2
      <3> QED BY <3>1, <3>2, <3>3, Zenon
    <2>2. CASE ~Full(ring)
      <3>1. wrote' = 1 /\ Contents' = Append(Contents, v)
        BY <1>1, <1>2, <1>4, <2>2
      <3>2. SubSeq(<<v>>, 1, 1) = <<v>>
        BY OneByte, Zenon
      <3>3. Contents \o <<v>> = Append(Contents, v)
        <4>1. Contents \in Seq(Bytes)
          BY <1>3, <1>4
        <4> QED BY <4>1
      <3> QED BY <3>1, <3>2, <3>3, Zenon
    <2> QED BY <2>1, <2>2, Zenon
  <1> QED BY <1>1, <1>2, <1>5, <1>6, Zenon DEF Queue!Write

LEMMA FillStep ==
    ASSUME Divides, RingOK(ring), NEW src \in Batches, FillFrom(src)
    PROVE  RingOK(ring)' /\ Queue!Write(src)
  <1> DEFINE m == IF Len(src) < Cap - ring.n THEN Len(src) ELSE Cap - ring.n
  <1>1. ring' = Filled(ring, src) /\ wrote' = ring'.n - ring.n /\ got' = <<>>
    BY DEF FillFrom
  <1>2. src \in Seq(Bytes)
    BY CircBufAssumption
  <1>3. /\ RingOK(ring') /\ ring'.n = ring.n + m
        /\ ContentsOf(ring') = ContentsOf(ring) \o SubSeq(src, 1, m)
    BY <1>1, <1>2, FillIs, Zenon DEF Divides
  <1>4. /\ Len(ContentsOf(ring)) = ring.n /\ Cap \in Nat /\ ring.n \in 0..Cap
        /\ Len(src) \in Nat
    <2>1. Len(ContentsOf(ring)) = ring.n
      BY ContentsSeq, Zenon
    <2>2. Cap \in Nat /\ ring.n \in 0..Cap
      BY Sizes DEF RingOK
    <2> QED BY <1>2, <2>1, <2>2
  <1>5. Contents = ContentsOf(ring) /\ Contents' = ContentsOf(ring')
    BY DEF Contents, ContentsOf
  <1>6. wrote' = m
    BY <1>1, <1>3, <1>4
  <1>7. m = Queue!Least(Len(src), Cap - Len(Contents))
    BY <1>4, <1>5 DEF Queue!Least
  <1> HIDE DEF m
  <1> QED BY <1>1, <1>3, <1>5, <1>6, <1>7, Zenon DEF Queue!Write

\* What reading the first take bytes leaves, element by element.
LEMMA SplitAt ==
    ASSUME NEW S, NEW c \in Seq(S), NEW take \in 0..Len(c)
    PROVE  /\ [i \in 1..take |-> c[i]] = SubSeq(c, 1, take)
           /\ Len(SubSeq(c, 1, take)) = take
  OBVIOUS

LEMMA Dropped ==
    ASSUME NEW S, NEW c \in Seq(S), NEW d \in Seq(S), NEW take \in 0..Len(c),
           Len(d) = Len(c) - take, \A i \in 1..(Len(c) - take) : d[i] = c[i + take]
    PROVE  d = SubSeq(c, take + 1, Len(c))
  <1> DEFINE e == SubSeq(c, take + 1, Len(c))
  <1>1. /\ e \in Seq(S) /\ Len(e) = Len(c) - take
        /\ \A i \in 1..(Len(c) - take) : e[i] = c[i + take]
    OBVIOUS
  <1> HIDE DEF e
  <1>2. \A i \in 1..Len(d) : d[i] = e[i]
    BY <1>1
  <1> QED BY <1>1, <1>2, SameElements DEF e

LEMMA DrainStep ==
    ASSUME RingOK(ring), NEW take \in 0..ring.n, NEW max \in Nat,
           take = IF max < ring.n THEN max ELSE ring.n,
           ring' = Drains(ring, take)[take],
           got' = [i \in 1..take |-> Peeked(Drains(ring, take)[i - 1])], wrote' = 0
    PROVE  RingOK(ring)' /\ Queue!Read(max)
  <1> DEFINE c == ContentsOf(ring)
             d == ContentsOf(ring')
  <1>1. /\ RingOK(ring') /\ ring'.n = ring.n - take
        /\ \A i \in 1..take : Peeked(Drains(ring, take)[i - 1]) = c[i]
        /\ \A i \in 1..(ring.n - take) : d[i] = c[i + take]
    <2> DEFINE seen == Drains(ring, take)
    <2>1. /\ RingOK(seen[take]) /\ seen[take].n = ring.n - take
          /\ \A i \in 1..take : Peeked(seen[i - 1]) = ContentsOf(ring)[i]
          /\ \A i \in 1..(ring.n - take) :
                ContentsOf(seen[take])[i] = ContentsOf(ring)[i + take]
      BY DrainIs, Zenon
    <2>2. ring' = seen[take]
      OBVIOUS
    <2> HIDE DEF seen
    <2> QED BY <2>1, <2>2, Zenon DEF seen
  <1>2. c \in Seq(Bytes) /\ Len(c) = ring.n
    BY ContentsSeq, Zenon
  <1>3. d \in Seq(Bytes) /\ Len(d) = ring.n - take
    BY <1>1, ContentsSeq, Zenon
  <1>4. Contents = c /\ Contents' = d
    BY DEF Contents, ContentsOf
  <1> HIDE DEF c, d
  <1>5. got' = [i \in 1..take |-> c[i]]
    BY <1>1, Zenon
  <1>6. /\ got' = SubSeq(c, 1, take)
        /\ d = SubSeq(c, Len(got') + 1, Len(c))
    <2>1. /\ take \in 0..Len(c) /\ Len(d) = Len(c) - take
          /\ \A i \in 1..(Len(c) - take) : d[i] = c[i + take]
      BY <1>1, <1>2, <1>3, Zenon
    <2>2. d = SubSeq(c, take + 1, Len(c))
      BY <1>2, <1>3, <2>1, Dropped, Zenon
    <2>3. got' = SubSeq(c, 1, take) /\ Len(got') = take
      <3>1. /\ [i \in 1..take |-> c[i]] = SubSeq(c, 1, take)
            /\ Len(SubSeq(c, 1, take)) = take
        BY <1>2, <2>1, SplitAt, Zenon
      <3> QED BY <1>5, <3>1, Zenon
    <2> QED BY <2>2, <2>3, Zenon
  <1>7. take = Queue!Least(max, Len(c))
    BY <1>2, Zenon DEF Queue!Least
  <1> QED BY <1>1, <1>4, <1>6, <1>7, Zenon DEF Queue!Read

LEMMA DrainToStep ==
    ASSUME RingOK(ring), NEW max \in 0..MaxDrain, DrainTo(max)
    PROVE  RingOK(ring)' /\ Queue!Read(max)
  <1> DEFINE take == IF max < ring.n THEN max ELSE ring.n
  <1>1. max \in Nat /\ take \in 0..ring.n
    BY CircBufAssumption DEF RingOK
  <1>2. /\ ring' = Drains(ring, take)[take] /\ wrote' = 0
        /\ got' = [i \in 1..take |-> Peeked(Drains(ring, take)[i - 1])]
    BY Zenon DEF DrainTo
  <1>3. take = IF max < ring.n THEN max ELSE ring.n
    OBVIOUS
  <1> HIDE DEF take
  <1> QED BY <1>1, <1>2, <1>3, DrainStep, Zenon

\* pop is a read of one byte: what drain_to(1) does.
LEMMA PopStep ==
    ASSUME RingOK(ring), Pop
    PROVE  RingOK(ring)' /\ Queue!Read(1)
  <1> DEFINE take == IF 1 < ring.n THEN 1 ELSE ring.n
             seen == Drains(ring, take)
  <1>1. ring.n \in Nat /\ take \in 0..ring.n /\ take \in Nat /\ 1 \in Nat
    BY Sizes DEF RingOK
  <1>2. \A k \in 0..take : seen[k] = IF k = 0 THEN ring ELSE Popped(seen[k - 1])
    <2>1. Pops(ring, seen, take)
      BY <1>1, PopsExist, Zenon
    <2> HIDE DEF seen
    <2> QED BY <2>1, Zenon DEF Pops
  <1>3. take = IF 1 < ring.n THEN 1 ELSE ring.n
    OBVIOUS
  <1>4. take = IF ring.n = 0 THEN 0 ELSE 1
    BY <1>1
  <1> HIDE DEF take, seen
  <1>5. ring' = seen[take] /\ got' = [i \in 1..take |-> Peeked(seen[i - 1])]
    <2>1. CASE ring.n = 0
      <3>1. take = 0 /\ got' = <<>> /\ ring' = ring
        BY <1>4, <2>1 DEF Pop
      <3>2. seen[0] = ring
        BY <1>2, <3>1
      <3> QED BY <3>1, <3>2
    <2>2. CASE ring.n # 0
      <3>1. take = 1 /\ got' = <<Peeked(ring)>> /\ ring' = Popped(ring)
        BY <1>4, <2>2 DEF Pop
      <3>2. seen[0] = ring /\ seen[1] = Popped(ring)
        <4>1. 0 \in 0..1 /\ 1 \in 0..1 /\ 1 - 1 = 0 /\ 1 # 0
          OBVIOUS
        <4> QED BY <1>2, <3>1, <4>1, Zenon
      <3>3. [i \in 1..1 |-> Peeked(seen[i - 1])] = <<Peeked(seen[0])>>
        OBVIOUS
      <3> QED BY <3>1, <3>2, <3>3, Zenon
    <2> QED BY <2>1, <2>2
  <1>6. wrote' = 0
    BY DEF Pop
  <1> QED BY <1>1, <1>3, <1>5, <1>6, DrainStep, Zenon DEF seen

LEMMA RingStep ==
    ASSUME Divides, RingOK(ring), [RingNext]_ringVars
    PROVE  RingOK(ring)' /\ [Queue!Next]_<<Contents, wrote, got>>
  <1>1. ASSUME NEW v \in Bytes, Push(v) PROVE RingOK(ring)' /\ Queue!Next
    BY <1>1, PushStep, Zenon DEF Queue!Next
  <1>2. ASSUME Pop PROVE RingOK(ring)' /\ Queue!Next
    BY <1>2, PopStep, Zenon DEF Queue!Next
  <1>3. ASSUME NEW src \in Batches, FillFrom(src) PROVE RingOK(ring)' /\ Queue!Next
    BY <1>3, FillStep, Zenon DEF Queue!Next
  <1>4. ASSUME NEW max \in 0..MaxDrain, DrainTo(max) PROVE RingOK(ring)' /\ Queue!Next
    BY <1>4, DrainToStep, Zenon DEF Queue!Next
  <1>5. ASSUME UNCHANGED ringVars PROVE RingOK(ring)' /\ UNCHANGED <<Contents, wrote, got>>
    BY <1>5 DEF ringVars, Contents, RingOK
  <1> QED BY <1>1, <1>2, <1>3, <1>4, <1>5, Zenon DEF RingNext

\* CircBuf of memory.rs is a bounded first-in first-out queue: whatever the
\* positions rd and wr have reached, and however often they have wrapped, push
\* and fill_from append the bytes that fit and pop and drain_to return the
\* oldest ones in their order.  The capacity has to divide the range of the
\* counters, which the powers of two in use do: otherwise the remainder modulo
\* cap jumps when a counter wraps.
THEOREM RingIsFifo == Wrap % Cap = 0 => (RingSpec => IsFifo)
  <1> SUFFICES ASSUME Divides PROVE RingSpec => IsFifo
    BY DEF Divides
  <1>1. RingInit => RingOK(ring) /\ Queue!Init
    BY RingInitOK
  <1>2. RingOK(ring) /\ [RingNext]_ringVars => RingOK(ring)' /\ [Queue!Next]_<<Contents, wrote, got>>
    BY RingStep
  <1> QED BY <1>1, <1>2, PTL DEF RingSpec, IsFifo, Queue!Spec
--------------------------------------------------------------------------------
(* The channel. *)

\* The inductive invariant: a sender is never at a label of recv, so what the
\* guard says of the receivers is not disturbed by Step on a sender.
ChannelInv ==
    /\ TypeOK
    /\ GuardExclusive
    /\ WakeAccounted
    /\ \A s \in Senders : pc[s] \in {"idle", "notify", "wakeAll"}

\* Facts about wq.

\* A receiver appended to wq is in it, and so is everyone who was.
LEMMA EnqueueKeeps ==
    ASSUME NEW S, NEW q \in Seq(S), NEW e \in S
    PROVE  /\ Append(q, e) \in Seq(S)
           /\ \E i \in 1..Len(Append(q, e)) : Append(q, e)[i] = e
           /\ \A i \in 1..Len(q) : \E j \in 1..Len(Append(q, e)) : Append(q, e)[j] = q[i]
  <1>1. /\ Append(q, e) \in Seq(S)
        /\ Len(Append(q, e)) = Len(q) + 1 /\ Len(q) \in Nat
        /\ \A i \in 1..Len(q) : Append(q, e)[i] = q[i]
        /\ Append(q, e)[Len(q) + 1] = e
    OBVIOUS
  <1> QED BY <1>1

\* Popping a non-empty wq takes out its head and nobody else.
LEMMA PopKeeps ==
    ASSUME NEW S, NEW q \in Seq(S), q # <<>>
    PROVE  /\ Head(q) \in S
           /\ Tail(q) \in Seq(S)
           /\ \A i \in 1..Len(q) :
                  q[i] = Head(q) \/ \E j \in 1..Len(Tail(q)) : Tail(q)[j] = q[i]
  <1>1. /\ Head(q) \in S /\ Head(q) = q[1]
        /\ Tail(q) \in Seq(S)
        /\ Len(Tail(q)) = Len(q) - 1 /\ Len(q) \in Nat
        /\ \A i \in 1..(Len(q) - 1) : Tail(q)[i] = q[i + 1]
    OBVIOUS
  <1>2. ASSUME NEW i \in 1..Len(q), i # 1
        PROVE  \E j \in 1..Len(Tail(q)) : Tail(q)[j] = q[i]
    <2>1. i - 1 \in 1..Len(Tail(q)) /\ Tail(q)[i - 1] = q[i]
      BY <1>1, <1>2
    <2> QED BY <2>1
  <1> QED BY <1>1, <1>2

LEMMA NobodyQueued == \A S : <<>> \in Seq(S)
  OBVIOUS

LEMMA CapNat == BufCap \in Nat
  BY ChannelAssumption

\* Filling the ring stops at its capacity.
LEMMA RoomBounded ==
    ASSUME n \in 0..BufCap, NEW k \in 1..MaxBatch
    PROVE  Room(k) \in Nat /\ n + Room(k) \in 0..BufCap
  BY ChannelAssumption DEF Room

--------------------------------------------------------------------------------
(* ChannelInv is inductive. *)

LEMMA InitInv == Init => ChannelInv
  <1> SUFFICES ASSUME Init PROVE ChannelInv
    OBVIOUS
  <1>0. wq \in Seq(Receivers)
    BY NobodyQueued DEF Init
  <1>1. n \in 0..BufCap
    <2>1. n = 0
      BY DEF Init
    <2> QED BY <2>1, CapNat
  <1>2. token \in [Receivers -> BOOLEAN]
    BY Zenon DEF Init
  <1>3. TypeOK
    BY <1>0, <1>1, <1>2 DEF Init, TypeOK, Guarded
  <1> QED BY <1>3 DEF Init, ChannelInv, GuardExclusive, WakeAccounted, Guarded, Threads

\* The fields stay typed.
LEMMA TypeStep == ChannelInv /\ [Next]_vars => TypeOK'
  <1> SUFFICES ASSUME TypeOK, [Next]_vars PROVE TypeOK'
    BY DEF ChannelInv
  <1> USE DEF Guarded, Threads, Step
  <1>1. ASSUME NEW r \in Receivers, Recv(r) \/ Lock(r) \/ TryRecv(r) PROVE TypeOK'
    BY <1>1 DEF TypeOK, Recv, Lock, TryRecv
  <1>2. ASSUME NEW r \in Receivers, FirstPop(r) \/ FinalPop(r) \/ DrainAll(r) PROVE TypeOK'
    <2>1. n' = n \/ (n > 0 /\ n' = n - 1) \/ n' = 0
      BY <1>2 DEF FirstPop, FinalPop, DrainAll
    <2>2. n \in 0..BufCap
      BY DEF TypeOK
    <2>3. n' \in 0..BufCap
      BY <2>1, <2>2, CapNat
    <2> QED BY <1>2, <2>3 DEF TypeOK, FirstPop, FinalPop, DrainAll
  <1>3. ASSUME NEW r \in Receivers, CheckShut(r) \/ LookAgain(r) PROVE TypeOK'
    BY <1>3 DEF TypeOK, CheckShut, LookAgain
  <1>4. ASSUME NEW r \in Receivers, Enqueue(r) PROVE TypeOK'
    BY <1>4, EnqueueKeeps DEF TypeOK, Enqueue
  <1>5. ASSUME NEW r \in Receivers, ReleaseAndPark(r) \/ Wake(r) \/ Unlock(r) PROVE TypeOK'
    BY <1>5 DEF TypeOK, ReleaseAndPark, Wake, Unlock
  <1>6. ASSUME NEW s \in Senders, NEW k \in 1..MaxBatch, Send(s, k) PROVE TypeOK'
    BY <1>6, RoomBounded DEF TypeOK, Send
  <1>7. ASSUME NEW s \in Senders, Notify(s) PROVE TypeOK'
    <2>1. wq' \in Seq(Receivers)
      <3>1. wq' = wq \/ (wq # <<>> /\ wq' = Tail(wq))
        BY <1>7 DEF Notify
      <3>2. wq \in Seq(Receivers)
        BY DEF TypeOK
      <3> QED BY <3>1, <3>2, PopKeeps
    <2>2. token' \in [Receivers -> BOOLEAN]
      BY <1>7 DEF TypeOK, Notify
    <2> QED BY <1>7, <2>1, <2>2 DEF TypeOK, Notify
  <1>8. ASSUME NEW s \in Senders, Close(s) \/ WakeAll(s) PROVE TypeOK'
    <2>1. wq' \in Seq(Receivers)
      <3>1. CASE Close(s)
        BY <3>1, Zenon DEF TypeOK, Close
      <3>2. CASE WakeAll(s)
        BY <3>2, NobodyQueued, Zenon DEF WakeAll
      <3> QED BY <1>8, <3>1, <3>2
    <2>2. token' \in [Receivers -> BOOLEAN]
      BY <1>8, Zenon DEF TypeOK, Close, WakeAll
    <2> QED BY <1>8, <2>1, <2>2 DEF TypeOK, Close, WakeAll
  <1>9. CASE UNCHANGED vars
    BY <1>9 DEF TypeOK, vars
  <1> QED BY <1>1, <1>2, <1>3, <1>4, <1>5, <1>6, <1>7, <1>8, <1>9 DEF Next, RecvStep, SendStep

\* The guard goes up with the receiver that takes it and down with the same one.
LEMMA GuardStep ==
    ChannelInv /\ [Next]_vars =>
        GuardExclusive' /\ \A s \in Senders : pc'[s] \in {"idle", "notify", "wakeAll"}
  <1> DEFINE SendersOutside == \A s \in Senders : pc[s] \in {"idle", "notify", "wakeAll"}
  <1> SUFFICES ASSUME TypeOK, GuardExclusive, SendersOutside, [Next]_vars
               PROVE  GuardExclusive' /\ SendersOutside'
    BY DEF ChannelInv
  <1>0. pc \in [Threads -> Guarded \cup {"idle", "lock", "relock", "parked", "notify", "wakeAll"}]
    BY DEF TypeOK
  <1> USE <1>0, ChannelAssumption DEF GuardExclusive, Guarded, Threads, Step
  <1>1. ASSUME NEW r \in Receivers, Recv(r) PROVE GuardExclusive' /\ SendersOutside'
    BY <1>1 DEF Recv
  <1>2. ASSUME NEW r \in Receivers, Lock(r) PROVE GuardExclusive' /\ SendersOutside'
    BY <1>2 DEF Lock, GuardFree
  <1>3. ASSUME NEW r \in Receivers, TryRecv(r) PROVE GuardExclusive' /\ SendersOutside'
    BY <1>3 DEF TryRecv
  <1>4. ASSUME NEW r \in Receivers, FirstPop(r) PROVE GuardExclusive' /\ SendersOutside'
    BY <1>4 DEF FirstPop
  <1>5. ASSUME NEW r \in Receivers, FinalPop(r) PROVE GuardExclusive' /\ SendersOutside'
    BY <1>5 DEF FinalPop
  <1>6. ASSUME NEW r \in Receivers, CheckShut(r) \/ LookAgain(r) \/ Enqueue(r)
        PROVE  GuardExclusive' /\ SendersOutside'
    BY <1>6 DEF CheckShut, LookAgain, Enqueue
  <1>7. ASSUME NEW r \in Receivers, ReleaseAndPark(r) \/ Unlock(r)
        PROVE  GuardExclusive' /\ SendersOutside'
    BY <1>7 DEF ReleaseAndPark, Unlock
  <1>8. ASSUME NEW r \in Receivers, Wake(r) \/ DrainAll(r)
        PROVE  GuardExclusive' /\ SendersOutside'
    BY <1>8 DEF Wake, DrainAll
  <1>9. ASSUME NEW s \in Senders,
               (\E k \in 1..MaxBatch : Send(s, k)) \/ Notify(s) \/ Close(s) \/ WakeAll(s)
        PROVE  GuardExclusive' /\ SendersOutside'
    BY <1>9 DEF Send, Notify, Close, WakeAll
  <1>10. CASE UNCHANGED vars
    BY <1>10 DEF vars
  <1> QED BY <1>1, <1>2, <1>3, <1>4, <1>5, <1>6, <1>7, <1>8, <1>9, <1>10
          DEF Next, RecvStep, SendStep

\* Whoever leaves wq gets a token, and only the owner of a token takes it.
LEMMA WakeStep == ChannelInv /\ [Next]_vars => WakeAccounted'
  <1> SUFFICES ASSUME TypeOK, WakeAccounted, [Next]_vars,
                      NEW u \in Receivers, pc'[u] \in {"release", "parked"}
               PROVE  token'[u] \/ \E i \in 1..Len(wq') : wq'[i] = u
    BY DEF ChannelInv, WakeAccounted
  <1> DEFINE Kept == token'[u] \/ \E i \in 1..Len(wq') : wq'[i] = u
  <1>0. /\ pc \in [Threads -> Guarded \cup {"idle", "lock", "relock", "parked", "notify", "wakeAll"}]
        /\ wq \in Seq(Receivers) /\ token \in [Receivers -> BOOLEAN]
    BY DEF TypeOK
  <1>1. pc[u] \in {"release", "parked"} => token[u] \/ \E i \in 1..Len(wq) : wq[i] = u
    BY DEF WakeAccounted
  <1> USE <1>0, <1>1, ChannelAssumption DEF Threads, Step
  <1>2. ASSUME NEW r \in Receivers, Enqueue(r) PROVE Kept
    <2>1. wq' = Append(wq, r) /\ token' = token
      BY <1>2 DEF Enqueue
    <2>2. u = r \/ pc[u] \in {"release", "parked"}
      BY <1>2 DEF Enqueue
    <2> QED BY <2>1, <2>2, EnqueueKeeps
  <1>3. ASSUME NEW r \in Receivers, ReleaseAndPark(r) PROVE Kept
    BY <1>3 DEF ReleaseAndPark
  <1>4. ASSUME NEW r \in Receivers, Wake(r) PROVE Kept
    BY <1>4 DEF Wake
  <1>5. ASSUME NEW s \in Senders, Notify(s) PROVE Kept
    <2>1. pc[u] \in {"release", "parked"}
      BY <1>5 DEF Notify
    <2>2. CASE wq = <<>>
      BY <1>5, <2>1, <2>2 DEF Notify
    <2>3. CASE wq # <<>>
      <3>1. wq' = Tail(wq) /\ token' = [token EXCEPT ![Head(wq)] = TRUE]
        BY <1>5, <2>3 DEF Notify
      <3>2. u = Head(wq) => token'[u]
        BY <3>1
      <3>3. token[u] => token'[u]
        BY <3>1
      <3> QED BY <2>1, <2>3, <3>1, <3>2, <3>3, PopKeeps
    <2> QED BY <2>2, <2>3
  <1>6. ASSUME NEW s \in Senders, WakeAll(s) PROVE Kept
    <2>1. pc[u] \in {"release", "parked"}
      BY <1>6 DEF WakeAll
    <2>2. token'[u] = (token[u] \/ \E i \in 1..Len(wq) : wq[i] = u)
      BY <1>6 DEF WakeAll
    <2> QED BY <2>1, <2>2, Zenon
  <1>7. ASSUME NEW r \in Receivers,
               Recv(r) \/ Lock(r) \/ TryRecv(r) \/ FirstPop(r) \/ CheckShut(r)
                 \/ LookAgain(r) \/ FinalPop(r) \/ Unlock(r) \/ DrainAll(r)
        PROVE  Kept
    <2>1. wq' = wq /\ token' = token
      BY <1>7 DEF Recv, Lock, TryRecv, FirstPop, CheckShut, LookAgain, FinalPop, Unlock, DrainAll
    <2>2. pc[u] \in {"release", "parked"}
      BY <1>7 DEF Recv, Lock, TryRecv, FirstPop, CheckShut, LookAgain, FinalPop, Unlock, DrainAll
    <2> QED BY <2>1, <2>2
  <1>8. ASSUME NEW s \in Senders, (\E k \in 1..MaxBatch : Send(s, k)) \/ Close(s) PROVE Kept
    BY <1>8 DEF Send, Close
  <1>9. CASE UNCHANGED vars
    BY <1>9 DEF vars
  <1> HIDE DEF Kept
  <1> QED BY <1>2, <1>3, <1>4, <1>5, <1>6, <1>7, <1>8, <1>9, Zenon DEF Next, RecvStep, SendStep, Kept

LEMMA InvHolds == Spec => []ChannelInv
  <1>1. ChannelInv /\ [Next]_vars => ChannelInv'
    BY TypeStep, GuardStep, WakeStep DEF ChannelInv
  <1> QED BY InitInv, <1>1, PTL DEF Spec

--------------------------------------------------------------------------------

\* send and send_batch never fill the ring past its capacity, recv, try_recv
\* and drain_all never take a byte that is not there, and every field keeps its
\* type, for any ring and any threads.
THEOREM TypeCorrect == Spec => []TypeOK
  <1>1. ChannelInv => TypeOK
    BY DEF ChannelInv
  <1> QED BY InvHolds, <1>1, PTL

\* recv and try_recv: at most one receiver is between taking guard.v and giving
\* it back, and the flag is up exactly while there is one.
THEOREM OneReceiver == Spec => []GuardExclusive
  <1>1. ChannelInv => GuardExclusive
    BY DEF ChannelInv
  <1> QED BY InvHolds, <1>1, PTL

\* A receiver that recv parks, or is about to, is in wq or has its token: no
\* interleaving of send, close and spurious returns of park loses it.
THEOREM NoReceiverLost == Spec => []WakeAccounted
  <1>1. ChannelInv => WakeAccounted
    BY DEF ChannelInv
  <1> QED BY InvHolds, <1>1, PTL
================================================================================
