------------------------- MODULE IPPoolImportProofs -------------------------
(***************************************************************************)
(* What holds of IPPoolImport for every value of its constants: what the   *)
(* walk over the addresses of a prefix returns, the types of the           *)
(* variables, what a pool excludes, and that a Ready import is complete.   *)
(***************************************************************************)
EXTENDS IPPoolImport, VersionSequences, FiniteSetTheorems, WellFoundedInduction

-----------------------------------------------------------------------------
(***************************************************************************)
(* Powers of two, by the least number for which a claim would fail.        *)
(***************************************************************************)
LEMMA Least ==
    ASSUME NEW S, S \subseteq Nat, S # {}
    PROVE  \E m \in S : \A k \in S : ~(k < m)
  <1>1. \E m \in S : \A k \in S : <<k, m>> \notin OpToRel(<, Nat)
    BY NatLessThanWellFounded, WFMin
  <1> QED
    BY <1>1 DEF OpToRel

\* What is true of 0, and of i + 1 if of i, is true up to n.
LEMMA Induction ==
    ASSUME NEW n \in Nat, NEW T \in SUBSET (0..n),
           0 \in T, \A i \in 0..n - 1 : i \in T => i + 1 \in T
    PROVE  T = 0..n
  <1> SUFFICES ASSUME T # 0..n PROVE FALSE
    OBVIOUS
  <1> DEFINE S == (0..n) \ T
  <1>1. S \subseteq Nat /\ S # {}
    <2>1. \E x \in 0..n : x \notin T
      OBVIOUS
    <2> QED
      BY <2>1
  <1>2. PICK m \in S : \A k \in S : ~(k < m)
    BY <1>1, Least
  <1>3. m \in 0..n /\ m # 0 /\ m \notin T
    OBVIOUS
  <1>4. m - 1 \in 0..n - 1 /\ m - 1 < m /\ m - 1 \in 0..n
    BY <1>3
  <1>5. m - 1 \in T
    BY <1>2, <1>4
  <1>6. (m - 1) + 1 \in T
    BY <1>4, <1>5
  <1> QED
    BY <1>3, <1>6

\* TwoTo is well defined: a solution of its equation up to k can be continued.
TwoToUpto(f, k) == f = [n \in 0..k |-> IF n = 0 THEN 1 ELSE 2 * f[n - 1]]

LEMMA TwoToExists == \E f : TwoToUpto(f, Width)
  <1> DEFINE T == {k \in 0..Width : \E f : TwoToUpto(f, k)}
  <1>1. 0 \in T
    <2>1. TwoToUpto([n \in 0..0 |-> 1], 0)
      BY DEF TwoToUpto
    <2>2. 0 \in 0..Width
      BY WidthAssumption
    <2> QED
      BY <2>1, <2>2
  <1>2. ASSUME NEW i \in 0..Width - 1, i \in T
        PROVE  i + 1 \in T
    <2>1. PICK f : TwoToUpto(f, i)
      BY <1>2
    <2> DEFINE g == [n \in 0..(i + 1) |-> IF n = i + 1 THEN 2 * f[i] ELSE f[n]]
    <2>2. i + 1 \in 0..Width /\ i \in 0..i /\ i + 1 # 0
      BY WidthAssumption
    <2>3. ASSUME NEW n \in 0..(i + 1)
          PROVE  g[n] = IF n = 0 THEN 1 ELSE 2 * g[n - 1]
      <3>1. CASE n = i + 1
        BY <2>2, <3>1
      <3>2. CASE n # i + 1
        <4>1. n \in 0..i /\ (n # 0 => n - 1 \in 0..i)
          BY <3>2
        <4> QED
          BY <2>1, <3>2, <4>1 DEF TwoToUpto
      <3> QED
        BY <3>1, <3>2
    <2>4. TwoToUpto(g, i + 1)
      BY <2>3 DEF TwoToUpto
    <2> HIDE DEF g
    <2> QED
      BY <2>2, <2>4
  <1>3. T = 0..Width
    <2> HIDE DEF T
    <2>1. T \in SUBSET (0..Width)
      BY DEF T
    <2> QED
      BY <1>1, <1>2, <2>1, WidthAssumption, Induction
  <1> QED
    BY <1>3, WidthAssumption

LEMMA TwoToDef ==
    /\ TwoTo[0] = 1
    /\ \A n \in 0..Width - 1 : TwoTo[n + 1] = 2 * TwoTo[n]
  <1>1. TwoTo = [n \in 0..Width |-> IF n = 0 THEN 1 ELSE 2 * TwoTo[n - 1]]
    BY TwoToExists DEF TwoTo, TwoToUpto
  <1>2. 0 \in 0..Width /\ \A n \in 0..Width - 1 : n + 1 \in 0..Width /\ n + 1 # 0 /\ (n + 1) - 1 = n
    BY WidthAssumption
  <1> QED
    BY <1>1, <1>2

LEMMA TwoToType == \A n \in 0..Width : TwoTo[n] \in Nat \ {0}
  <1> DEFINE T == {n \in 0..Width : TwoTo[n] \in Nat \ {0}}
  <1>1. 0 \in T
    BY TwoToDef, WidthAssumption
  <1>2. \A i \in 0..Width - 1 : i \in T => i + 1 \in T
    BY TwoToDef, WidthAssumption
  <1>3. T \in SUBSET (0..Width)
    OBVIOUS
  <1> HIDE DEF T
  <1>4. T = 0..Width
    BY <1>1, <1>2, <1>3, WidthAssumption, Induction
  <1> QED
    BY <1>4 DEF T

\* Splitting the bits splits the number of addresses.
LEMMA TwoToSum ==
    ASSUME NEW a \in 0..Width
    PROVE  TwoTo[Width] = TwoTo[Width - a] * TwoTo[a]
  <1> DEFINE T == {i \in 0..Width : TwoTo[Width] = TwoTo[Width - i] * TwoTo[i]}
  <1>1. 0 \in T
    BY TwoToDef, TwoToType, WidthAssumption
  <1>2. ASSUME NEW i \in 0..Width - 1, i \in T
        PROVE  i + 1 \in T
    <2> DEFINE r == TwoTo[Width - (i + 1)]
               t == TwoTo[i]
    <2>1. /\ i + 1 \in 0..Width /\ Width - (i + 1) \in 0..Width - 1
          /\ (Width - (i + 1)) + 1 = Width - i
      BY WidthAssumption
    <2>2. TwoTo[Width - i] = 2 * r /\ TwoTo[i + 1] = 2 * t
      BY <2>1, TwoToDef
    <2>3. r \in Nat /\ t \in Nat
      BY <2>1, TwoToType, WidthAssumption
    <2>4. (2 * r) * t = r * (2 * t)
      BY <2>3
    <2>5. TwoTo[Width] = (2 * r) * t
      BY <1>2, <2>2
    <2> QED
      BY <2>1, <2>2, <2>4, <2>5
  <1>3. T \in SUBSET (0..Width)
    OBVIOUS
  <1> HIDE DEF T
  <1>4. T = 0..Width
    BY <1>1, <1>2, <1>3, WidthAssumption, Induction
  <1> QED
    BY <1>4 DEF T

-----------------------------------------------------------------------------
(***************************************************************************)
(* The addresses of a prefix.                                              *)
(***************************************************************************)
LEMMA DivUnique ==
    ASSUME NEW b \in Nat, NEW s \in Nat \ {0}, NEW q \in Nat, s * q \leq b, b < s * q + s
    PROVE  b \div s = q
  OBVIOUS

LEMMA DivIs ==
    ASSUME NEW b \in Nat, NEW s \in Nat \ {0}
    PROVE  /\ b \div s \in Nat /\ s * (b \div s) \in Nat
           /\ s * (b \div s) \leq b /\ b < s * (b \div s) + s
           /\ b - (b % s) = s * (b \div s)
  OBVIOUS

LEMMA DivOnes ==
    ASSUME NEW t \in Nat \ {0}, NEW s \in Nat \ {0}
    PROVE  (s * t - 1) \div t = s - 1
  <1>1. s * t - 1 \in Nat /\ s - 1 \in Nat
    <2>1. s * t \geq 1
      OBVIOUS
    <2> QED
      BY <2>1
  <1>2. t * (s - 1) = s * t - t
    OBVIOUS
  <1>3. t * (s - 1) \leq s * t - 1 /\ s * t - 1 < t * (s - 1) + t
    BY <1>1, <1>2
  <1> QED
    BY <1>1, <1>3, DivUnique

LEMMA NextMultiple ==
    ASSUME NEW s \in Nat \ {0}, NEW q \in Nat, NEW t \in Nat, s * q < s * t
    PROVE  s * q + s \leq s * t
  <1>1. q < t
    OBVIOUS
  <1>2. t - q - 1 \in Nat /\ t = q + 1 + (t - q - 1)
    BY <1>1
  <1>3. PICK d \in Nat : t = q + 1 + d
    BY <1>2
  <1>4. s * t = s * q + s + s * d /\ s * d \geq 0
    BY <1>3
  <1> QED
    BY <1>4

Size(p) == TwoTo[Width - p.bits]
Base(p) == Size(p) * (p.addr \div Size(p))
Top(p) == Base(p) + Size(p) - 1

\* A prefix is an interval of addresses, its own address among them, and
\* lastAddrInPrefix finds its end.
LEMMA BlockInterval ==
    ASSUME NEW p \in CIDR
    PROVE  /\ Size(p) \in Nat \ {0} /\ Base(p) \in Nat /\ Top(p) \in Nat
           /\ Base(p) \leq p.addr /\ p.addr \leq Top(p) /\ Top(p) \in Addr
           /\ Block(p) = Base(p)..Top(p)
           /\ LastAddr(p) = Top(p)
  <1> DEFINE s == Size(p)
             t == TwoTo[p.bits]
             q == p.addr \div s
             N == TwoTo[Width]
  <1>1. p.bits \in 0..Width /\ Width - p.bits \in 0..Width /\ Width \in 0..Width /\ p.addr \in Addr
    BY WidthAssumption DEF CIDR
  <1>2. s \in Nat \ {0} /\ t \in Nat \ {0} /\ N \in Nat \ {0}
    BY <1>1, TwoToType DEF Size
  <1>3. N = s * t
    BY <1>1, TwoToSum DEF Size
  <1>4. p.addr \in Nat /\ p.addr < N
    BY <1>1, <1>2 DEF Addr
  <1>5. /\ q \in Nat /\ s * q \in Nat /\ s * q \leq p.addr /\ p.addr < s * q + s
        /\ p.addr - (p.addr % s) = s * q
    BY <1>2, <1>4, DivIs
  <1>6. Base(p) = s * q /\ Top(p) = s * q + s - 1
    BY DEF Base, Top
  <1> HIDE DEF s, t, q, N
  <1>7. s * q < s * t
    BY <1>2, <1>3, <1>4, <1>5
  <1>8. s * q + s \leq N
    BY <1>2, <1>3, <1>5, <1>7, NextMultiple
  <1>9. /\ Size(p) \in Nat \ {0} /\ Base(p) \in Nat /\ Top(p) \in Nat
        /\ Base(p) \leq p.addr /\ p.addr \leq Top(p) /\ Top(p) \in Addr
    <2>1. s * q + s - 1 \in 0..N - 1 /\ s * q + s - 1 \in Nat
      BY <1>2, <1>5, <1>8
    <2>2. Top(p) \in Addr
      BY <1>6, <2>1 DEF N, Addr
    <2>3. p.addr \leq s * q + s - 1
      BY <1>2, <1>4, <1>5
    <2>4. Size(p) = s
      BY DEF s
    <2> QED
      BY <1>2, <1>5, <1>6, <2>1, <2>2, <2>3, <2>4
  <1>10. Block(p) = {a \in Addr : a \div s = q}
    BY DEF Block, Size, s, q
  <1>11. ASSUME NEW a \in Addr
         PROVE  a \div s = q <=> a \in (s * q)..(s * q + s - 1)
    <2>1. a \in Nat
      BY <1>2 DEF Addr, N
    <2>2. a \div s \in Nat /\ s * (a \div s) \leq a /\ a < s * (a \div s) + s
      BY <1>2, <2>1, DivIs
    <2>3. s * q \leq a /\ a < s * q + s => a \div s = q
      BY <1>2, <1>5, <2>1, DivUnique
    <2> QED
      BY <1>2, <1>5, <2>1, <2>2, <2>3
  <1>12. (s * q)..(s * q + s - 1) \subseteq Addr
    BY <1>2, <1>5, <1>8 DEF Addr, N
  <1>13. LastAddr(p) = Top(p)
    <2>1. (N - 1) \div t = s - 1
      BY <1>2, <1>3, DivOnes
    <2>2. LastAddr(p) = (p.addr - (p.addr % s)) + (N - 1) \div t
      BY DEF LastAddr, Size, s, N, t
    <2> QED
      BY <1>2, <1>5, <1>6, <2>1, <2>2
  <1> QED
    BY <1>6, <1>9, <1>10, <1>11, <1>12, <1>13

\* A single address.
LEMMA BlockSingle ==
    ASSUME NEW a \in Addr
    PROVE  [addr |-> a, bits |-> Width] \in CIDR /\ Block([addr |-> a, bits |-> Width]) = {a}
  <1> DEFINE p == [addr |-> a, bits |-> Width]
  <1>1. p \in CIDR /\ p.addr = a /\ p.bits = Width
    BY WidthAssumption DEF CIDR
  <1> HIDE DEF p
  <1>2. Width - p.bits = 0
    BY <1>1, WidthAssumption
  <1>3. Size(p) = 1
    BY <1>2, TwoToDef DEF Size
  <1>4. /\ Base(p) \in Nat /\ Base(p) \leq a /\ a \leq Top(p) /\ Top(p) = Base(p)
        /\ Block(p) = Base(p)..Top(p)
    BY <1>1, <1>3, BlockInterval DEF Top
  <1>5. a \in Nat
    BY WidthAssumption, TwoToType DEF Addr
  <1> QED
    BY <1>1, <1>4, <1>5 DEF p

\* A longer mask leaves out a part of the prefix, never all of it.
LEMMA LongerMask ==
    ASSUME NEW p \in CIDR, NEW m \in 0..Width, p.bits < m
    PROVE  /\ [addr |-> p.addr, bits |-> m] \in CIDR
           /\ Block(p) \ Block([addr |-> p.addr, bits |-> m]) # {}
  <1> DEFINE e == [addr |-> p.addr, bits |-> m]
  <1>1. e \in CIDR /\ e.bits = m /\ e.addr = p.addr /\ p.bits \in 0..Width
    BY DEF CIDR
  <1> HIDE DEF e
  <1>2. Size(e) < Size(p)
    <2> DEFINE T == {i \in 0..(m - p.bits - 1) : TwoTo[Width - m] < TwoTo[Width - m + i + 1]}
               n == m - p.bits - 1
    <2>1. n \in Nat
      BY <1>1, WidthAssumption
    <2>2. 0 \in T
      BY <1>1, <2>1, TwoToDef, TwoToType, WidthAssumption
    <2>3. ASSUME NEW i \in 0..n - 1, i \in T PROVE i + 1 \in T
      <3>1. Width - m + i + 1 \in 0..Width - 1 /\ Width - m \in 0..Width
        BY <1>1, <2>1, WidthAssumption
      <3>2. TwoTo[(Width - m + i + 1) + 1] = 2 * TwoTo[Width - m + i + 1]
        BY <3>1, TwoToDef
      <3>3. TwoTo[Width - m + i + 1] \in Nat /\ TwoTo[Width - m] \in Nat
        BY <3>1, TwoToType, WidthAssumption
      <3> QED
        BY <2>1, <2>3, <3>1, <3>2, <3>3, WidthAssumption
    <2>4. T \in SUBSET (0..n)
      OBVIOUS
    <2> HIDE DEF T
    <2>5. T = 0..n
      BY <2>1, <2>2, <2>3, <2>4, Induction
    <2>6. TwoTo[Width - m] < TwoTo[Width - m + n + 1]
      BY <2>1, <2>5 DEF T
    <2>7. Width - m + n + 1 = Width - p.bits
      BY <1>1, WidthAssumption
    <2> QED
      BY <1>1, <2>6, <2>7 DEF Size
  <1>3. /\ Base(p) \in Nat /\ Top(p) \in Nat /\ Base(e) \in Nat /\ Top(e) \in Nat
        /\ Size(p) \in Nat /\ Size(e) \in Nat \ {0}
        /\ Top(p) = Base(p) + Size(p) - 1 /\ Top(e) = Base(e) + Size(e) - 1
        /\ Block(p) = Base(p)..Top(p) /\ Block(e) = Base(e)..Top(e)
    BY <1>1, BlockInterval DEF Top
  <1>4. Base(p) \notin Block(e) \/ Top(p) \notin Block(e)
    BY <1>2, <1>3
  <1>5. Base(p) \in Block(p) /\ Top(p) \in Block(p)
    BY <1>2, <1>3
  <1> QED
    BY <1>1, <1>4, <1>5 DEF e

-----------------------------------------------------------------------------
(***************************************************************************)
(* What getLastNIPs returns.                                               *)
(***************************************************************************)
LEMMA ConcatSet ==
    ASSUME NEW S, NEW s \in Seq(S), NEW t \in Seq(S)
    PROVE  s \o t \in Seq(S) /\ ToSet(s \o t) = ToSet(s) \cup ToSet(t)
  <1>1. /\ Len(s) \in Nat /\ Len(t) \in Nat /\ DOMAIN s = 1..Len(s) /\ DOMAIN t = 1..Len(t)
        /\ s \o t \in Seq(S) /\ Len(s \o t) = Len(s) + Len(t)
        /\ DOMAIN (s \o t) = 1..(Len(s) + Len(t))
        /\ \A i \in 1..(Len(s) + Len(t)) :
             (s \o t)[i] = IF i <= Len(s) THEN s[i] ELSE t[i - Len(s)]
    OBVIOUS
  <1>2. \A i \in DOMAIN (s \o t) : (s \o t)[i] \in ToSet(s) \cup ToSet(t)
    BY <1>1 DEF ToSet
  <1>3. \A i \in DOMAIN s : i \in DOMAIN (s \o t) /\ (s \o t)[i] = s[i]
    BY <1>1
  <1>4. \A i \in DOMAIN t : i + Len(s) \in DOMAIN (s \o t) /\ (s \o t)[i + Len(s)] = t[i]
    BY <1>1
  <1>5. ToSet(s \o t) \subseteq ToSet(s) \cup ToSet(t)
    BY <1>2 DEF ToSet
  <1>6. ToSet(s) \subseteq ToSet(s \o t)
    BY <1>3 DEF ToSet
  <1>7. ToSet(t) \subseteq ToSet(s \o t)
    BY <1>4 DEF ToSet
  <1> QED
    BY <1>1, <1>5, <1>6, <1>7

\* The walk of GetLastNIPs, up to step k.
WalkUpto(f, p, k) ==
    f = [i \in 0..k |->
          IF i = 0 THEN [ips |-> <<>>, current |-> LastAddr(p)]
          ELSE LET r == f[i - 1] IN
               IF r.current \notin Block(p) THEN r
               ELSE [ips |-> <<r.current>> \o r.ips, current |-> Prev(r.current)]]

LEMMA WalkExists ==
    ASSUME NEW p, NEW n \in Nat
    PROVE  \E f : WalkUpto(f, p, n)
  <1> DEFINE T == {k \in 0..n : \E f : WalkUpto(f, p, k)}
             Move(r) == IF r.current \notin Block(p) THEN r
                        ELSE [ips |-> <<r.current>> \o r.ips, current |-> Prev(r.current)]
  <1>1. 0 \in T
    <2>1. WalkUpto([i \in 0..0 |-> [ips |-> <<>>, current |-> LastAddr(p)]], p, 0)
      BY DEF WalkUpto
    <2> QED
      BY <2>1
  <1>2. ASSUME NEW k \in 0..n - 1, k \in T
        PROVE  k + 1 \in T
    <2>1. PICK f : WalkUpto(f, p, k)
      BY <1>2
    <2> DEFINE g == [i \in 0..(k + 1) |-> IF i = k + 1 THEN Move(f[k]) ELSE f[i]]
    <2>2. k + 1 \in 0..n /\ k \in 0..k /\ k + 1 # 0
      OBVIOUS
    <2> HIDE DEF Move
    <2>3. ASSUME NEW i \in 0..(k + 1)
          PROVE  g[i] = IF i = 0 THEN [ips |-> <<>>, current |-> LastAddr(p)]
                        ELSE Move(g[i - 1])
      <3>1. CASE i = k + 1
        BY <2>2, <3>1
      <3>2. CASE i # k + 1
        <4>1. i \in 0..k /\ (i # 0 => i - 1 \in 0..k)
          BY <3>2
        <4>2. f[i] = IF i = 0 THEN [ips |-> <<>>, current |-> LastAddr(p)]
                     ELSE Move(f[i - 1])
          BY <2>1, <4>1 DEF WalkUpto, Move
        <4>3. g[i] = f[i] /\ (i # 0 => g[i - 1] = f[i - 1])
          BY <3>2, <4>1
        <4> QED
          BY <4>2, <4>3
      <3> QED
        BY <3>1, <3>2
    <2>4. g = [i \in 0..(k + 1) |-> IF i = 0 THEN [ips |-> <<>>, current |-> LastAddr(p)]
                                    ELSE Move(g[i - 1])]
      BY <2>3
    <2> HIDE DEF g
    <2>5. WalkUpto(g, p, k + 1)
      BY <2>4 DEF WalkUpto, Move
    <2> QED
      BY <2>2, <2>5
  <1>3. T \in SUBSET (0..n)
    OBVIOUS
  <1> HIDE DEF T
  <1>4. T = 0..n
    BY <1>1, <1>2, <1>3, Induction
  <1> QED
    BY <1>4 DEF T

\* What the walk has found after i steps, and where it is.
Found(r, p, i) ==
    /\ r.ips \in Seq(Addr)
    /\ ToSet(r.ips) = {a \in Block(p) : a > Top(p) - i}
    /\ i < Size(p) => r.current = Top(p) - i
    /\ i \geq Size(p) => r.current \notin Block(p)

\* getLastNIPs returns the n highest addresses of the prefix, or all of them if
\* there are no n (ippoolimport_controller.go:267-279).
LEMMA LastNIPs ==
    ASSUME NEW p \in CIDR, NEW n \in Nat
    PROVE  /\ GetLastNIPs(p, n) \in Seq(Addr)
           /\ ToSet(GetLastNIPs(p, n)) = {a \in Block(p) : a > Top(p) - n}
  <1>1. PICK f : WalkUpto(f, p, n) /\ GetLastNIPs(p, n) = f[n].ips
    <2> DEFINE walk == CHOOSE f : WalkUpto(f, p, n)
    <2>1. WalkUpto(walk, p, n)
      BY WalkExists
    <2>2. GetLastNIPs(p, n) = walk[n].ips
      BY DEF GetLastNIPs, WalkUpto
    <2> QED
      BY <2>1, <2>2
  <1>2. /\ Size(p) \in Nat \ {0} /\ Base(p) \in Nat /\ Top(p) \in Nat
        /\ Top(p) = Base(p) + Size(p) - 1 /\ LastAddr(p) = Top(p)
        /\ Block(p) = Base(p)..Top(p) /\ Block(p) \subseteq Addr
    BY BlockInterval DEF Top, Block
  <1>3. None \notin Block(p)
    BY <1>2, DataAssumption
  <1> DEFINE T == {i \in 0..n : Found(f[i], p, i)}
  <1>4. 0 \in T
    <2>1. f[0] = [ips |-> <<>>, current |-> Top(p)]
      BY <1>1, <1>2 DEF WalkUpto
    <2>2. ToSet(<<>>) = {} /\ <<>> \in Seq(Addr)
      BY DEF ToSet
    <2>3. {a \in Block(p) : a > Top(p) - 0} = {}
      BY <1>2
    <2>4. Found(f[0], p, 0)
      BY <1>2, <2>1, <2>2, <2>3 DEF Found
    <2> QED
      BY <2>4
  <1>5. ASSUME NEW i \in 0..n - 1, i \in T
        PROVE  i + 1 \in T
    <2> DEFINE r == f[i]
    <2>1. i + 1 \in 0..n /\ i + 1 # 0 /\ (i + 1) - 1 = i /\ i \in Nat /\ Found(r, p, i)
      BY <1>5
    <2>2. f[i + 1] = IF r.current \notin Block(p) THEN r
                     ELSE [ips |-> <<r.current>> \o r.ips, current |-> Prev(r.current)]
      BY <1>1, <2>1 DEF WalkUpto
    <2> HIDE DEF r
    <2>3. CASE i < Size(p)
      <3> DEFINE a0 == Top(p) - i
      <3>1. r.current = a0 /\ a0 \in Block(p) /\ a0 \in Addr /\ a0 \in Nat
        BY <1>2, <2>1, <2>3 DEF Found
      <3>2. f[i + 1] = [ips |-> <<a0>> \o r.ips, current |-> Prev(a0)]
        BY <2>2, <3>1
      <3>3. <<a0>> \in Seq(Addr) /\ ToSet(<<a0>>) = {a0}
        BY <3>1, VersionSingle
      <3>4. <<a0>> \o r.ips \in Seq(Addr) /\ ToSet(<<a0>> \o r.ips) = {a0} \cup ToSet(r.ips)
        <4>1. r.ips \in Seq(Addr)
          BY <2>1 DEF Found
        <4> DEFINE u == <<a0>>
                   v == r.ips
        <4>2. u \in Seq(Addr) /\ v \in Seq(Addr) /\ ToSet(u) = {a0}
          BY <3>3, <4>1
        <4> HIDE DEF u, v
        <4>3. u \o v \in Seq(Addr) /\ ToSet(u \o v) = ToSet(u) \cup ToSet(v)
          BY <4>2, ConcatSet
        <4> QED
          BY <4>2, <4>3 DEF u, v
      <3>5. {a0} \cup {a \in Block(p) : a > Top(p) - i} = {a \in Block(p) : a > Top(p) - (i + 1)}
        <4>1. \A a \in Block(p) : (a = a0 \/ a > Top(p) - i) <=> a > Top(p) - (i + 1)
          <5>1. \A a \in Block(p) : a \in Nat
            BY <1>2
          <5> QED
            BY <1>2, <2>1, <5>1
        <4>2. a0 \in Block(p)
          BY <3>1
        <4> HIDE DEF a0
        <4> QED
          BY <4>1, <4>2
      <3>6. /\ i + 1 < Size(p) => Prev(a0) = Top(p) - (i + 1)
            /\ i + 1 \geq Size(p) => Prev(a0) \notin Block(p)
        <4>1. CASE a0 = 0
          <5>1. Prev(a0) = None /\ ~(i + 1 < Size(p))
            BY <1>2, <2>1, <4>1 DEF Prev
          <5> QED
            BY <1>3, <5>1
        <4>2. CASE a0 # 0
          <5>1. Prev(a0) = Top(p) - (i + 1)
            BY <1>2, <2>1, <4>2 DEF Prev
          <5>2. i + 1 \geq Size(p) => Top(p) - (i + 1) < Base(p)
            BY <1>2, <2>1
          <5> QED
            BY <1>2, <2>1, <5>1, <5>2
        <4> QED
          BY <4>1, <4>2
      <3> HIDE DEF a0
      <3>7. Found(f[i + 1], p, i + 1)
        BY <2>1, <3>2, <3>4, <3>5, <3>6 DEF Found
      <3> QED
        BY <2>1, <3>7
    <2>4. CASE i \geq Size(p)
      <3>1. f[i + 1] = r
        <4>1. r.current \notin Block(p)
          BY <2>1, <2>4 DEF Found
        <4> QED
          BY <2>2, <4>1
      <3>2. {a \in Block(p) : a > Top(p) - i} = {a \in Block(p) : a > Top(p) - (i + 1)}
        <4>1. \A a \in Block(p) : a > Top(p) - i <=> a > Top(p) - (i + 1)
          <5>1. \A a \in Block(p) : a \in Nat /\ a \geq Base(p)
            BY <1>2
          <5>2. Base(p) > Top(p) - i
            BY <1>2, <2>1, <2>4
          <5> QED
            BY <1>2, <2>1, <5>1, <5>2
        <4> QED
          BY <4>1
      <3>3. i + 1 \geq Size(p) /\ ~(i + 1 < Size(p))
        BY <1>2, <2>1, <2>4
      <3>4. Found(f[i + 1], p, i + 1)
        BY <2>1, <2>4, <3>1, <3>2, <3>3 DEF Found
      <3> QED
        BY <2>1, <3>4
    <2> QED
      BY <1>2, <2>1, <2>3, <2>4
  <1>6. T \in SUBSET (0..n)
    OBVIOUS
  <1> HIDE DEF T
  <1>7. T = 0..n
    BY <1>4, <1>5, <1>6, Induction
  <1>8. Found(f[n], p, n)
    BY <1>7 DEF T
  <1> QED
    BY <1>1, <1>8 DEF Found

-----------------------------------------------------------------------------
(***************************************************************************)
(* What a new pool excludes.                                               *)
(***************************************************************************)
\* An address is among the n highest of the prefix if fewer than n are higher.
LEMMA HighestCount ==
    ASSUME NEW p \in CIDR, NEW n \in Nat
    PROVE  Highest(p, n) = {a \in Block(p) : a > Top(p) - n}
  <1>1. Base(p) \in Nat /\ Top(p) \in Nat /\ Block(p) = Base(p)..Top(p)
    BY BlockInterval
  <1>2. ASSUME NEW a \in Block(p)
        PROVE  Cardinality({b \in Block(p) : b > a}) = Top(p) - a
    <2>1. a \in Nat /\ Base(p) \leq a /\ a \leq Top(p)
      BY <1>1
    <2>2. {b \in Block(p) : b > a} = (a + 1)..Top(p)
      BY <1>1, <2>1
    <2> DEFINE k == a + 1
               t == Top(p)
    <2>3. k \in Int /\ t \in Int
      BY <1>1, <2>1
    <2> HIDE DEF k, t
    <2>4. Cardinality(k..t) = IF k > t THEN 0 ELSE t - k + 1
      BY <2>3, FS_Interval
    <2>5. (IF k > t THEN 0 ELSE t - k + 1) = Top(p) - a
      BY <1>1, <2>1 DEF k, t
    <2> QED
      BY <2>2, <2>4, <2>5 DEF k, t
  <1>3. \A a \in Block(p) : Top(p) - a < n <=> a > Top(p) - n
    BY <1>1
  <1> QED
    BY <1>2, <1>3 DEF Highest

\* A sequence of no block or one.
LEMMA OneBlock ==
    ASSUME NEW e \in CIDR
    PROVE  <<e>> \in Seq(CIDR) /\ Blocks(ToSet(<<e>>)) = Block(e)
  <1>1. <<e>> \in Seq(CIDR) /\ ToSet(<<e>>) = {e}
    BY VersionSingle
  <1>2. Blocks({e}) = Block(e)
    BY DEF Blocks
  <1> QED
    BY <1>1, <1>2

LEMMA NoBlock == <<>> \in Seq(CIDR) /\ Blocks(ToSet(<<>>)) = {}
  <1>1. <<>> \in Seq(CIDR) /\ ToSet(<<>>) = {}
    BY DEF ToSet
  <1>2. Blocks({}) = {}
    BY DEF Blocks
  <1> QED
    BY <1>1, <1>2

LEMMA BlockCup ==
    ASSUME NEW A, NEW B
    PROVE  Blocks(A \cup B) = Blocks(A) \cup Blocks(B)
  <1>1. \A S, a : a \in Blocks(S) <=> \E x \in S : a \in Block(x)
    BY DEF Blocks
  <1>2. ASSUME NEW a
        PROVE  a \in Blocks(A \cup B) <=> a \in Blocks(A) \cup Blocks(B)
    BY <1>1
  <1> QED
    BY <1>2

LEMMA BlockConcat ==
    ASSUME NEW s \in Seq(CIDR), NEW t \in Seq(CIDR)
    PROVE  /\ s \o t \in Seq(CIDR)
           /\ Blocks(ToSet(s \o t))
                = Blocks(ToSet(s)) \cup Blocks(ToSet(t))
  <1>1. s \o t \in Seq(CIDR) /\ ToSet(s \o t) = ToSet(s) \cup ToSet(t)
    BY ConcatSet
  <1> QED
    BY <1>1, BlockCup

\* Addresses written as prefixes of one address.
LEMMA SingleBlocks ==
    ASSUME NEW ips \in Seq(Addr)
    PROVE  LET s == [i \in DOMAIN ips |-> [addr |-> ips[i], bits |-> Width]] IN
           s \in Seq(CIDR) /\ Blocks(ToSet(s)) = ToSet(ips)
  <1> DEFINE s == [i \in DOMAIN ips |-> [addr |-> ips[i], bits |-> Width]]
  <1>1. /\ Len(ips) \in Nat /\ DOMAIN ips = 1..Len(ips) /\ \A i \in DOMAIN ips : ips[i] \in Addr
    OBVIOUS
  <1>2. \A i \in DOMAIN ips : s[i] \in CIDR /\ Block(s[i]) = {ips[i]}
    BY <1>1, BlockSingle
  <1>3. DOMAIN s = DOMAIN ips /\ s = [i \in 1..Len(ips) |-> s[i]]
    BY <1>1
  <1> HIDE DEF s
  <1>4. s \in Seq(CIDR)
    BY <1>1, <1>2, <1>3
  <1>5. ToSet(s) = {s[i] : i \in DOMAIN ips} /\ ToSet(ips) = {ips[i] : i \in DOMAIN ips}
    BY <1>3 DEF ToSet
  <1>6. Blocks(ToSet(s)) = ToSet(ips)
    <2>1. \A x \in ToSet(s) : \E i \in DOMAIN ips : Block(x) = {ips[i]}
      BY <1>2, <1>5
    <2>2. \A i \in DOMAIN ips : \E x \in ToSet(s) : Block(x) = {ips[i]}
      BY <1>2, <1>5
    <2>3. ASSUME NEW a, a \in Blocks(ToSet(s))
          PROVE  a \in ToSet(ips)
      <3>1. PICK x \in ToSet(s) : a \in Block(x)
        BY <2>3 DEF Blocks
      <3>2. PICK i \in DOMAIN ips : Block(x) = {ips[i]}
        BY <2>1
      <3> QED
        BY <1>5, <3>1, <3>2
    <2>4. ASSUME NEW a, a \in ToSet(ips)
          PROVE  a \in Blocks(ToSet(s))
      <3>1. PICK i \in DOMAIN ips : a = ips[i]
        BY <1>5, <2>4
      <3>2. PICK x \in ToSet(s) : Block(x) = {ips[i]}
        BY <2>2
      <3> QED
        BY <3>1, <3>2 DEF Blocks
    <2> QED
      BY <2>3, <2>4
  <1> QED
    BY <1>4, <1>6 DEF s

\* A new pool offers the prefix and leaves out what its selector excludes, which is
\* never the whole prefix if the mask to exclude is longer.
LEMMA PoolExcludes ==
    ASSUME NEW s \in AllSelectors, NEW p \in AllPrefixes
    PROVE  LET q == NewIPPool(s, p) IN
           /\ q \in PoolState /\ q.present /\ q.net = p.net
           /\ Blocks(ToSet(q.excluded)) = MustExclude(s, p)
           /\ s.excludeMask # None /\ ~MasksWrong(s, p) =>
                Block(p.net) \ Block([addr |-> p.net.addr, bits |-> s.excludeMask]) # {}
  <1> DEFINE q == NewIPPool(s, p)
             m == [addr |-> p.net.addr, bits |-> s.excludeMask]
             ips == GetLastNIPs(p.net, s.lastN)
             x1 == IF s.excludeMask = None THEN <<>> ELSE <<m>>
             x2 == s.excluded
             x3 == IF s.lastN = None THEN <<>>
                   ELSE [i \in DOMAIN ips |-> [addr |-> ips[i], bits |-> Width]]
             y1 == IF s.excludeMask = None THEN {} ELSE Block(m)
             y2 == Blocks(ToSet(s.excluded))
             y3 == IF s.lastN = None THEN {}
                   ELSE Highest(p.net, s.lastN)
  <1>1. /\ s.excludeMask # None => s.excludeMask \in 0..Width
        /\ s.excluded \in Seq(CIDR)
        /\ s.lastN # None => s.lastN \in Nat
        /\ p.net \in CIDR
    BY DataAssumption
  <1>2. p.net.addr \in Addr /\ p.net.bits \in 0..Width
    BY <1>1 DEF CIDR
  <1>3. s.excludeMask # None /\ ~MasksWrong(s, p) => p.net.bits < s.excludeMask
    BY <1>1, <1>2, WidthAssumption DEF MasksWrong
  <1>4. /\ s.excludeMask # None => m \in CIDR
        /\ s.excludeMask # None /\ ~MasksWrong(s, p) => Block(p.net) \ Block(m) # {}
    BY <1>1, <1>2, <1>3, LongerMask DEF CIDR
  <1>5. q = [present |-> TRUE, net |-> p.net, gateway |-> NextAddr(p.net.addr),
             excluded |-> x1 \o x2 \o x3]
    BY DEF NewIPPool
  <1>6. MustExclude(s, p) = y1 \cup y2 \cup y3
    <2> HIDE DEF y1, y2, y3
    <2>1. s.excludeMask = None => y1 = {}
      BY DEF y1
    <2>2. s.excludeMask # None => y1 = Block(m)
      BY DEF y1
    <2>3. s.lastN = None => y3 = {}
      BY DEF y3
    <2>4. s.lastN # None =>
            y3 = Highest(p.net, s.lastN)
      BY DEF y3
    <2>5. CASE s.excludeMask = None /\ s.lastN = None
      BY <2>1, <2>3, <2>5 DEF MustExclude, y2
    <2>6. CASE s.excludeMask = None /\ s.lastN # None
      BY <2>1, <2>4, <2>6 DEF MustExclude, y2
    <2>7. CASE s.excludeMask # None /\ s.lastN = None
      BY <2>2, <2>3, <2>7 DEF MustExclude, y2
    <2>8. CASE s.excludeMask # None /\ s.lastN # None
      BY <2>2, <2>4, <2>8 DEF MustExclude, y2
    <2> QED
      BY <2>5, <2>6, <2>7, <2>8
  <1>7. NextAddr(p.net.addr) \in Addr \cup {None}
    <2>1. TwoTo[Width] \in Nat \ {0}
      BY TwoToType, WidthAssumption
    <2> QED
      BY <1>2, <2>1 DEF NextAddr, Addr
  <1>8. x1 \in Seq(CIDR) /\ Blocks(ToSet(x1)) = y1
    <2> HIDE DEF m
    <2>1. CASE s.excludeMask = None
      BY <2>1, NoBlock
    <2>2. CASE s.excludeMask # None
      BY <1>4, <2>2, OneBlock
    <2> QED
      BY <2>1, <2>2
  <1>9. x3 \in Seq(CIDR) /\ Blocks(ToSet(x3)) = y3
    <2>1. CASE s.lastN = None
      BY <2>1, NoBlock
    <2>2. CASE s.lastN # None
      <3>1. ips \in Seq(Addr) /\ ToSet(ips) = {a \in Block(p.net) : a > Top(p.net) - s.lastN}
        BY <1>1, <2>2, LastNIPs
      <3>2. ToSet(ips) = y3
        BY <1>1, <2>2, <3>1, HighestCount
      <3> HIDE DEF ips, y3
      <3> QED
        BY <2>2, <3>1, <3>2, SingleBlocks
    <2> QED
      BY <2>1, <2>2
  <1> HIDE DEF x1, x3, y1, y2, y3, m, q
  <1>10. x1 \o x2 \in Seq(CIDR) /\ Blocks(ToSet(x1 \o x2)) = y1 \cup y2
    <2>1. x2 \in Seq(CIDR) /\ Blocks(ToSet(x2)) = y2
      BY <1>1 DEF y2
    <2> HIDE DEF x2
    <2>2. Blocks(ToSet(x1 \o x2))
            = Blocks(ToSet(x1)) \cup Blocks(ToSet(x2))
      BY <1>8, <2>1, BlockConcat
    <2>3. x1 \o x2 \in Seq(CIDR)
      BY <1>8, <2>1, BlockConcat
    <2> QED
      BY <1>8, <2>1, <2>2, <2>3
  <1>11. /\ x1 \o x2 \o x3 \in Seq(CIDR)
         /\ Blocks(ToSet(x1 \o x2 \o x3)) = y1 \cup y2 \cup y3
    <2> DEFINE z == x1 \o x2
    <2>1. z \in Seq(CIDR) /\ Blocks(ToSet(z)) = y1 \cup y2
      BY <1>10
    <2> HIDE DEF z
    <2>2. /\ z \o x3 \in Seq(CIDR)
          /\ Blocks(ToSet(z \o x3))
               = Blocks(ToSet(z)) \cup Blocks(ToSet(x3))
      BY <1>9, <2>1, BlockConcat
    <2>3. /\ z \o x3 \in Seq(CIDR)
          /\ Blocks(ToSet(z \o x3)) = y1 \cup y2 \cup y3
      BY <1>9, <2>1, <2>2
    <2> QED
      BY <2>3 DEF z
  <1>12. q \in PoolState
    BY <1>1, <1>5, <1>7, <1>11 DEF PoolState
  <1> QED
    BY <1>4, <1>5, <1>6, <1>11, <1>12 DEF q, m

-----------------------------------------------------------------------------
(***************************************************************************)
(* Types.                                                                  *)
(***************************************************************************)
WorkerType ==
    /\ w \in Worker
    /\ w.pc \in {"list", "pool", "create"} => w.selectors # <<>>
    /\ w.pc \in {"pool", "create"} => w.prefixes # <<>>
    /\ w.pc \in {"getStatus", "updateStatus"} <=> w.result \in {"Ready", "Error"}

ClusterType ==
    /\ netbox \in [Query -> Lists]
    /\ cr \in Seq(Import) \ {<<>>}
    /\ pools \in [Name -> Seq(PoolState) \ {<<>>}]

BoundsType == faults \in 0..MaxFaults /\ edits \in 0..MaxEdits

LEMMA TypeParts ==
    /\ TypeOK <=> WorkerType /\ ClusterType /\ BoundsType
    /\ TypeOK' <=> WorkerType' /\ ClusterType' /\ BoundsType'
  BY DEF TypeOK, WorkerType, ClusterType, BoundsType

\* A sequence whose members are in a larger set.
LEMMA SeqIn ==
    ASSUME NEW S, NEW s, s \in Seq(ToSet(s)), ToSet(s) \subseteq S
    PROVE  s \in Seq(S)
  <1>1. Len(s) \in Nat /\ DOMAIN s = 1..Len(s) /\ s = [i \in 1..Len(s) |-> s[i]]
    OBVIOUS
  <1>2. \A i \in 1..Len(s) : s[i] \in S
    BY <1>1 DEF ToSet
  <1> QED
    BY <1>1, <1>2

LEMMA DataTypes ==
    /\ \A s \in Specs : s \in Seq(AllSelectors) /\ ToSet(s) \subseteq AllSelectors
    /\ \A l \in Lists : l \in Seq(AllPrefixes) /\ ToSet(l) \subseteq AllPrefixes
    /\ \A s \in AllSelectors : s.query \in Query
    /\ \A s \in AllSelectors, p \in AllPrefixes : GenerateIPPoolName(s, p) \in Name
  <1>1. \A s \in Specs : ToSet(s) \subseteq AllSelectors
    BY DEF AllSelectors
  <1>2. \A l \in Lists : ToSet(l) \subseteq AllPrefixes
    BY DEF AllPrefixes
  <1>3. \A s \in Specs : s \in Seq(AllSelectors)
    BY <1>1, DataAssumption, SeqIn
  <1>4. \A l \in Lists : l \in Seq(AllPrefixes)
    BY <1>2, DataAssumption, SeqIn
  <1>5. \A s \in AllSelectors : s.query \in Query
    BY DataAssumption
  <1>6. \A s \in AllSelectors, p \in AllPrefixes : GenerateIPPoolName(s, p) \in Name
    BY DEF Name
  <1> QED
    BY <1>1, <1>2, <1>3, <1>4, <1>5, <1>6

LEMMA IdleType ==
    /\ IdleWorker \in Worker
    /\ IdleWorker.pc = "idle" /\ IdleWorker.result = "none"
  <1>1. 0 \in 0..MaxTries - 1 /\ 0 \in Nat
    BY TriesAssumption
  <1>2. <<>> \in Seq(AllSelectors) /\ <<>> \in Seq(AllPrefixes)
    OBVIOUS
  <1> QED
    BY <1>1, <1>2 DEF IdleWorker, Worker, PC

\* The call ends, or has come to its result.
LEMMA EndMoves ==
    /\ w' = IdleWorker => WorkerType' /\ w'.pc = "idle" /\ w'.result = "none"
    /\ \A r \in {"Ready", "Error"} :
         Conclude(r) => WorkerType' /\ w'.pc = "getStatus" /\ w'.result = r
  <1>1. w' = IdleWorker => WorkerType' /\ w'.pc = "idle" /\ w'.result = "none"
    BY IdleType DEF WorkerType
  <1>2. ASSUME NEW r \in {"Ready", "Error"}, Conclude(r)
        PROVE  WorkerType' /\ w'.pc = "getStatus" /\ w'.result = r
    <2>1. w' \in Worker /\ w'.pc = "getStatus" /\ w'.result = r
      BY <1>2, IdleType DEF Conclude, Worker, PC
    <2> QED
      BY <2>1 DEF WorkerType
  <1> QED
    BY <1>1, <1>2

\* On to other selectors.
LEMMA SelectMoves ==
    ASSUME WorkerType, w.result = "none", NEW s \in Seq(AllSelectors), Select(s)
    PROVE  /\ WorkerType'
           /\ \/ s = <<>> /\ w'.pc = "getStatus" /\ w'.result = "Ready"
              \/ s # <<>> /\ w'.pc = "list" /\ w'.selectors = s /\ w'.result = "none"
  <1>1. CASE s = <<>>
    BY <1>1, EndMoves DEF Select
  <1>2. CASE s # <<>>
    <2>1. w' = [w EXCEPT !.pc = "list", !.selectors = s, !.prefixes = <<>>]
      BY <1>2 DEF Select
    <2>2. <<>> \in Seq(AllPrefixes)
      OBVIOUS
    <2>3. w' \in Worker /\ w'.pc = "list" /\ w'.selectors = s /\ w'.result = "none"
      BY <2>1, <2>2 DEF WorkerType, Worker, PC
    <2> QED
      BY <1>2, <2>3 DEF WorkerType
  <1> QED
    BY <1>1, <1>2

LEMMA HeadTypes ==
    ASSUME WorkerType
    PROVE  /\ w.selectors # <<>> =>
                /\ Selector \in AllSelectors /\ Selector \in ToSet(w.selectors)
                /\ Tail(w.selectors) \in Seq(AllSelectors)
           /\ w.prefixes # <<>> => Prefix \in AllPrefixes /\ Prefix \in ToSet(w.prefixes)
           /\ w.selectors # <<>> /\ w.prefixes # <<>> => PoolName \in Name
  <1>1. w.selectors \in Seq(AllSelectors) /\ w.prefixes \in Seq(AllPrefixes)
    BY DEF WorkerType, Worker
  <1>2. w.selectors # <<>> =>
          /\ Selector \in AllSelectors /\ Selector \in ToSet(w.selectors)
          /\ Tail(w.selectors) \in Seq(AllSelectors)
    BY <1>1, VersionEnds DEF Selector
  <1>3. w.prefixes # <<>> => Prefix \in AllPrefixes /\ Prefix \in ToSet(w.prefixes)
    BY <1>1, VersionEnds DEF Prefix
  <1> QED
    BY <1>2, <1>3, DataTypes DEF PoolName

\* On to the next prefix, or the next selector.
LEMMA NextPrefixMoves ==
    ASSUME WorkerType, w.pc \in {"pool", "create"}, NextPrefix
    PROVE  /\ WorkerType'
           /\ \/ /\ Len(w.prefixes) > 1
                 /\ w'.pc = "pool" /\ w'.prefixes = Tail(w.prefixes)
                 /\ w'.selectors = w.selectors /\ w'.result = "none"
              \/ /\ ~(Len(w.prefixes) > 1)
                 /\ \/ /\ Tail(w.selectors) = <<>>
                       /\ w'.pc = "getStatus" /\ w'.result = "Ready"
                    \/ /\ Tail(w.selectors) # <<>>
                       /\ w'.pc = "list" /\ w'.selectors = Tail(w.selectors)
                       /\ w'.result = "none"
  <1>0. w.result = "none" /\ w.selectors # <<>> /\ w.prefixes # <<>>
    BY DEF WorkerType, Worker
  <1>1. CASE Len(w.prefixes) > 1
    <2>1. Tail(w.prefixes) \in Seq(AllPrefixes) \ {<<>>}
      BY <1>1, VersionTail DEF WorkerType, Worker
    <2>2. w' = [w EXCEPT !.pc = "pool", !.prefixes = Tail(w.prefixes)]
      BY <1>1 DEF NextPrefix
    <2>3. /\ w' \in Worker /\ w'.pc = "pool" /\ w'.prefixes = Tail(w.prefixes)
          /\ w'.selectors = w.selectors /\ w'.result = "none"
      BY <1>0, <2>1, <2>2 DEF WorkerType, Worker, PC
    <2> QED
      BY <1>0, <1>1, <2>1, <2>3 DEF WorkerType
  <1>2. CASE ~(Len(w.prefixes) > 1)
    <2>1. Tail(w.selectors) \in Seq(AllSelectors) /\ Select(Tail(w.selectors))
      BY <1>0, <1>2, HeadTypes DEF NextPrefix
    <2> QED
      BY <1>0, <1>2, <2>1, SelectMoves
  <1> QED
    BY <1>1, <1>2

\* What the API server makes of a write.
LEMMA ImportStored ==
    ASSUME ClusterType, NEW v \in Import, StoreImport(v)
    PROVE  /\ cr' \in Seq(Import) \ {<<>>}
           /\ ToSet(cr') = ToSet(cr) \cup {Last(cr')}
           /\ Last(cr').present = v.present /\ Last(cr').spec = v.spec
           /\ Last(cr').status = v.status
  <1> DEFINE e == [v EXCEPT !.rv = Last(cr).rv + 1]
  <1>1. cr \in Seq(Import) /\ Last(cr) \in Import
    BY VersionEnds DEF ClusterType
  <1>2. /\ e \in Import /\ e.present = v.present /\ e.spec = v.spec /\ e.status = v.status
    BY <1>1 DEF Import
  <1>3. cr' = Append(cr, e)
    BY DEF StoreImport
  <1> HIDE DEF e
  <1>4. /\ cr' \in Seq(Import) \ {<<>>} /\ Last(cr') = e
        /\ ToSet(cr') = ToSet(cr) \cup {e}
    BY <1>1, <1>2, <1>3, VersionAppend
  <1> QED
    BY <1>2, <1>4

LEMMA PoolStored ==
    ASSUME ClusterType, NEW n \in Name, NEW v \in PoolState, StorePool(n, v)
    PROVE  /\ pools' \in [Name -> Seq(PoolState) \ {<<>>}]
           /\ Last(pools'[n]) = v
           /\ ToSet(pools'[n]) = ToSet(pools[n]) \cup {v}
           /\ \A m \in Name \ {n} : pools'[m] = pools[m]
  <1>1. pools[n] \in Seq(PoolState)
    BY DEF ClusterType
  <1>2. pools'[n] = Append(pools[n], v) /\ \A m \in Name \ {n} : pools'[m] = pools[m]
    BY DEF StorePool, ClusterType
  <1>3. /\ pools'[n] \in Seq(PoolState) \ {<<>>} /\ Last(pools'[n]) = v
        /\ ToSet(pools'[n]) = ToSet(pools[n]) \cup {v}
    BY <1>1, <1>2, VersionAppend
  <1>4. pools' \in [Name -> Seq(PoolState) \ {<<>>}]
    <2>1. Append(pools[n], v) \in Seq(PoolState) \ {<<>>}
      BY <1>2, <1>3
    <2> QED
      BY <2>1 DEF StorePool, ClusterType
  <1> QED
    BY <1>2, <1>3, <1>4

\* The informers and a restart drop versions, never the last one.
LEMMA VersionsDropped ==
    ASSUME ClusterType, \/ DeliverImport \/ Crash
                        \/ \E n \in Name : DeliverPool(n)
    PROVE  /\ ClusterType'
           /\ Last(cr') = Last(cr) /\ ToSet(cr') \subseteq ToSet(cr)
           /\ \A n \in Name : /\ Last(pools'[n]) = Last(pools[n])
                              /\ ToSet(pools'[n]) \subseteq ToSet(pools[n])
           /\ netbox' = netbox
  <1>1. CASE DeliverImport
    <2>1. cr' = Tail(cr) /\ Len(cr) > 1 /\ UNCHANGED <<netbox, pools>>
      BY <1>1 DEF DeliverImport
    <2>2. /\ Tail(cr) \in Seq(Import) \ {<<>>} /\ Last(Tail(cr)) = Last(cr)
          /\ ToSet(Tail(cr)) \subseteq ToSet(cr)
      BY <2>1, VersionTail DEF ClusterType
    <2> QED
      BY <2>1, <2>2 DEF ClusterType
  <1>2. CASE Crash
    <2>1. /\ cr' = <<Last(cr)>> /\ pools' = [n \in Name |-> <<Last(pools[n])>>]
          /\ netbox' = netbox
      BY <1>2 DEF Crash
    <2>2. /\ <<Last(cr)>> \in Seq(Import) \ {<<>>} /\ Last(<<Last(cr)>>) = Last(cr)
          /\ ToSet(<<Last(cr)>>) \subseteq ToSet(cr)
      <3>1. Last(cr) \in Import /\ Last(cr) \in ToSet(cr)
        BY VersionEnds DEF ClusterType
      <3> QED
        BY <3>1, VersionSingle
    <2>3. ASSUME NEW n \in Name
          PROVE  /\ <<Last(pools[n])>> \in Seq(PoolState) \ {<<>>}
                 /\ Last(<<Last(pools[n])>>) = Last(pools[n])
                 /\ ToSet(<<Last(pools[n])>>) \subseteq ToSet(pools[n])
      <3>1. Last(pools[n]) \in PoolState /\ Last(pools[n]) \in ToSet(pools[n])
        BY VersionEnds DEF ClusterType
      <3> QED
        BY <3>1, VersionSingle
    <2>4. pools' \in [Name -> Seq(PoolState) \ {<<>>}]
      BY <2>1, <2>3
    <2> QED
      BY <2>1, <2>2, <2>3, <2>4 DEF ClusterType
  <1>3. ASSUME NEW n \in Name, DeliverPool(n)
        PROVE  /\ ClusterType' /\ UNCHANGED <<netbox, cr>>
               /\ \A m \in Name : /\ Last(pools'[m]) = Last(pools[m])
                                  /\ ToSet(pools'[m]) \subseteq ToSet(pools[m])
    <2>1. /\ pools' = [pools EXCEPT ![n] = Tail(pools[n])] /\ Len(pools[n]) > 1
          /\ UNCHANGED <<netbox, cr>>
      BY <1>3 DEF DeliverPool
    <2>2. /\ Tail(pools[n]) \in Seq(PoolState) \ {<<>>}
          /\ Last(Tail(pools[n])) = Last(pools[n])
          /\ ToSet(Tail(pools[n])) \subseteq ToSet(pools[n])
      BY <2>1, VersionTail DEF ClusterType
    <2> QED
      BY <2>1, <2>2 DEF ClusterType
  <1> QED
    BY <1>1, <1>2, <1>3

LEMMA TypeInit == Init => TypeOK
  <1> SUFFICES ASSUME Init PROVE TypeOK
    OBVIOUS
  <1>1. netbox \in [Query -> Lists]
    BY InitAssumption DEF Init
  <1>2. cr \in Seq(Import) \ {<<>>}
    <2>1. PICK s \in Specs :
            cr = <<[rv |-> 1, present |-> TRUE, spec |-> s, status |-> "none"]>>
      BY DEF Init
    <2> DEFINE e == [rv |-> 1, present |-> TRUE, spec |-> s, status |-> "none"]
    <2>2. e \in Import
      BY DEF Import
    <2> HIDE DEF e
    <2>3. cr = <<e>>
      BY <2>1 DEF e
    <2> QED
      BY <2>2, <2>3, VersionSingle
  <1>3. pools \in [Name -> Seq(PoolState) \ {<<>>}]
    <2>1. NoPool \in PoolState
      BY NoBlock DEF NoPool, PoolState
    <2>2. <<NoPool>> \in Seq(PoolState) \ {<<>>}
      BY <2>1, VersionSingle
    <2> QED
      BY <2>2 DEF Init
  <1>4. WorkerType
    BY IdleType DEF Init, WorkerType
  <1>5. BoundsType
    BY BoundAssumption DEF Init, BoundsType
  <1> QED
    BY <1>1, <1>2, <1>3, <1>4, <1>5, TypeParts DEF ClusterType

\* The ends of the sequences.
LEMMA EndTypes ==
    ASSUME ClusterType
    PROVE  /\ Head(cr) \in Import /\ Last(cr) \in Import
           /\ Head(cr) \in ToSet(cr) /\ Last(cr) \in ToSet(cr)
           /\ \A n \in Name : /\ Head(pools[n]) \in PoolState /\ Last(pools[n]) \in PoolState
                              /\ Head(pools[n]) \in ToSet(pools[n])
                              /\ Last(pools[n]) \in ToSet(pools[n])
  BY VersionEnds DEF ClusterType

LEMMA TypeWorker ==
    ASSUME TypeOK, Start \/ Step
    PROVE  WorkerType'
  <1>0. WorkerType /\ ClusterType /\ w \in Worker
    BY TypeParts DEF WorkerType
  <1>1. CASE Start
    <2>1. At("idle") /\ w.result = "none"
      BY <1>0, <1>1 DEF Start, At, WorkerType, Worker
    <2>2. CASE Head(cr).present
      <3>1. w' = [w EXCEPT !.pc = "reload", !.selectors = Head(cr).spec]
        BY <1>1, <2>2 DEF Start
      <3>2. Head(cr).spec \in Seq(AllSelectors)
        BY <1>0, EndTypes, DataTypes DEF Import
      <3>3. w' \in Worker /\ w'.pc = "reload" /\ w'.result = "none"
        BY <1>0, <2>1, <3>1, <3>2 DEF Worker, PC
      <3> QED
        BY <3>3 DEF WorkerType
    <2>3. CASE ~Head(cr).present
      BY <1>1, <2>3, EndMoves DEF Start
    <2> QED
      BY <2>2, <2>3
  <1>2. CASE Reload
    <2>1. w.result = "none" /\ w.selectors \in Seq(AllSelectors) /\ Select(w.selectors)
      BY <1>0, <1>2 DEF Reload, At, WorkerType, Worker
    <2> QED
      BY <1>0, <2>1, SelectMoves
  <1>3. CASE ListPrefixes
    <2>1. w.pc = "list" /\ w.result = "none" /\ w.selectors # <<>>
      BY <1>0, <1>3 DEF ListPrefixes, At, WorkerType, Worker
    <2>2. CASE netbox[Selector.query] = <<>>
      BY <1>3, <2>2, EndMoves DEF ListPrefixes, Fail
    <2>3. CASE netbox[Selector.query] # <<>>
      <3>1. w' = [w EXCEPT !.pc = "pool", !.prefixes = netbox[Selector.query]]
        BY <1>3, <2>3 DEF ListPrefixes
      <3>2. netbox[Selector.query] \in Seq(AllPrefixes)
        BY <1>0, <2>1, HeadTypes, DataTypes DEF ClusterType
      <3>3. /\ w' \in Worker /\ w'.pc = "pool" /\ w'.result = "none"
            /\ w'.selectors = w.selectors /\ w'.prefixes = netbox[Selector.query]
        BY <1>0, <2>1, <3>1, <3>2 DEF Worker, PC
      <3> QED
        BY <2>1, <2>3, <3>3 DEF WorkerType
    <2> QED
      BY <2>2, <2>3
  <1>4. CASE ReconcileIPPool
    <2>1. /\ w.pc = "pool" /\ w.result = "none" /\ w.selectors # <<>> /\ w.prefixes # <<>>
      BY <1>0, <1>4 DEF ReconcileIPPool, At, WorkerType, Worker
    <2>2. CASE NextPrefix \/ Fail \/ w' = IdleWorker
      BY <1>0, <2>1, <2>2, NextPrefixMoves, EndMoves DEF Fail
    <2>3. CASE w' = [w EXCEPT !.pc = "create"]
      <3>1. /\ w' \in Worker /\ w'.pc = "create" /\ w'.result = "none"
            /\ w'.selectors = w.selectors /\ w'.prefixes = w.prefixes
        BY <1>0, <2>1, <2>3 DEF Worker, PC
      <3> QED
        BY <2>1, <3>1 DEF WorkerType
    <2> QED
      BY <1>4, <2>2, <2>3 DEF ReconcileIPPool
  <1>5. CASE CreateIPPool
    BY <1>0, <1>5, NextPrefixMoves, EndMoves DEF CreateIPPool, At, Fail
  <1>6. CASE GetForStatus
    <2>1. w.pc = "getStatus" /\ w.result \in {"Ready", "Error"}
      BY <1>0, <1>6 DEF GetForStatus, At, WorkerType
    <2>2. CASE w' = [w EXCEPT !.pc = "updateStatus", !.rv = Head(cr).rv]
      <3>1. Head(cr).rv \in Nat
        BY <1>0, EndTypes DEF Import
      <3>2. w' \in Worker /\ w'.pc = "updateStatus" /\ w'.result = w.result
        BY <1>0, <2>2, <3>1 DEF Worker, PC
      <3> QED
        BY <2>1, <3>2 DEF WorkerType
    <2> QED
      BY <1>6, <2>2, EndMoves DEF GetForStatus
  <1>7. CASE UpdateStatus
    <2>1. w.pc = "updateStatus" /\ w.result \in {"Ready", "Error"}
      BY <1>0, <1>7 DEF UpdateStatus, At, WorkerType
    <2>2. ASSUME Conflict PROVE WorkerType'
      <3>1. CASE w.tries + 1 < MaxTries
        <4>1. w.tries + 1 \in 0..MaxTries - 1
          BY <1>0, <3>1, TriesAssumption DEF Worker
        <4>2. w' = [w EXCEPT !.pc = "getStatus", !.tries = w.tries + 1]
          BY <2>2, <3>1 DEF Conflict
        <4>3. w' \in Worker /\ w'.pc = "getStatus" /\ w'.result = w.result
          BY <1>0, <4>1, <4>2 DEF Worker, PC
        <4> QED
          BY <2>1, <4>3 DEF WorkerType
      <3>2. CASE ~(w.tries + 1 < MaxTries)
        BY <2>2, <3>2, EndMoves DEF Conflict
      <3> QED
        BY <3>1, <3>2
    <2> QED
      BY <1>7, <2>2, EndMoves DEF UpdateStatus
  <1> QED
    BY <1>1, <1>2, <1>3, <1>4, <1>5, <1>6, <1>7 DEF Step

LEMMA TypeStep ==
    ASSUME TypeOK, Start \/ Step
    PROVE  TypeOK'
  <1>0. WorkerType /\ ClusterType /\ BoundsType /\ w \in Worker /\ WorkerType'
    BY TypeWorker, TypeParts DEF WorkerType
  <1>1. BoundsType'
    BY <1>0 DEF Step, Start, Reload, ListPrefixes, ReconcileIPPool, CreateIPPool, GetForStatus,
       UpdateStatus, bounds, BoundsType
  <1>2. CASE UNCHANGED <<netbox, cr, pools>>
    BY <1>0, <1>1, <1>2, TypeParts DEF ClusterType
  <1>3. CASE CreateIPPool /\ ~UNCHANGED pools
    <2>1. /\ w.selectors # <<>> /\ w.prefixes # <<>>
          /\ StorePool(PoolName, NewIPPool(Selector, Prefix)) /\ UNCHANGED <<netbox, cr>>
      BY <1>0, <1>3 DEF CreateIPPool, At, WorkerType
    <2>2. PoolName \in Name /\ NewIPPool(Selector, Prefix) \in PoolState
      BY <1>0, <2>1, HeadTypes, PoolExcludes
    <2>3. pools' \in [Name -> Seq(PoolState) \ {<<>>}]
      BY <1>0, <2>1, <2>2, PoolStored
    <2> QED
      BY <1>0, <1>1, <2>1, <2>3, TypeParts DEF ClusterType
  <1>4. CASE UpdateStatus /\ ~UNCHANGED cr
    <2>1. /\ StoreImport([Last(cr) EXCEPT !.status = w.result])
          /\ w.result \in {"Ready", "Error"} /\ UNCHANGED <<netbox, pools>>
      BY <1>0, <1>4 DEF UpdateStatus, At, WorkerType
    <2>2. [Last(cr) EXCEPT !.status = w.result] \in Import
      BY <1>0, <2>1, EndTypes DEF Import
    <2>3. cr' \in Seq(Import) \ {<<>>}
      BY <1>0, <2>1, <2>2, ImportStored
    <2> QED
      BY <1>0, <1>1, <2>1, <2>3, TypeParts DEF ClusterType
  <1>5. \/ UNCHANGED <<netbox, cr, pools>>
        \/ CreateIPPool /\ ~UNCHANGED pools
        \/ UpdateStatus /\ ~UNCHANGED cr
    BY DEF Step, Start, Reload, ListPrefixes, ReconcileIPPool, CreateIPPool, GetForStatus,
       UpdateStatus
  <1> QED
    BY <1>2, <1>3, <1>4, <1>5

LEMMA TypeOthers ==
    ASSUME TypeOK,
           \/ DeliverImport \/ CallFails \/ Crash
           \/ EditSpec \/ DeleteImport \/ CreateImport
           \/ \E n \in Name : DeliverPool(n) \/ DeletePool(n)
           \/ \E q \in Query : EditPrefixes(q)
    PROVE  TypeOK'
  <1>0. WorkerType /\ ClusterType /\ BoundsType
    BY TypeParts
  <1>1. CASE DeliverImport \/ Crash \/ \E n \in Name : DeliverPool(n)
    <2>1. ClusterType'
      BY <1>0, <1>1, VersionsDropped
    <2>2. BoundsType'
      BY <1>0, <1>1, BoundAssumption DEF DeliverImport, Crash, DeliverPool, bounds, BoundsType
    <2>3. w' = w \/ w' = IdleWorker
      BY <1>1 DEF DeliverImport, Crash, DeliverPool
    <2>4. WorkerType'
      BY <1>0, <2>3, EndMoves DEF WorkerType
    <2> QED
      BY <2>1, <2>2, <2>4, TypeParts
  <1>2. CASE CallFails
    <2>1. WorkerType'
      BY <1>2, EndMoves DEF CallFails, Fail
    <2>2. ClusterType' /\ BoundsType'
      BY <1>0, <1>2, BoundAssumption DEF CallFails, ClusterType, BoundsType
    <2> QED
      BY <2>1, <2>2, TypeParts
  <1>3. CASE \/ EditSpec \/ DeleteImport \/ CreateImport
             \/ \E n \in Name : DeletePool(n)
             \/ \E q \in Query : EditPrefixes(q)
    <2>1. w' = w /\ BoundsType'
      <3>1. CASE CreateImport
        BY <1>0, <3>1 DEF CreateImport, bounds, BoundsType
      <3>2. CASE Edit
        BY <1>0, <3>2, BoundAssumption DEF Edit, BoundsType
      <3>3. CreateImport \/ Edit
        BY <1>3 DEF EditSpec, DeleteImport, DeletePool, EditPrefixes
      <3> QED
        BY <3>1, <3>2, <3>3
    <2>2. WorkerType'
      BY <1>0, <2>1 DEF WorkerType
    <2>3. cr' \in Seq(Import) \ {<<>>}
      <3>1. cr' = cr \/ \E v \in Import : StoreImport(v)
        <4>1. Last(cr) \in Import
          BY <1>0, EndTypes
        <4>2. /\ \A s \in Specs : [Last(cr) EXCEPT !.spec = s] \in Import
              /\ [Last(cr) EXCEPT !.present = FALSE] \in Import
              /\ \A s \in Specs :
                   [Last(cr) EXCEPT !.present = TRUE, !.spec = s, !.status = "none"] \in Import
          BY <4>1 DEF Import
        <4> QED
          BY <1>3, <4>2 DEF EditSpec, DeleteImport, CreateImport, DeletePool, EditPrefixes
      <3> QED
        BY <1>0, <3>1, ImportStored DEF ClusterType
    <2>4. pools' \in [Name -> Seq(PoolState) \ {<<>>}]
      <3>1. NoPool \in PoolState
        BY NoBlock DEF NoPool, PoolState
      <3>2. pools' = pools \/ \E n \in Name : StorePool(n, NoPool)
        BY <1>3 DEF EditSpec, DeleteImport, CreateImport, DeletePool, EditPrefixes
      <3> QED
        BY <1>0, <3>1, <3>2, PoolStored DEF ClusterType
    <2>5. netbox' \in [Query -> Lists]
      BY <1>0, <1>3 DEF EditSpec, DeleteImport, CreateImport, DeletePool, EditPrefixes,
         ClusterType
    <2> QED
      BY <2>1, <2>2, <2>3, <2>4, <2>5, TypeParts DEF ClusterType
  <1> QED
    BY <1>1, <1>2, <1>3

LEMMA TypeNext ==
    ASSUME TypeOK, [Next]_vars
    PROVE  TypeOK'
  <1>1. CASE UNCHANGED vars
    BY <1>1 DEF vars, TypeOK
  <1> QED
    BY <1>1, TypeStep, TypeOthers DEF Next

\* The variables keep their types: in particular a new pool is made of prefixes and
\* addresses, whatever its selector says, and the worker that asks for a pool has a
\* selector and a prefix to ask for.
THEOREM TypeCorrect == Spec => []TypeOK
  <1> QED
    BY TypeInit, TypeNext, PTL DEF Spec

-----------------------------------------------------------------------------
(***************************************************************************)
(* What a pool excludes.                                                   *)
(***************************************************************************)
\* Every pool was made from one selector and one prefix, whose masks were
\* compared before: the worker that is to make it has done so.
MadeFrom(n, q) ==
    \E s \in AllSelectors, p \in AllPrefixes :
        n = GenerateIPPoolName(s, p) /\ ~MasksWrong(s, p) /\ q = NewIPPool(s, p)

MadeInv ==
    /\ At("create") => ~MasksWrong(Selector, Prefix)
    /\ \A n \in Name : Last(pools[n]).present => MadeFrom(n, Last(pools[n]))

LEMMA MadeInit == Init => MadeInv
  <1> SUFFICES ASSUME Init PROVE MadeInv
    OBVIOUS
  <1>1. ~At("create")
    BY IdleType DEF Init, At
  <1>2. \A n \in Name : ~Last(pools[n]).present
    <2>1. NoPool \in PoolState /\ ~NoPool.present
      BY NoBlock DEF NoPool, PoolState
    <2>2. Last(<<NoPool>>) = NoPool
      BY <2>1, VersionSingle
    <2> QED
      BY <2>1, <2>2 DEF Init
  <1> QED
    BY <1>1, <1>2 DEF MadeInv

\* Informers, users and NetBox do not touch the call in progress.
LEMMA WorkerSteps ==
    ASSUME [Next]_vars
    PROVE  w' = w \/ Start \/ Step \/ CallFails \/ Crash
  <1>1. DeliverImport \/ (\E n \in Name : DeliverPool(n)) \/ CreateImport => w' = w
    BY DEF DeliverImport, DeliverPool, CreateImport
  <1>2. /\ EditSpec \/ DeleteImport => w' = w
        /\ (\E q \in Query : EditPrefixes(q)) => w' = w
        /\ (\E n \in Name : DeletePool(n)) => w' = w
    BY DEF EditSpec, DeleteImport, EditPrefixes, DeletePool, Edit
  <1>3. CASE UNCHANGED vars
    BY <1>3 DEF vars
  <1>4. CASE Next
    BY <1>1, <1>2, <1>4 DEF Next
  <1> QED
    BY <1>3, <1>4

\* The part about the worker.
LEMMA MadeWorker ==
    ASSUME TypeOK, MadeInv, [Next]_vars
    PROVE  At("create")' => ~MasksWrong(Selector, Prefix)'
  <1>0. WorkerType /\ ClusterType /\ w \in Worker
    BY TypeParts DEF WorkerType
  <1>1. CASE ReconcileIPPool
    <2>1. w.pc = "pool"
      BY <1>1 DEF ReconcileIPPool, At
    <2>2. CASE NextPrefix \/ Fail \/ w' = IdleWorker
      <3>1. w'.pc # "create"
        BY <1>0, <2>1, <2>2, NextPrefixMoves, EndMoves DEF Fail
      <3> QED
        BY <3>1 DEF At
    <2>3. CASE ~MasksWrong(Selector, Prefix) /\ w' = [w EXCEPT !.pc = "create"]
      <3>1. w'.selectors = w.selectors /\ w'.prefixes = w.prefixes
        BY <1>0, <2>3 DEF Worker
      <3> QED
        BY <2>3, <3>1 DEF Selector, Prefix
    <2> QED
      BY <1>1, <2>2, <2>3 DEF ReconcileIPPool
  <1>2. CASE w' = w
    BY <1>2 DEF MadeInv, At, Selector, Prefix
  <1>3. CASE Start \/ (Step /\ ~ReconcileIPPool)
    <2>1. w'.pc # "create"
      <3>1. CASE Start \/ GetForStatus
        <4>1. w'.pc \in {"reload", "updateStatus"} \/ w' = IdleWorker
          BY <1>0, <3>1 DEF Start, GetForStatus, Worker
        <4> QED
          BY <4>1, IdleType
      <3>2. CASE Reload
        <4>1. w.result = "none" /\ w.selectors \in Seq(AllSelectors) /\ Select(w.selectors)
          BY <1>0, <3>2 DEF Reload, At, WorkerType, Worker
        <4> QED
          BY <1>0, <4>1, SelectMoves
      <3>3. CASE ListPrefixes
        <4>1. Fail \/ w'.pc = "pool"
          BY <1>0, <3>3 DEF ListPrefixes, Worker
        <4> QED
          BY <4>1, EndMoves DEF Fail
      <3>4. CASE CreateIPPool
        BY <1>0, <3>4, NextPrefixMoves, EndMoves DEF CreateIPPool, At, Fail
      <3>5. CASE UpdateStatus
        <4>1. w'.pc = "getStatus" \/ w' = IdleWorker
          BY <1>0, <3>5 DEF UpdateStatus, Conflict, Worker
        <4> QED
          BY <4>1, IdleType
      <3> QED
        BY <1>3, <3>1, <3>2, <3>3, <3>4, <3>5 DEF Step
    <2> QED
      BY <2>1 DEF At
  <1>4. CASE CallFails \/ Crash
    <2>1. w'.pc # "create"
      BY <1>4, EndMoves DEF CallFails, Crash, Fail
    <2> QED
      BY <2>1 DEF At
  <1>5. \/ ReconcileIPPool \/ w' = w \/ Start \/ (Step /\ ~ReconcileIPPool)
        \/ CallFails \/ Crash
    BY WorkerSteps
  <1> QED
    BY <1>1, <1>2, <1>3, <1>4, <1>5

\* What happens to the pools: one is made, one is deleted, or the last versions stay.
LEMMA PoolSteps ==
    ASSUME TypeOK, [Next]_vars
    PROVE  \/ \A n \in Name : Last(pools'[n]) = Last(pools[n])
           \/ /\ CreateIPPool
              /\ At("create") /\ PoolName \in Name
              /\ Selector \in AllSelectors /\ Prefix \in AllPrefixes
              /\ StorePool(PoolName, NewIPPool(Selector, Prefix))
           \/ \E n \in Name : DeletePool(n)
  <1>0. WorkerType /\ ClusterType
    BY TypeParts
  <1>1. CASE pools' = pools
    BY <1>1
  <1>2. CASE DeliverImport \/ Crash \/ \E n \in Name : DeliverPool(n)
    BY <1>0, <1>2, VersionsDropped
  <1>3. CASE CreateIPPool /\ pools' # pools
    <2>1. /\ At("create") /\ w.selectors # <<>> /\ w.prefixes # <<>>
          /\ StorePool(PoolName, NewIPPool(Selector, Prefix))
      BY <1>0, <1>3 DEF CreateIPPool, At, WorkerType
    <2> QED
      BY <1>0, <1>3, <2>1, HeadTypes
  <1>4. \/ pools' = pools
        \/ DeliverImport \/ Crash \/ \E n \in Name : DeliverPool(n)
        \/ CreateIPPool /\ pools' # pools
        \/ \E n \in Name : DeletePool(n)
    BY DEF Next, Step, vars, Start, Reload, ListPrefixes, ReconcileIPPool, GetForStatus,
       UpdateStatus, CallFails, EditSpec, DeleteImport, CreateImport, EditPrefixes
  <1> QED
    BY <1>1, <1>2, <1>3, <1>4

LEMMA MadeNext ==
    ASSUME TypeOK, MadeInv, [Next]_vars
    PROVE  MadeInv'
  <1>0. WorkerType /\ ClusterType
    BY TypeParts
  <1>1. SUFFICES ASSUME NEW n \in Name, Last(pools'[n]).present
                 PROVE  MadeFrom(n, Last(pools'[n]))
    <2> HIDE DEF MadeFrom
    <2>1. \A n \in Name : MadeFrom(n, Last(pools[n]))' <=> MadeFrom(n, Last(pools'[n]))
      BY DEF MadeFrom
    <2> QED
      BY <2>1, MadeWorker DEF MadeInv
  <1>2. CASE Last(pools'[n]) = Last(pools[n])
    BY <1>1, <1>2 DEF MadeInv
  <1>3. CASE /\ At("create") /\ PoolName \in Name
             /\ Selector \in AllSelectors /\ Prefix \in AllPrefixes
             /\ StorePool(PoolName, NewIPPool(Selector, Prefix))
    <2>1. NewIPPool(Selector, Prefix) \in PoolState
      BY <1>3, PoolExcludes
    <2>2. CASE n = PoolName
      <3>1. Last(pools'[n]) = NewIPPool(Selector, Prefix)
        BY <1>0, <1>3, <2>1, <2>2, PoolStored
      <3> QED
        BY <1>3, <2>2, <3>1 DEF MadeFrom, MadeInv, PoolName
    <2>3. CASE n # PoolName
      BY <1>0, <1>2, <1>3, <2>1, <2>3, PoolStored
    <2> QED
      BY <2>2, <2>3
  <1>4. CASE \E m \in Name : DeletePool(m)
    <2>1. PICK m \in Name : StorePool(m, NoPool)
      BY <1>4 DEF DeletePool
    <2>2. NoPool \in PoolState /\ ~NoPool.present
      BY NoBlock DEF NoPool, PoolState
    <2>3. /\ Last(pools'[m]) = NoPool
          /\ \A x \in Name \ {m} : pools'[x] = pools[x]
      BY <1>0, <2>1, <2>2, PoolStored
    <2> QED
      BY <1>1, <1>2, <2>2, <2>3
  <1> QED
    BY <1>2, <1>3, <1>4, PoolSteps

LEMMA MadeExcludes == MadeInv => PoolsExclude
  <1> SUFFICES ASSUME MadeInv, NEW n \in Name, Last(pools[n]).present
               PROVE  \E s \in AllSelectors, p \in AllPrefixes :
                        /\ n = GenerateIPPoolName(s, p)
                        /\ Last(pools[n]).net = p.net
                        /\ Blocks(ToSet(Last(pools[n]).excluded)) = MustExclude(s, p)
                        /\ s.excludeMask # None =>
                             Block(p.net) \ Block([addr |-> p.net.addr, bits |-> s.excludeMask]) # {}
    BY DEF PoolsExclude
  <1>1. PICK s \in AllSelectors, p \in AllPrefixes :
          n = GenerateIPPoolName(s, p) /\ ~MasksWrong(s, p) /\ Last(pools[n]) = NewIPPool(s, p)
    BY DEF MadeInv, MadeFrom
  <1> DEFINE q == Last(pools[n])
  <1>2. /\ q.net = p.net
        /\ Blocks(ToSet(q.excluded)) = MustExclude(s, p)
        /\ s.excludeMask # None =>
             Block(p.net) \ Block([addr |-> p.net.addr, bits |-> s.excludeMask]) # {}
    BY <1>1, PoolExcludes
  <1> QED
    BY <1>1, <1>2

\* A pool offers the prefix it was made from and leaves out exactly what its selector
\* excludes, the last addresses included (reconcileIPPool and getLastNIPs): for
\* every width of the addresses, and whatever is edited, deleted or fails.
THEOREM PoolsSafe == Spec => []PoolsExclude
  <1> QED
    BY TypeInit, TypeNext, MadeInit, MadeNext, MadeExcludes, PTL DEF Spec

-----------------------------------------------------------------------------
(***************************************************************************)
(* What Ready promises.                                                    *)
(***************************************************************************)
Pooled(s) ==
    /\ netbox[s.query] # <<>>
    /\ \A p \in ToSet(netbox[s.query]) : Last(pools[GenerateIPPoolName(s, p)]).present

\* A cached version is as good as the current one: no import but the first, and no
\* pool that has gone again.
VersionsTrue ==
    /\ \A c \in ToSet(cr) : c.present /\ c.spec = Last(cr).spec
    /\ \A n \in Name : \A q \in ToSet(pools[n]) : q.present => Last(pools[n]).present

\* The selectors and the prefixes the loops have been through have their pools.
SelectorsDone ==
    w.pc \in {"reload", "list", "pool", "create"} =>
        \A s \in ToSet(Last(cr).spec) : s \in ToSet(w.selectors) \/ Pooled(s)

PrefixesDone ==
    w.pc \in {"pool", "create"} =>
        /\ netbox[Selector.query] # <<>>
        /\ \A p \in ToSet(netbox[Selector.query]) :
             p \in ToSet(w.prefixes) \/ Last(pools[GenerateIPPoolName(Selector, p)]).present

\* When the loops have ended the state to write, or written, is Ready.
ReadyDone ==
    w.result = "Ready" \/ Last(cr).status = "Ready" =>
        \A s \in ToSet(Last(cr).spec) : Pooled(s)

\* All of this as long as nobody edits.
ImportNow == VersionsTrue /\ SelectorsDone /\ PrefixesDone /\ ReadyDone
ImportInv == edits = 0 => ImportNow

LEMMA ImportInit == Init => ImportInv
  <1> SUFFICES ASSUME Init PROVE ImportInv
    OBVIOUS
  <1>1. w.pc = "idle" /\ w.result = "none"
    BY IdleType DEF Init
  <1>2. PICK s \in Specs :
          cr = <<[rv |-> 1, present |-> TRUE, spec |-> s, status |-> "none"]>>
    BY DEF Init
  <1> DEFINE e == [rv |-> 1, present |-> TRUE, spec |-> s, status |-> "none"]
  <1>3. e.present /\ e.spec = s /\ e.status = "none" /\ cr = <<e>>
    BY <1>2
  <1> HIDE DEF e
  <1>4. Last(cr) = e /\ ToSet(cr) = {e}
    BY <1>3, VersionSingle
  <1>5. \A n \in Name : pools[n] = <<NoPool>>
    BY DEF Init
  <1>6. ToSet(<<NoPool>>) = {NoPool} /\ ~NoPool.present
    BY VersionSingle DEF NoPool
  <1>7. VersionsTrue
    BY <1>3, <1>4, <1>5, <1>6 DEF VersionsTrue
  <1> QED
    BY <1>1, <1>3, <1>4, <1>7 DEF ImportInv, ImportNow, SelectorsDone, PrefixesDone, ReadyDone

\* What no step changes while nobody edits, and where a status comes from.
LEMMA ImportStays ==
    ASSUME TypeOK, ImportInv, [Next]_vars, edits' = 0
    PROVE  /\ ImportNow
           /\ VersionsTrue'
           /\ netbox' = netbox /\ Last(cr').spec = Last(cr).spec
           /\ \A n \in Name : Last(pools[n]).present => Last(pools'[n]).present
           /\ Last(cr').status \in {Last(cr).status, w.result}
  <1>0. WorkerType /\ ClusterType /\ BoundsType
    BY TypeParts
  <1>1. ~Edit /\ edits = 0
    <2>1. edits \in Nat
      BY <1>0, BoundAssumption DEF BoundsType
    <2>2. ~Edit
      BY <2>1 DEF Edit
    <2>3. edits' \in {edits, edits + 1}
      BY DEF Next, vars, Step, Start, Reload, ListPrefixes, ReconcileIPPool, CreateIPPool,
         GetForStatus, UpdateStatus, bounds, DeliverImport, DeliverPool, CallFails, Crash,
         EditSpec, DeleteImport, CreateImport, EditPrefixes, DeletePool, Edit
    <2> QED
      BY <2>1, <2>2, <2>3
  <1>2. ImportNow
    BY <1>1 DEF ImportInv
  <1>3. Last(cr).present /\ Last(cr) \in Import
    BY <1>0, <1>2, EndTypes DEF ImportNow, VersionsTrue
  <1>4. netbox' = netbox
    BY <1>1 DEF Next, vars, Step, Start, Reload, ListPrefixes, ReconcileIPPool, CreateIPPool,
       GetForStatus, UpdateStatus, DeliverImport, DeliverPool, CallFails, Crash,
       EditSpec, DeleteImport, CreateImport, EditPrefixes, DeletePool
  <1>5. /\ \A c \in ToSet(cr') : c.present /\ c.spec = Last(cr').spec
        /\ Last(cr').spec = Last(cr).spec
        /\ Last(cr').status \in {Last(cr).status, w.result}
    <2>1. CASE cr' = cr
      BY <1>2, <2>1 DEF ImportNow, VersionsTrue
    <2>2. CASE DeliverImport \/ Crash
      <3>1. Last(cr') = Last(cr) /\ ToSet(cr') \subseteq ToSet(cr)
        BY <1>0, <2>2, VersionsDropped
      <3> QED
        BY <1>2, <3>1 DEF ImportNow, VersionsTrue
    <2>3. CASE UpdateStatus /\ cr' # cr
      <3>1. /\ StoreImport([Last(cr) EXCEPT !.status = w.result])
            /\ w.result \in {"Ready", "Error"}
        BY <1>0, <2>3 DEF UpdateStatus, At, WorkerType
      <3> DEFINE v == [Last(cr) EXCEPT !.status = w.result]
      <3>2. v \in Import /\ v.present /\ v.spec = Last(cr).spec /\ v.status = w.result
        BY <1>3, <3>1 DEF Import
      <3> HIDE DEF v
      <3>3. StoreImport(v)
        BY <3>1 DEF v
      <3>4. /\ ToSet(cr') = ToSet(cr) \cup {Last(cr')}
            /\ Last(cr').present /\ Last(cr').spec = Last(cr).spec
            /\ Last(cr').status = w.result
        BY <1>0, <3>2, <3>3, ImportStored
      <3> QED
        BY <1>2, <3>4 DEF ImportNow, VersionsTrue
    <2>4. \/ cr' = cr \/ DeliverImport \/ Crash
          \/ UpdateStatus /\ cr' # cr
      BY <1>1, <1>3 DEF Next, vars, Step, Start, Reload, ListPrefixes, ReconcileIPPool,
         CreateIPPool, GetForStatus, DeliverPool, CallFails, EditSpec, DeleteImport,
         CreateImport, EditPrefixes, DeletePool
    <2> QED
      BY <2>1, <2>2, <2>3, <2>4
  <1>6. /\ \A n \in Name : Last(pools[n]).present => Last(pools'[n]).present
        /\ \A n \in Name : \A q \in ToSet(pools'[n]) : q.present => Last(pools'[n]).present
    <2>1. CASE pools' = pools
      BY <1>2, <2>1 DEF ImportNow, VersionsTrue
    <2>2. CASE Crash \/ \E n \in Name : DeliverPool(n)
      <3>1. \A n \in Name : /\ Last(pools'[n]) = Last(pools[n])
                            /\ ToSet(pools'[n]) \subseteq ToSet(pools[n])
        BY <1>0, <2>2, VersionsDropped
      <3> QED
        BY <1>2, <3>1 DEF ImportNow, VersionsTrue
    <2>3. CASE CreateIPPool /\ pools' # pools
      <3>1. /\ w.selectors # <<>> /\ w.prefixes # <<>>
            /\ StorePool(PoolName, NewIPPool(Selector, Prefix))
        BY <1>0, <2>3 DEF CreateIPPool, At, WorkerType
      <3>2. /\ PoolName \in Name /\ NewIPPool(Selector, Prefix) \in PoolState
            /\ NewIPPool(Selector, Prefix).present
        BY <1>0, <3>1, HeadTypes, PoolExcludes
      <3>3. /\ Last(pools'[PoolName]).present
            /\ \A n \in Name \ {PoolName} : pools'[n] = pools[n]
        BY <1>0, <3>1, <3>2, PoolStored
      <3> QED
        BY <1>2, <3>3 DEF ImportNow, VersionsTrue
    <2>4. \/ pools' = pools \/ Crash \/ \E n \in Name : DeliverPool(n)
          \/ CreateIPPool /\ pools' # pools
      BY <1>1, <1>3 DEF Next, vars, Step, Start, Reload, ListPrefixes, ReconcileIPPool,
         GetForStatus, UpdateStatus, DeliverImport, CallFails, EditSpec, DeleteImport,
         CreateImport, EditPrefixes, DeletePool
    <2> QED
      BY <2>1, <2>2, <2>3, <2>4
  <1> QED
    BY <1>2, <1>4, <1>5, <1>6 DEF VersionsTrue

\* So a selector keeps its pools.
LEMMA PooledStays ==
    ASSUME TypeOK, ImportInv, [Next]_vars, edits' = 0
    PROVE  /\ \A s \in AllSelectors, p \in AllPrefixes :
                Last(pools[GenerateIPPoolName(s, p)]).present =>
                    Last(pools'[GenerateIPPoolName(s, p)]).present
           /\ \A s \in AllSelectors : Pooled(s) => Pooled(s)'
           /\ \A s \in AllSelectors : ToSet(netbox[s.query]) \subseteq AllPrefixes
           /\ ToSet(Last(cr).spec) \subseteq AllSelectors
  <1>1. /\ netbox' = netbox
        /\ \A n \in Name : Last(pools[n]).present => Last(pools'[n]).present
    BY ImportStays
  <1>2. \A s \in AllSelectors, p \in AllPrefixes :
          Last(pools[GenerateIPPoolName(s, p)]).present =>
              Last(pools'[GenerateIPPoolName(s, p)]).present
    BY <1>1, DataTypes
  <1>3. \A s \in AllSelectors : netbox[s.query] \in Lists
    BY TypeParts, DataTypes DEF ClusterType
  <1>4. \A s \in AllSelectors : ToSet(netbox[s.query]) \subseteq AllPrefixes
    BY <1>3, DataTypes
  <1>5. ASSUME NEW s \in AllSelectors, Pooled(s)
        PROVE  Pooled(s)'
    BY <1>1, <1>2, <1>4, <1>5 DEF Pooled
  <1>6. ToSet(Last(cr).spec) \subseteq AllSelectors
    BY TypeParts, EndTypes, DataTypes DEF Import
  <1> QED
    BY <1>2, <1>4, <1>5, <1>6

\* The sequence of a loop is its head and the rest.
LEMMA HeadAndTail ==
    ASSUME NEW S, NEW s \in Seq(S) \ {<<>>}
    PROVE  /\ ToSet(s) \subseteq {Head(s)} \cup ToSet(Tail(s))
           /\ Tail(s) = <<>> => ToSet(s) \subseteq {Head(s)}
           /\ ~(Len(s) > 1) => ToSet(s) \subseteq {Head(s)}
  <1>1. ToSet(s) \subseteq {Head(s)} \cup ToSet(Tail(s))
    <2>1. CASE Len(s) > 1
      BY <2>1, VersionTail
    <2>2. CASE ~(Len(s) > 1)
      BY <2>2, VersionLast
    <2> QED
      BY <2>1, <2>2
  <1>2. ToSet(<<>>) = {}
    BY DEF ToSet
  <1>3. ~(Len(s) > 1) => ToSet(s) \subseteq {Head(s)}
    BY VersionLast
  <1> QED
    BY <1>1, <1>2, <1>3

LEMMA ImportNext ==
    ASSUME TypeOK, ImportInv, [Next]_vars
    PROVE  ImportInv'
  <1> SUFFICES ASSUME edits' = 0 PROVE SelectorsDone' /\ PrefixesDone' /\ ReadyDone'
    BY ImportStays DEF ImportInv, ImportNow
  <1> DEFINE All == ToSet(Last(cr).spec)
             OldReady == Last(cr').status = "Ready" => \A s \in All : Pooled(s)'
  <1>0. WorkerType /\ ClusterType /\ w \in Worker
    BY TypeParts DEF WorkerType
  <1>1. /\ ImportNow /\ netbox' = netbox /\ Last(cr').spec = Last(cr).spec
        /\ VersionsTrue /\ SelectorsDone /\ PrefixesDone /\ ReadyDone
    BY ImportStays DEF ImportNow
  <1>2. All \subseteq AllSelectors /\ \A s \in AllSelectors : Pooled(s) => Pooled(s)'
    BY PooledStays
  <1>3. OldReady
    <2>1. Last(cr').status = "Ready" => w.result = "Ready" \/ Last(cr).status = "Ready"
      BY ImportStays
    <2> QED
      BY <1>1, <1>2, <2>1 DEF ReadyDone
  <1>4. ToSet(<<>>) = {}
    BY DEF ToSet
  <1> HIDE DEF OldReady
  \* The ways the call goes on.
  <1>5. ASSUME w'.pc \in {"idle", "getStatus", "updateStatus"},
               w'.result = "Ready" => \A s \in All : Pooled(s)'
        PROVE  SelectorsDone' /\ PrefixesDone' /\ ReadyDone'
    BY <1>1, <1>3, <1>5 DEF SelectorsDone, PrefixesDone, ReadyDone, OldReady
  <1>6. ASSUME w'.pc \in {"reload", "list"}, w'.result = "none",
               \A s \in All : s \in ToSet(w'.selectors) \/ Pooled(s)'
        PROVE  SelectorsDone' /\ PrefixesDone' /\ ReadyDone'
    BY <1>1, <1>3, <1>6 DEF SelectorsDone, PrefixesDone, ReadyDone, OldReady
  <1>7. ASSUME w'.pc \in {"pool", "create"}, w'.result = "none", w'.selectors = w.selectors,
               w.pc \in {"list", "pool", "create"},
               netbox[Selector.query] # <<>>,
               \A p \in ToSet(netbox[Selector.query]) :
                 \/ p \in ToSet(w'.prefixes)
                 \/ Last(pools'[GenerateIPPoolName(Selector, p)]).present
        PROVE  SelectorsDone' /\ PrefixesDone' /\ ReadyDone'
    <2>1. Selector' = Selector
      BY <1>7 DEF Selector
    <2>2. SelectorsDone'
      BY <1>1, <1>2, <1>7 DEF SelectorsDone
    <2>3. PrefixesDone'
      BY <1>1, <1>7, <2>1 DEF PrefixesDone
    <2>4. ReadyDone'
      BY <1>1, <1>3, <1>7 DEF ReadyDone, OldReady
    <2> QED
      BY <2>2, <2>3, <2>4
  <1>8. w' = IdleWorker => SelectorsDone' /\ PrefixesDone' /\ ReadyDone'
    BY <1>5, IdleType
  <1>9. Fail => SelectorsDone' /\ PrefixesDone' /\ ReadyDone'
    BY <1>5, EndMoves DEF Fail
  \* The loops go on to selectors s, with those before done.
  <1>10. ASSUME NEW s \in Seq(AllSelectors), Select(s), w.result = "none",
                \A x \in All : x \in ToSet(s) \/ Pooled(x)'
         PROVE  SelectorsDone' /\ PrefixesDone' /\ ReadyDone'
    <2>1. \/ s = <<>> /\ w'.pc = "getStatus" /\ w'.result = "Ready"
          \/ s # <<>> /\ w'.pc = "list" /\ w'.selectors = s /\ w'.result = "none"
      BY <1>0, <1>10, SelectMoves
    <2> QED
      BY <1>4, <1>5, <1>6, <1>10, <2>1
  \* The pool of the prefix is there.
  <1>11. ASSUME w.pc \in {"pool", "create"}, NextPrefix, Last(pools'[PoolName]).present
         PROVE  SelectorsDone' /\ PrefixesDone' /\ ReadyDone'
    <2>1. /\ w.result = "none" /\ w.selectors # <<>> /\ w.prefixes # <<>>
          /\ w.selectors \in Seq(AllSelectors) /\ w.prefixes \in Seq(AllPrefixes)
      BY <1>0, <1>11 DEF WorkerType, Worker
    <2>2. /\ Selector \in AllSelectors /\ Tail(w.selectors) \in Seq(AllSelectors)
          /\ ToSet(w.selectors) \subseteq {Selector} \cup ToSet(Tail(w.selectors))
          /\ Tail(w.selectors) = <<>> => ToSet(w.selectors) \subseteq {Selector}
      BY <1>0, <2>1, HeadTypes, HeadAndTail DEF Selector
    <2>3. /\ ToSet(w.prefixes) \subseteq {Prefix} \cup ToSet(Tail(w.prefixes))
          /\ ~(Len(w.prefixes) > 1) => ToSet(w.prefixes) \subseteq {Prefix}
      BY <2>1, HeadAndTail DEF Prefix
    <2>4. /\ netbox[Selector.query] # <<>>
          /\ \A p \in ToSet(netbox[Selector.query]) :
               \/ p \in ToSet(w.prefixes)
               \/ Last(pools'[GenerateIPPoolName(Selector, p)]).present
      BY <1>1, <1>11, <2>2, PooledStays DEF PrefixesDone
    <2>5. CASE Len(w.prefixes) > 1
      <3>1. /\ w'.pc = "pool" /\ w'.prefixes = Tail(w.prefixes)
            /\ w'.selectors = w.selectors /\ w'.result = "none"
        BY <1>0, <1>11, <2>5, NextPrefixMoves
      <3>2. \A p \in ToSet(netbox[Selector.query]) :
              \/ p \in ToSet(w'.prefixes)
              \/ Last(pools'[GenerateIPPoolName(Selector, p)]).present
        BY <1>11, <2>3, <2>4, <3>1 DEF PoolName
      <3> QED
        BY <1>7, <1>11, <2>4, <3>1, <3>2
    <2>6. CASE ~(Len(w.prefixes) > 1)
      <3>1. Select(Tail(w.selectors))
        BY <1>11, <2>6 DEF NextPrefix
      <3>2. \A p \in ToSet(netbox[Selector.query]) :
              Last(pools'[GenerateIPPoolName(Selector, p)]).present
        BY <1>11, <2>3, <2>4, <2>6 DEF PoolName
      <3>3. ASSUME NEW x, x = Selector PROVE Pooled(x)'
        BY <1>1, <2>4, <3>2, <3>3 DEF Pooled
      <3>4. \A x \in All : x \in ToSet(Tail(w.selectors)) \/ Pooled(x)'
        BY <1>1, <1>2, <1>11, <2>2, <3>3 DEF SelectorsDone
      <3> QED
        BY <1>10, <2>1, <2>2, <3>1, <3>4
    <2> QED
      BY <2>5, <2>6
  \* The steps.
  <1>12. CASE w' = w
    <2>1. CASE w.pc \in {"reload", "list"}
      <3>1. w.result = "none"
        BY <1>0, <2>1 DEF WorkerType, Worker
      <3> QED
        BY <1>1, <1>2, <1>6, <1>12, <2>1, <3>1 DEF SelectorsDone
    <2>2. CASE w.pc \in {"pool", "create"}
      <3>1. w.result = "none" /\ w.selectors # <<>>
        BY <1>0, <2>2 DEF WorkerType, Worker
      <3>2. Selector \in AllSelectors
        BY <1>0, <3>1, HeadTypes
      <3> QED
        BY <1>1, <1>7, <1>12, <2>2, <3>1, <3>2, PooledStays DEF PrefixesDone
    <2>3. CASE w.pc \in {"idle", "getStatus", "updateStatus"}
      BY <1>1, <1>2, <1>5, <1>12, <2>3 DEF ReadyDone
    <2> QED
      BY <1>0, <2>1, <2>2, <2>3 DEF Worker, PC
  <1>13. CASE Start
    <2>1. CASE Head(cr).present
      <3>1. w' = [w EXCEPT !.pc = "reload", !.selectors = Head(cr).spec] /\ w.pc = "idle"
        BY <1>13, <2>1 DEF Start, At
      <3>2. Head(cr).spec = Last(cr).spec
        BY <1>0, <1>1, EndTypes DEF VersionsTrue
      <3>3. w'.pc = "reload" /\ w'.selectors = Last(cr).spec /\ w'.result = "none"
        BY <1>0, <3>1, <3>2 DEF WorkerType, Worker
      <3> QED
        BY <1>6, <3>3
    <2>2. CASE ~Head(cr).present
      BY <1>8, <1>13, <2>2 DEF Start
    <2> QED
      BY <2>1, <2>2
  <1>14. CASE Reload
    <2>1. /\ w.pc = "reload" /\ w.result = "none" /\ w.selectors \in Seq(AllSelectors)
          /\ Select(w.selectors)
      BY <1>0, <1>14 DEF Reload, At, WorkerType, Worker
    <2>2. \A x \in All : x \in ToSet(w.selectors) \/ Pooled(x)'
      BY <1>1, <1>2, <2>1 DEF SelectorsDone
    <2> QED
      BY <1>10, <2>1, <2>2
  <1>15. CASE ListPrefixes
    <2>1. CASE netbox[Selector.query] # <<>>
      <3>1. w' = [w EXCEPT !.pc = "pool", !.prefixes = netbox[Selector.query]] /\ w.pc = "list"
        BY <1>15, <2>1 DEF ListPrefixes, At
      <3>2. /\ w'.pc = "pool" /\ w'.prefixes = netbox[Selector.query]
            /\ w'.selectors = w.selectors /\ w'.result = "none"
        BY <1>0, <3>1 DEF WorkerType, Worker
      <3> QED
        BY <1>7, <2>1, <3>1, <3>2
    <2>2. CASE netbox[Selector.query] = <<>>
      BY <1>9, <1>15, <2>2 DEF ListPrefixes
    <2> QED
      BY <2>1, <2>2
  <1>16. CASE ReconcileIPPool
    <2>1. w.pc = "pool" /\ w.result = "none" /\ w.selectors # <<>> /\ w.prefixes # <<>>
      BY <1>0, <1>16 DEF ReconcileIPPool, At, WorkerType, Worker
    <2>2. Selector \in AllSelectors /\ Prefix \in AllPrefixes /\ PoolName \in Name
      BY <1>0, <2>1, HeadTypes
    <2>3. CASE Head(pools[PoolName]).present
      <3>1. Last(pools[PoolName]).present
        BY <1>0, <1>1, <2>2, <2>3, EndTypes DEF VersionsTrue
      <3>2. Last(pools'[PoolName]).present /\ NextPrefix
        BY <1>16, <2>2, <2>3, <3>1, PooledStays DEF ReconcileIPPool, PoolName
      <3> QED
        BY <1>11, <2>1, <3>2
    <2>4. CASE w' = [w EXCEPT !.pc = "create"]
      <3>1. /\ w'.pc = "create" /\ w'.prefixes = w.prefixes
            /\ w'.selectors = w.selectors /\ w'.result = "none"
        BY <1>0, <2>1, <2>4 DEF Worker
      <3> QED
        BY <1>1, <1>7, <2>1, <2>2, <3>1, PooledStays DEF PrefixesDone
    <2> QED
      BY <1>8, <1>9, <1>16, <2>3, <2>4 DEF ReconcileIPPool
  <1>17. CASE CreateIPPool
    <2>1. CASE Fail
      BY <1>9, <2>1
    <2>2. CASE StorePool(PoolName, NewIPPool(Selector, Prefix)) /\ NextPrefix
      <3>1. w.pc = "create" /\ w.selectors # <<>> /\ w.prefixes # <<>>
        BY <1>0, <1>17 DEF CreateIPPool, At, WorkerType
      <3>2. /\ Selector \in AllSelectors /\ Prefix \in AllPrefixes /\ PoolName \in Name
        BY <1>0, <3>1, HeadTypes
      <3>3. NewIPPool(Selector, Prefix) \in PoolState /\ NewIPPool(Selector, Prefix).present
        BY <3>2, PoolExcludes
      <3>4. Last(pools'[PoolName]).present
        BY <1>0, <2>2, <3>2, <3>3, PoolStored
      <3> QED
        BY <1>11, <2>2, <3>1, <3>4
    <2> QED
      BY <1>17, <2>1, <2>2 DEF CreateIPPool
  <1>18. CASE GetForStatus
    <2>1. CASE w' = [w EXCEPT !.pc = "updateStatus", !.rv = Head(cr).rv]
      <3>1. w'.pc = "updateStatus" /\ w'.result = w.result
        BY <1>0, <2>1 DEF Worker
      <3> QED
        BY <1>1, <1>2, <1>5, <3>1 DEF ReadyDone
    <2> QED
      BY <1>8, <1>18, <2>1 DEF GetForStatus
  <1>19. CASE UpdateStatus
    <2>1. CASE w' = [w EXCEPT !.pc = "getStatus", !.tries = w.tries + 1]
      <3>1. w'.pc = "getStatus" /\ w'.result = w.result
        BY <1>0, <2>1 DEF Worker
      <3> QED
        BY <1>1, <1>2, <1>5, <3>1 DEF ReadyDone
    <2>2. w' = IdleWorker \/ w' = [w EXCEPT !.pc = "getStatus", !.tries = w.tries + 1]
      BY <1>19 DEF UpdateStatus, Conflict
    <2> QED
      BY <1>8, <2>1, <2>2
  <1>20. CASE CallFails \/ Crash
    BY <1>8, <1>9, <1>20 DEF CallFails, Crash
  <1>21. \/ w' = w \/ Start \/ Step \/ CallFails \/ Crash
    BY WorkerSteps
  <1> QED
    BY <1>12, <1>13, <1>14, <1>15, <1>16, <1>17, <1>18, <1>19, <1>20, <1>21 DEF Step

LEMMA ImportReady == TypeOK /\ ImportInv => ReadyMeansPooled
  BY DEF ImportInv, ImportNow, ReadyDone, Pooled, ReadyMeansPooled

\* A Ready IPPoolImport is no empty promise (the nested loops of Reconcile and the
\* status of the status handler): while nobody edits, every selector has prefixes
\* and every prefix has its pool, although the caches lag and calls fail.
THEOREM ReadySafe == Spec => []ReadyMeansPooled
  <1> QED
    BY TypeInit, TypeNext, ImportInit, ImportNext, ImportReady, PTL DEF Spec
=============================================================================
