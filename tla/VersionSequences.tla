-------------------------- MODULE VersionSequences --------------------------
(***************************************************************************)
(* Lemmas about the sequences the models are made of: the versions of an   *)
(* object that the API server has made and the cache has yet to see, of    *)
(* which a Get reads the first and a write appends to the last; and the    *)
(* devices a loop has left.                                                *)
(***************************************************************************)
EXTENDS Integers, Sequences, SequencesExt, SequenceTheorems, TLAPS

\* The first and the last are of them.
LEMMA VersionEnds ==
    ASSUME NEW S, NEW s \in Seq(S) \ {<<>>}
    PROVE  /\ Last(s) \in S /\ Last(s) \in ToSet(s)
           /\ Head(s) \in S /\ Head(s) \in ToSet(s)
           /\ ToSet(s) \in SUBSET S
  <1>1. /\ DOMAIN s = 1..Len(s) /\ Len(s) \in Nat \ {0} /\ Head(s) = s[1]
        /\ \A i \in 1..Len(s) : s[i] \in S
    OBVIOUS
  <1> QED
    BY <1>1 DEF Last, ToSet

\* A write adds one, ...
LEMMA VersionAppend ==
    ASSUME NEW S, NEW s \in Seq(S), NEW e \in S
    PROVE  /\ Append(s, e) \in Seq(S) \ {<<>>}
           /\ Last(Append(s, e)) = e
           /\ ToSet(Append(s, e)) = ToSet(s) \cup {e}
  <1>1. /\ Len(s) \in Nat /\ DOMAIN s = 1..Len(s)
        /\ Append(s, e) \in Seq(S) /\ Len(Append(s, e)) = Len(s) + 1
        /\ DOMAIN Append(s, e) = 1..(Len(s) + 1)
        /\ \A i \in 1..Len(s) : Append(s, e)[i] = s[i]
        /\ Append(s, e)[Len(s) + 1] = e
    OBVIOUS
  <1>2. \A i \in DOMAIN Append(s, e) : i \in 1..Len(s) \/ i = Len(s) + 1
    BY <1>1
  <1>3. 1..Len(s) \subseteq DOMAIN Append(s, e) /\ Len(s) + 1 \in DOMAIN Append(s, e)
    BY <1>1
  <1>4. ToSet(Append(s, e)) = ToSet(s) \cup {e}
    BY <1>1, <1>2, <1>3 DEF ToSet
  <1> QED
    BY <1>1, <1>4 DEF Last

\* ... and the informer takes the first away, ...
LEMMA VersionTail ==
    ASSUME NEW S, NEW s \in Seq(S), Len(s) > 1
    PROVE  /\ Tail(s) \in Seq(S) \ {<<>>}
           /\ Last(Tail(s)) = Last(s)
           /\ ToSet(s) = {Head(s)} \cup ToSet(Tail(s))
  <1>1. s # <<>> /\ Len(s) \in Nat /\ DOMAIN s = 1..Len(s) /\ Head(s) = s[1]
    BY LenProperties
  <1>2. /\ Tail(s) \in Seq(S) /\ Len(Tail(s)) = Len(s) - 1
        /\ DOMAIN Tail(s) = 1..(Len(s) - 1)
        /\ \A i \in 1..(Len(s) - 1) : Tail(s)[i] = s[i + 1]
    BY <1>1, HeadTailProperties, LenProperties
  <1>3. Tail(s) # <<>>
    <2>1. Len(<<>>) = 0 /\ Len(Tail(s)) # 0
      BY <1>1, <1>2
    <2> QED
      BY <2>1
  <1>4. Last(Tail(s)) = Last(s)
    BY <1>1, <1>2 DEF Last
  <1>5. \A i \in DOMAIN s : i = 1 \/ (i - 1 \in DOMAIN Tail(s) /\ Tail(s)[i - 1] = s[i])
    BY <1>1, <1>2
  <1>6. \A i \in DOMAIN Tail(s) : i + 1 \in DOMAIN s /\ s[i + 1] = Tail(s)[i]
    BY <1>1, <1>2
  <1>7. 1 \in DOMAIN s
    BY <1>1
  <1>8. ToSet(s) \subseteq {Head(s)} \cup ToSet(Tail(s))
    BY <1>1, <1>5 DEF ToSet
  <1>9. {Head(s)} \cup ToSet(Tail(s)) \subseteq ToSet(s)
    BY <1>1, <1>6, <1>7 DEF ToSet
  <1> QED
    BY <1>2, <1>3, <1>4, <1>8, <1>9

\* ... unless it is the only one.
LEMMA VersionLast ==
    ASSUME NEW S, NEW s \in Seq(S) \ {<<>>}, ~(Len(s) > 1)
    PROVE  ToSet(s) \subseteq {Head(s)} /\ ToSet(Tail(s)) = {}
  <1>1. Len(s) \in Nat \ {0} /\ DOMAIN s = 1..Len(s) /\ Head(s) = s[1]
    OBVIOUS
  <1>2. Len(s) = 1
    BY <1>1
  <1>3. Tail(s) \in Seq(S) /\ Len(Tail(s)) = 0
    BY <1>2, HeadTailProperties
  <1>4. Tail(s) = <<>>
    BY <1>3, EmptySeq
  <1> QED
    BY <1>1, <1>2, <1>4 DEF ToSet

\* After a restart there is one.
LEMMA VersionSingle ==
    ASSUME NEW S, NEW e \in S
    PROVE  /\ <<e>> \in Seq(S) \ {<<>>} /\ Last(<<e>>) = e /\ ToSet(<<e>>) = {e}
  BY DEF Last, ToSet

\* The rest of a loop over different devices does not come back to the first.
LEMMA TailInjective ==
    ASSUME NEW S, NEW s \in Seq(S), Len(s) > 1, IsInjective(s)
    PROVE  IsInjective(Tail(s)) /\ Head(s) \notin ToSet(Tail(s))
  <1>1. s # <<>> /\ Len(s) \in Nat /\ DOMAIN s = 1..Len(s) /\ Head(s) = s[1]
    BY LenProperties
  <1>2. /\ Len(Tail(s)) = Len(s) - 1
        /\ DOMAIN Tail(s) = 1..(Len(s) - 1)
        /\ \A i \in 1..(Len(s) - 1) : Tail(s)[i] = s[i + 1]
    BY <1>1, HeadTailProperties, LenProperties
  <1>3. \A i, j \in 1..Len(s) : s[i] = s[j] => i = j
    BY <1>1 DEF IsInjective
  <1>4. \A i \in 1..(Len(s) - 1) : i + 1 \in 1..Len(s) /\ i + 1 # 1 /\ 1 \in 1..Len(s)
    BY <1>1
  <1>5. \A i, j \in 1..(Len(s) - 1) : i + 1 = j + 1 => i = j
    BY <1>1
  <1> QED
    BY <1>1, <1>2, <1>3, <1>4, <1>5 DEF IsInjective, ToSet
=============================================================================
