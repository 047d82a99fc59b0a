---------------------------- MODULE SequenceFacts ----------------------------
(***************************************************************************)
(* Facts about numbers and sequences that the proofs of this project share. *)
(* They are derived from the theorems of the library.                      *)
(***************************************************************************)
EXTENDS Integers, Sequences, FiniteSetTheorems, SequenceTheorems, TLAPS

-----------------------------------------------------------------------------
(***************************************************************************)
(* A set of natural numbers has a least element, and a bounded one has a   *)
(* greatest.  The modules use CHOOSE for the first or last position with   *)
(* some property; these facts say that there is one to choose.  They are   *)
(* derived from the well-foundedness of strict inclusion of finite sets.   *)
(***************************************************************************)
\* A non-empty set of natural numbers has a least element: uniqueAnchorName finds the
\* first suffix that is free.
LEMMA LeastNatural ==
  ASSUME NEW T, T \subseteq Nat, T # {}
  PROVE  \E m \in T : \A n \in T : m <= n
<1>. DEFINE F == {1..n : n \in T}
            R == StrictSubsetOrdering(Nat)
<1>1. F \subseteq FiniteSubsetsOf(Nat)
  BY FS_Interval DEF FiniteSubsetsOf
<1>2. PICK X \in F : \A Y \in F : ~(<<Y, X>> \in R)
  <2>1. F # {}
    OBVIOUS
  <2>2. IsWellFoundedOn(R, FiniteSubsetsOf(Nat))
    BY FS_StrictSubsetOrderingWellFounded
  <2>. HIDE DEF F, R
  <2>. QED
    BY <1>1, <2>1, <2>2, WFMin
<1>3. PICK m \in T : X = 1..m
  BY <1>2
<1>4. ASSUME NEW n \in T PROVE m <= n
  <2>1. ~(<<1..n, 1..m>> \in R)
    BY <1>2, <1>3
  <2>2. CASE n < m
    <3>1. 1..n \subseteq 1..m /\ m \in 1..m /\ m \notin 1..n
      BY <2>2
    <3>. QED
      BY <3>1, <2>1 DEF StrictSubsetOrdering
  <2>. QED
    BY <2>2
<1>. QED
  BY <1>4

\* A non-empty set of natural numbers up to N has a greatest element: stateBeginLine
\* stops popping at the innermost frame that keeps the line.
LEMMA GreatestNatural ==
  ASSUME NEW N \in Nat, NEW T, T \subseteq 0..N, T # {}
  PROVE  \E m \in T : \A n \in T : n <= m
<1>. DEFINE U == {N - n : n \in T}
<1>1. U \subseteq Nat /\ U # {}
  <2>1. \A n \in T : N - n \in Nat
    OBVIOUS
  <2>2. PICK n \in T : TRUE
    OBVIOUS
  <2>. QED
    BY <2>1, <2>2
<1>2. PICK u \in U : \A v \in U : u <= v
  <2>. HIDE DEF U
  <2>. QED
    BY <1>1, LeastNatural
<1>3. PICK m \in T : u = N - m
  BY <1>2
<1>4. ASSUME NEW n \in T PROVE n <= m
  <2>1. N - n \in U
    OBVIOUS
  <2>2. u <= N - n
    BY <1>2, <2>1
  <2>. QED
    BY <1>3, <2>2
<1>. QED
  BY <1>4

-----------------------------------------------------------------------------
(***************************************************************************)
(* What the stacks of this project do: a stack is a sequence, and a step   *)
(* takes its top off, replaces it, or replaces it and pushes another       *)
(* frame.  The lemmas say where each frame of the old stack is afterwards. *)
(***************************************************************************)
\* A stack without its top
LEMMA PopOff ==
  ASSUME NEW S, NEW s \in Seq(S), s # <<>>
  PROVE  LET b == SubSeq(s, 1, Len(s) - 1)
         IN  /\ b \in Seq(S) /\ Len(b) = Len(s) - 1 /\ Len(b) \in Nat
             /\ \A i \in 1..(Len(s) - 1) : b[i] = s[i]
             /\ s[Len(s)] \in S
<1>1. Len(s) \in Nat /\ Len(s) >= 1
  OBVIOUS
<1>2. PICK n \in Nat : n = Len(s) - 1
  BY <1>1
<1>3. SubSeq(s, 1, n) \in Seq(S)
  BY <1>1, <1>2
<1>4. Len(SubSeq(s, 1, n)) = n
  BY <1>1, <1>2
<1>5. \A i \in 1..n : SubSeq(s, 1, n)[i] = s[i]
  BY <1>1, <1>2
<1>6. s[Len(s)] \in S
  BY <1>1
<1>. QED
  BY <1>1, <1>2, <1>3, <1>4, <1>5, <1>6

\* A stack with its top replaced
LEMMA ReplaceTop ==
  ASSUME NEW S, NEW s \in Seq(S), s # <<>>, NEW f \in S
  PROVE  LET r == Append(SubSeq(s, 1, Len(s) - 1), f)
         IN  /\ r \in Seq(S) /\ Len(r) = Len(s) /\ r # <<>>
             /\ \A i \in 1..(Len(s) - 1) : r[i] = s[i]
             /\ r[Len(s)] = f
<1>. DEFINE b == SubSeq(s, 1, Len(s) - 1)
<1>1. /\ b \in Seq(S) /\ Len(b) = Len(s) - 1 /\ Len(b) \in Nat
      /\ \A i \in 1..(Len(s) - 1) : b[i] = s[i]
  BY PopOff
<1>. HIDE DEF b
<1>2. /\ Append(b, f) \in Seq(S) /\ Append(b, f) # <<>>
      /\ Len(Append(b, f)) = Len(b) + 1
      /\ \A i \in 1..Len(b) : Append(b, f)[i] = b[i]
      /\ Append(b, f)[Len(b) + 1] = f
  BY <1>1, AppendProperties
<1>3. Len(b) + 1 = Len(s) /\ Len(s) \in Nat
  BY <1>1
<1>. QED
  BY <1>1, <1>2, <1>3 DEF b

\* Two frames pushed on a stack
LEMMA PushTwo ==
  ASSUME NEW S, NEW b \in Seq(S), NEW f \in S, NEW g \in S
  PROVE  LET r == b \o <<f, g>>
         IN  /\ r \in Seq(S) /\ Len(r) = Len(b) + 2 /\ r # <<>>
             /\ \A i \in 1..Len(b) : r[i] = b[i]
             /\ r[Len(b) + 1] = f /\ r[Len(b) + 2] = g
<1>1. /\ <<f, g>> \in Seq(S) /\ Len(<<f, g>>) = 2
      /\ <<f, g>>[1] = f /\ <<f, g>>[2] = g
  OBVIOUS
<1>2. Len(b) \in Nat
  OBVIOUS
<1>3. b \o <<f, g>> \in Seq(S) /\ Len(b \o <<f, g>>) = Len(b) + 2
  BY <1>1
<1>4. \A i \in 1..Len(b) : (b \o <<f, g>>)[i] = b[i]
  BY <1>1
<1>5. (b \o <<f, g>>)[Len(b) + 1] = f
  BY <1>1, <1>2, ConcatProperties
<1>6. (b \o <<f, g>>)[Len(b) + 2] = g
  BY <1>1, <1>2, ConcatProperties
<1>. QED
  BY <1>2, <1>3, <1>4, <1>5, <1>6
=============================================================================
