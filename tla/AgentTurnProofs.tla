--------------------------- MODULE AgentTurnProofs ---------------------------
(***************************************************************************)
(* Proofs about a conversation with the agent, for every conversation,     *)
(* every content of Feishu and every limit: the calls of a live read are   *)
(* within the scopes of the token they are made with, every tool and       *)
(* reference is answered for, a summary shown in full and without a note   *)
(* is complete, and a reply left without an error is the whole answer.     *)
(*                                                                         *)
(* The inductive invariants are ReadInv and TurnShape (what a read holds), *)
(* and, each for one theorem more, AnswersGiven (the accounting of         *)
(* statuses), Says (where a shown summary comes from), Told (what the      *)
(* model and the client are told of the reads) and StreamInv (what is on   *)
(* its way to the client).  The rest are facts about sublists, ranks and   *)
(* lists that the model's definitions are made of.                         *)
(***************************************************************************)
EXTENDS AgentTurn, FiniteSetTheorems, SequenceTheorems, WellFoundedInduction, TLAPS

-----------------------------------------------------------------------------
(* Sublists *)

(* A set of numbers that is not empty has a least one.                     *)
LEMMA LeastOf ==
    ASSUME NEW S \in SUBSET Nat, S # {}
    PROVE  \E x \in S : \A y \in S : x <= y
<1> DEFINE Less == {ss \in Nat \X Nat : ss[1] < ss[2]}
<1>1. IsWellFoundedOn(Less, Nat)
  BY NatLessThanWellFounded DEF OpToRel
<1>2. \E x \in S : \A y \in S : ~ (<<y, x>> \in Less)
  <2> HIDE DEF Less
  <2> QED  BY <1>1, WFMin
<1>3. PICK x \in S : \A y \in S : ~ (<<y, x>> \in Less)
  BY <1>2
<1>4. ASSUME NEW y \in S PROVE x <= y
  <2>1. x \in Nat /\ y \in Nat  OBVIOUS
  <2>2. ~ (y < x)
    BY <1>3, <2>1
  <2> QED  BY <2>1, <2>2
<1> QED  BY <1>4

(* How many places of S come no later than n.                              *)
Rank(S, n) == Cardinality({m \in S : m <= n})

(* Places of a sequence are finite in number, and so are those up to one.  *)
LEMMA PlacesFinite ==
    ASSUME NEW n \in Nat, NEW S \in SUBSET (1 .. n)
    PROVE  /\ IsFiniteSet(S) /\ Cardinality(S) \in Nat
           /\ \A x : IsFiniteSet({m \in S : m <= x}) /\ Rank(S, x) \in Nat
<1>1. IsFiniteSet(1 .. n)
  BY FS_Interval
<1>2. IsFiniteSet(S) /\ Cardinality(S) \in Nat
  BY <1>1, FS_Subset, FS_CardinalityType
<1>3. ASSUME NEW x PROVE IsFiniteSet({m \in S : m <= x}) /\ Rank(S, x) \in Nat
  <2>1. {m \in S : m <= x} \in SUBSET S  OBVIOUS
  <2>2. IsFiniteSet({m \in S : m <= x})
    BY <1>2, <2>1, FS_Subset
  <2> QED  BY <2>2, FS_CardinalityType DEF Rank
<1> QED  BY <1>2, <1>3

(* A later place of S has a higher rank.                                   *)
LEMMA RankGrows ==
    ASSUME NEW n \in Nat, NEW S \in SUBSET (1 .. n), NEW x \in S, NEW y \in S, x < y
    PROVE  Rank(S, x) < Rank(S, y)
<1> DEFINE A == {m \in S : m <= x}
           B == {m \in S : m <= y}
<1>1. IsFiniteSet(A) /\ IsFiniteSet(B) /\ Rank(S, x) = Cardinality(A) /\ Rank(S, y) = Cardinality(B)
  BY PlacesFinite DEF Rank
<1>2. y \notin A /\ A \cup {y} \in SUBSET B
  <2>1. \A m \in S : m \in Nat  OBVIOUS
  <2>2. y \notin A  BY <2>1
  <2>3. \A m \in A : m \in B  BY <2>1
  <2>4. y \in B  BY <2>1
  <2> QED  BY <2>2, <2>3, <2>4
<1> HIDE DEF A, B
<1>3. Cardinality(A \cup {y}) = Cardinality(A) + 1
  BY <1>1, <1>2, FS_AddElement
<1>4. Cardinality(A \cup {y}) <= Cardinality(B)
  BY <1>1, <1>2, FS_Subset
<1>5. Cardinality(A) \in Nat /\ Cardinality(B) \in Nat
  BY <1>1, FS_CardinalityType
<1> QED  BY <1>1, <1>3, <1>4, <1>5

(* Every rank up to the size of S is that of one place of S.               *)
LEMMA RankTaken ==
    ASSUME NEW n \in Nat, NEW S \in SUBSET (1 .. n), NEW k \in 1 .. Cardinality(S)
    PROVE  \E x \in S : Rank(S, x) = k
<1>0. IsFiniteSet(S) /\ Cardinality(S) \in Nat /\ \A x : Rank(S, x) \in Nat
  BY PlacesFinite
<1> DEFINE T == {x \in 0 .. n : k <= Rank(S, x)}
<1>a. \A m \in S : m \in 1 .. n  OBVIOUS
<1>1. {m \in S : m <= n} = S /\ {m \in S : m <= 0} = {}
  <2>1. \A m \in S : m <= n /\ ~ (m <= 0)
    BY <1>a
  <2> QED  BY <2>1
<1>2. Rank(S, n) = Cardinality(S) /\ Rank(S, 0) = 0
  BY <1>1, FS_EmptySet DEF Rank
<1>3. n \in T /\ T \in SUBSET Nat
  BY <1>2, <1>0
<1>4. PICK x \in T : \A y \in T : x <= y
  <2> HIDE DEF T
  <2> QED  BY <1>3, LeastOf
<1>5. x \in 1 .. n /\ k <= Rank(S, x)
  BY <1>2, <1>0, x \in T
<1>6. ~ (k <= Rank(S, x - 1))
  BY <1>4, <1>5
<1>7. x \in S
  <2>1. ASSUME x \notin S PROVE FALSE
    <3>1. {m \in S : m <= x} = {m \in S : m <= x - 1}
      <4>1. \A m \in S : m <= x <=> m <= x - 1
        BY <2>1, <1>5, <1>a
      <4> QED  BY <4>1
    <3> QED  BY <3>1, <1>5, <1>6 DEF Rank
  <2> QED  BY <2>1
<1>8. Rank(S, x) = Rank(S, x - 1) + 1
  <2> DEFINE A == {m \in S : m <= x - 1}
  <2>1. {m \in S : m <= x} = A \cup {x} /\ x \notin A
    <3>1. \A m \in S : m <= x <=> m <= x - 1 \/ m = x
      BY <1>5, <1>a
    <3>2. ~ (x <= x - 1)
      BY <1>5
    <3> QED  BY <3>1, <3>2, <1>7
  <2>2. IsFiniteSet(A)
    BY PlacesFinite
  <2> HIDE DEF A
  <2>3. Cardinality(A \cup {x}) = Cardinality(A) + 1
    BY <2>1, <2>2, FS_AddElement
  <2> QED  BY <2>1, <2>3 DEF Rank, A
<1> QED  BY <1>0, <1>5, <1>6, <1>7, <1>8

(* The k-th place of S is the one of rank k.                               *)
LEMMA NthIsRanked ==
    ASSUME NEW n \in Nat, NEW S \in SUBSET (1 .. n)
    PROVE  /\ \A k \in 1 .. Cardinality(S) : Nth(S, k) \in S /\ Rank(S, Nth(S, k)) = k
           /\ \A x \in S : Rank(S, x) \in 1 .. Cardinality(S) /\ Nth(S, Rank(S, x)) = x
<1>1. ASSUME NEW k \in 1 .. Cardinality(S) PROVE Nth(S, k) \in S /\ Rank(S, Nth(S, k)) = k
  <2>1. \E x \in S : Rank(S, x) = k
    BY RankTaken
  <2>2. \E x \in S : Cardinality({m \in S : m <= x}) = k
    BY <2>1 DEF Rank
  <2> QED  BY <2>2 DEF Nth, Rank
<1>2. ASSUME NEW x \in S PROVE Rank(S, x) \in 1 .. Cardinality(S) /\ Nth(S, Rank(S, x)) = x
  <2>1. IsFiniteSet(S) /\ Cardinality(S) \in Nat /\ IsFiniteSet({m \in S : m <= x})
    BY PlacesFinite
  <2>2. Rank(S, x) <= Cardinality(S)
    BY <2>1, FS_Subset, {m \in S : m <= x} \in SUBSET S DEF Rank
  <2>3. Rank(S, x) # 0
    BY <2>1, FS_EmptySet, x \in {m \in S : m <= x} DEF Rank
  <2>4. Rank(S, x) \in 1 .. Cardinality(S)
    <3>1. Rank(S, x) \in Nat
      BY PlacesFinite
    <3> QED  BY <2>1, <2>2, <2>3, <3>1
  <2> DEFINE y == Nth(S, Rank(S, x))
  <2>5. y \in S /\ Rank(S, y) = Rank(S, x)
    BY <2>4, <1>1
  <2> HIDE DEF y
  <2>6. ~ (x < y) /\ ~ (y < x)
    <3>1. Rank(S, x) \in Nat
      BY PlacesFinite
    <3>2. ~ (Rank(S, x) < Rank(S, y)) /\ ~ (Rank(S, y) < Rank(S, x))
      BY <2>5, <3>1
    <3>3. x < y => Rank(S, x) < Rank(S, y)
      BY <2>5, RankGrows
    <3>4. y < x => Rank(S, y) < Rank(S, x)
      BY <2>5, RankGrows
    <3> QED  BY <3>2, <3>3, <3>4
  <2>7. y = x
    BY <2>5, <2>6
  <2> QED  BY <2>4, <2>7 DEF y
<1> QED  BY <1>1, <1>2

(* What is kept is a sequence of the elements at the places, each of them  *)
(* once.                                                                   *)
LEMMA KeptFacts ==
    ASSUME NEW T, NEW seq \in Seq(T), NEW S \in SUBSET DOMAIN seq
    PROVE  /\ Kept(seq, S) \in Seq(T) /\ Len(Kept(seq, S)) = Cardinality(S) /\ Cardinality(S) \in Nat
           /\ DOMAIN Kept(seq, S) = 1 .. Cardinality(S)
           /\ \A k \in 1 .. Cardinality(S) : Nth(S, k) \in S /\ Kept(seq, S)[k] = seq[Nth(S, k)]
           /\ \A x \in S : Rank(S, x) \in 1 .. Cardinality(S) /\ Kept(seq, S)[Rank(S, x)] = seq[x]
<1>1. Len(seq) \in Nat /\ S \in SUBSET (1 .. Len(seq))
  BY LenProperties
<1>2. /\ \A k \in 1 .. Cardinality(S) : Nth(S, k) \in S
      /\ \A x \in S : Rank(S, x) \in 1 .. Cardinality(S) /\ Nth(S, Rank(S, x)) = x
  BY <1>1, NthIsRanked
<1>3. Cardinality(S) \in Nat
  BY <1>1, PlacesFinite
<1>4. \A i \in DOMAIN seq : seq[i] \in T
  BY ElementOfSeq, LenProperties
<1>5. /\ DOMAIN Kept(seq, S) = 1 .. Cardinality(S)
      /\ \A k \in 1 .. Cardinality(S) : Kept(seq, S)[k] = seq[Nth(S, k)]
  BY DEF Kept
<1>6. Kept(seq, S) \in [1 .. Cardinality(S) -> T]
  BY <1>2, <1>4 DEF Kept
<1>7. Kept(seq, S) \in Seq(T) /\ Len(Kept(seq, S)) = Cardinality(S)
  BY <1>3, <1>5, <1>6, IsASeq, LenProperties
<1> QED  BY <1>2, <1>3, <1>5, <1>7

(* All places keep the sequence, none keeps nothing.                       *)
LEMMA KeptAll ==
    ASSUME NEW T, NEW seq \in Seq(T)
    PROVE  Kept(seq, DOMAIN seq) = seq
<1> DEFINE n == Len(seq)
<1>1. n \in Nat /\ DOMAIN seq = 1 .. n
  BY LenProperties
<1>2. Cardinality(1 .. n) = n
  BY SMTT(30), <1>1, FS_Interval
<1>3. ASSUME NEW k \in 1 .. n PROVE Kept(seq, DOMAIN seq)[k] = seq[k]
  <2>1. {m \in 1 .. n : m <= k} = 1 .. k
    BY <1>1
  <2>2. Rank(1 .. n, k) = k
    <3>1. Cardinality(1 .. k) = k
      BY FS_Interval, k \in Int, 1 \in Int, k >= 1
    <3> QED  BY <2>1, <3>1 DEF Rank
  <2> QED  BY <1>1, <2>2, KeptFacts
<1>4. Kept(seq, DOMAIN seq) \in Seq(T) /\ Len(Kept(seq, DOMAIN seq)) = n
  BY <1>1, <1>2, KeptFacts
<1> HIDE DEF n
<1> QED  BY <1>1, <1>3, <1>4, SeqEqual DEF n

(* Keeping no place keeps nothing.                                         *)
LEMMA KeptNone == ASSUME NEW seq PROVE Kept(seq, {}) = <<>>
BY FS_EmptySet DEF Kept

(* Keeping the last place keeps the last element last.                     *)
LEMMA KeptLast ==
    ASSUME NEW T, NEW seq \in Seq(T), NEW S \in SUBSET DOMAIN seq, Len(seq) \in S
    PROVE  Cardinality(S) # 0 /\ Kept(seq, S)[Cardinality(S)] = seq[Len(seq)]
<1>1. Len(seq) \in Nat /\ S \in SUBSET (1 .. Len(seq))
  BY LenProperties
<1>2. {m \in S : m <= Len(seq)} = S
  BY <1>1
<1>3. Rank(S, Len(seq)) = Cardinality(S)
  BY <1>2 DEF Rank
<1> QED  BY <1>3, KeptFacts

(* Different elements at the places stay different.                        *)
LEMMA KeptInjective ==
    ASSUME NEW T, NEW seq \in Seq(T), NEW S \in SUBSET DOMAIN seq,
           \A x, y \in S : x # y => seq[x] # seq[y],
           NEW i \in 1 .. Cardinality(S), NEW j \in 1 .. Cardinality(S), i # j
    PROVE  Kept(seq, S)[i] # Kept(seq, S)[j]
<1>1. Len(seq) \in Nat /\ S \in SUBSET (1 .. Len(seq))
  BY LenProperties
<1>2. Nth(S, i) \in S /\ Nth(S, j) \in S /\ Nth(S, i) # Nth(S, j)
  BY <1>1, NthIsRanked
<1> QED  BY <1>2, KeptFacts

(* A new last element is kept last, or not at all.                         *)
LEMMA KeptAppend ==
    ASSUME NEW T, NEW seq \in Seq(T), NEW x \in T, NEW S \in SUBSET DOMAIN seq
    PROVE  /\ Kept(Append(seq, x), S) = Kept(seq, S)
           /\ Kept(Append(seq, x), S \cup {Len(seq) + 1}) = Append(Kept(seq, S), x)
<1> DEFINE n == Len(seq)
           more == Append(seq, x)
           R == S \cup {n + 1}
           c == Cardinality(S)
<1>1. /\ n \in Nat /\ DOMAIN seq = 1 .. n /\ S \in SUBSET (1 .. n) /\ R \in SUBSET (1 .. n + 1)
      /\ more \in Seq(T) /\ DOMAIN more = 1 .. n + 1 /\ more[n + 1] = x
      /\ \A i \in 1 .. n : more[i] = seq[i]
      /\ n + 1 \notin S
  BY LenProperties, AppendProperties
<1>2. IsFiniteSet(S) /\ c \in Nat /\ Cardinality(R) = c + 1
  BY <1>1, PlacesFinite, FS_AddElement
<1>3. /\ Kept(seq, S) \in Seq(T) /\ Len(Kept(seq, S)) = c
      /\ \A k \in 1 .. c : Nth(S, k) \in S /\ Kept(seq, S)[k] = seq[Nth(S, k)]
  BY KeptFacts
<1>4. Kept(more, S) = Kept(seq, S)
  <2>1. Kept(more, S) = [k \in 1 .. c |-> more[Nth(S, k)]]
    BY DEF Kept
  <2>2. Kept(seq, S) = [k \in 1 .. c |-> seq[Nth(S, k)]]
    BY DEF Kept
  <2> QED  BY <1>1, <1>3, <2>1, <2>2
<1>5. ASSUME NEW k \in 1 .. c PROVE Nth(R, k) = Nth(S, k)
  <2>1. Nth(S, k) \in S /\ Rank(S, Nth(S, k)) = k
    BY <1>1, NthIsRanked
  <2>2. {m \in R : m <= Nth(S, k)} = {m \in S : m <= Nth(S, k)}
    BY <1>1, <2>1
  <2>3. Rank(R, Nth(S, k)) = k
    BY <2>1, <2>2 DEF Rank
  <2>4. Nth(S, k) \in R /\ n + 1 \in Nat
    BY <1>1, <2>1
  <2> HIDE DEF R, n
  <2>5. Nth(R, Rank(R, Nth(S, k))) = Nth(S, k)
    BY <1>1, <2>4, NthIsRanked
  <2> QED  BY <2>3, <2>5
<1>6. Nth(R, c + 1) = n + 1
  <2>1. {m \in R : m <= n + 1} = R
    BY <1>1
  <2>2. Rank(R, n + 1) = c + 1
    BY <2>1, <1>2 DEF Rank
  <2>3. n + 1 \in R /\ n + 1 \in Nat
    BY <1>1
  <2> HIDE DEF R, n
  <2>4. Nth(R, Rank(R, n + 1)) = n + 1
    BY <1>1, <2>3, NthIsRanked
  <2> QED  BY <2>2, <2>4
<1>7. /\ Kept(more, R) \in Seq(T) /\ Len(Kept(more, R)) = c + 1
      /\ \A k \in 1 .. c + 1 : Kept(more, R)[k] = more[Nth(R, k)]
  <2>1. more \in Seq(T) /\ R \in SUBSET DOMAIN more /\ Cardinality(R) = c + 1
    BY <1>1, <1>2
  <2> HIDE DEF more, R, c, n
  <2>2. /\ Kept(more, R) \in Seq(T) /\ Len(Kept(more, R)) = Cardinality(R)
        /\ \A k \in 1 .. Cardinality(R) : Kept(more, R)[k] = more[Nth(R, k)]
    BY <2>1, KeptFacts
  <2> QED  BY <2>1, <2>2
<1>8. /\ Append(Kept(seq, S), x) \in Seq(T) /\ Len(Append(Kept(seq, S), x)) = c + 1
      /\ Append(Kept(seq, S), x)[c + 1] = x
      /\ \A k \in 1 .. c : Append(Kept(seq, S), x)[k] = Kept(seq, S)[k]
  BY <1>3, <1>2, AppendProperties
<1>9. ASSUME NEW k \in 1 .. c + 1 PROVE Kept(more, R)[k] = Append(Kept(seq, S), x)[k]
  <2>1. CASE k = c + 1
    BY <2>1, <1>1, <1>6, <1>7, <1>8
  <2>2. CASE k \in 1 .. c
    BY ZenonT(60), <2>2, <1>1, <1>3, <1>5, <1>7, <1>8
  <2>3. k = c + 1 \/ k \in 1 .. c
    BY <1>2
  <2> QED  BY <2>1, <2>2, <2>3
<1>10. Kept(more, R) = Append(Kept(seq, S), x)
  <2> DEFINE a == Kept(more, R)
             b == Append(Kept(seq, S), x)
  <2>1. a \in Seq(T) /\ b \in Seq(T) /\ Len(a) = Len(b) /\ Len(a) = c + 1
    BY <1>7, <1>8
  <2>2. \A k \in 1 .. c + 1 : a[k] = b[k]
    BY <1>9
  <2> HIDE DEF a, b, more, R, c, n
  <2>3. a = b
    BY <2>1, <2>2, SeqEqual
  <2> QED  BY <2>3 DEF a, b, more, R, n
<1> QED  BY <1>4, <1>10

-----------------------------------------------------------------------------
(* Lists, and the shape of a read *)

(* A sequence, of whatever elements.                                       *)
IsList(s) == s \in Seq(ToSet(s))

(* Any sequence is one, and so is a function on 1 .. n.                    *)
LEMMA ListOf == ASSUME NEW T, NEW s \in Seq(T) PROVE IsList(s)
<1>1. Len(s) \in Nat /\ DOMAIN s = 1 .. Len(s) /\ s \in [1 .. Len(s) -> T]
  BY LenProperties
<1>2. s \in [1 .. Len(s) -> ToSet(s)]
  BY <1>1 DEF ToSet
<1> QED  BY <1>1, <1>2, IsASeq DEF IsList

(* A function on 1 .. n is a list of n elements.                           *)
LEMMA ListOnInterval ==
    ASSUME NEW n \in Nat, NEW f, DOMAIN f = 1 .. n, f = [i \in 1 .. n |-> f[i]]
    PROVE  IsList(f) /\ Len(f) = n
<1>1. f \in [1 .. n -> ToSet(f)]
  BY DEF ToSet
<1>2. f \in Seq(ToSet(f))
  BY <1>1, IsASeq
<1> QED  BY <1>2, LenProperties DEF IsList

(* What the operations on sequences make of a list.                        *)
LEMMA ListFacts ==
    ASSUME NEW s, IsList(s)
    PROVE  /\ Len(s) \in Nat /\ DOMAIN s = 1 .. Len(s)
           /\ s = <<>> <=> Len(s) = 0
           /\ s # <<>> => /\ Head(s) = s[1] /\ IsList(Tail(s)) /\ Len(Tail(s)) = Len(s) - 1
                          /\ \A i \in 1 .. Len(s) - 1 : Tail(s)[i] = s[i + 1]
<1> DEFINE T == ToSet(s)
<1>1. s \in Seq(T)
  BY DEF IsList
<1> HIDE DEF T
<1>2. Len(s) \in Nat /\ DOMAIN s = 1 .. Len(s)
  BY <1>1, LenProperties
<1>3. s = <<>> <=> Len(s) = 0
  BY <1>1, EmptySeq
<1>4. ASSUME s # <<>>
      PROVE  /\ Head(s) = s[1] /\ Tail(s) \in Seq(T) /\ Len(Tail(s)) = Len(s) - 1
             /\ \A i \in 1 .. Len(Tail(s)) : Tail(s)[i] = s[i + 1]
  BY <1>1, <1>4, HeadTailProperties
<1>5. ASSUME s # <<>> PROVE IsList(Tail(s))
  BY <1>4, <1>5, ListOf
<1> QED  BY <1>2, <1>3, <1>4, <1>5

(* A list with an element more.                                            *)
LEMMA ListAppend ==
    ASSUME NEW s, IsList(s), NEW x
    PROVE  /\ IsList(Append(s, x)) /\ Len(Append(s, x)) = Len(s) + 1
           /\ \A i \in 1 .. Len(s) : Append(s, x)[i] = s[i]
           /\ Append(s, x)[Len(s) + 1] = x
<1> DEFINE T == ToSet(s) \cup {x}
<1>1. s \in Seq(T)
  BY SeqMonotonic DEF IsList
<1>2. x \in T  OBVIOUS
<1> HIDE DEF T
<1>3. /\ Append(s, x) \in Seq(T) /\ Len(Append(s, x)) = Len(s) + 1
      /\ \A i \in 1 .. Len(s) : Append(s, x)[i] = s[i]
      /\ Append(s, x)[Len(s) + 1] = x
  BY <1>1, <1>2, AppendProperties
<1> QED  BY <1>3, ListOf

(* One list after the other.                                               *)
LEMMA ListConcat ==
    ASSUME NEW s, NEW t, IsList(s), IsList(t)
    PROVE  /\ IsList(s \o t) /\ Len(s \o t) = Len(s) + Len(t)
           /\ \A i \in 1 .. Len(s) : (s \o t)[i] = s[i]
           /\ \A i \in 1 .. Len(t) : (s \o t)[Len(s) + i] = t[i]
<1> DEFINE T == ToSet(s) \cup ToSet(t)
<1>1. s \in Seq(T) /\ t \in Seq(T)
  BY SeqMonotonic DEF IsList
<1> HIDE DEF T
<1>2. /\ s \o t \in Seq(T) /\ Len(s \o t) = Len(s) + Len(t)
      /\ \A i \in 1 .. Len(s) + Len(t) : (s \o t)[i] = IF i <= Len(s) THEN s[i] ELSE t[i - Len(s)]
  BY <1>1, ConcatProperties
<1>3. Len(s) \in Nat /\ Len(t) \in Nat
  BY <1>1, LenProperties
<1>4. ASSUME NEW i \in 1 .. Len(t) PROVE (s \o t)[Len(s) + i] = t[i]
  <2>1. Len(s) + i \in 1 .. Len(s) + Len(t) /\ ~ (Len(s) + i <= Len(s)) /\ Len(s) + i - Len(s) = i
    BY <1>3
  <2> QED  BY <1>2, <2>1
<1>5. ASSUME NEW i \in 1 .. Len(s) PROVE (s \o t)[i] = s[i]
  <2>1. i \in 1 .. Len(s) + Len(t) /\ i <= Len(s)
    BY <1>3
  <2> QED  BY <1>2, <2>1
<1> QED  BY <1>2, <1>4, <1>5, ListOf

(* What is kept of a list is a list of elements at kept places.            *)
LEMMA ListKept ==
    ASSUME NEW s, IsList(s), NEW S \in SUBSET DOMAIN s
    PROVE  /\ IsList(Kept(s, S)) /\ Len(Kept(s, S)) = Cardinality(S) /\ Cardinality(S) \in Nat
           /\ DOMAIN Kept(s, S) = 1 .. Cardinality(S)
           /\ \A k \in DOMAIN Kept(s, S) : \E x \in S : Kept(s, S)[k] = s[x]
<1>1. s \in Seq(ToSet(s))
  BY DEF IsList
<1>2. /\ Kept(s, S) \in Seq(ToSet(s)) /\ Len(Kept(s, S)) = Cardinality(S) /\ Cardinality(S) \in Nat
      /\ DOMAIN Kept(s, S) = 1 .. Cardinality(S)
      /\ \A k \in 1 .. Cardinality(S) : Nth(S, k) \in S /\ Kept(s, S)[k] = s[Nth(S, k)]
  BY <1>1, KeptFacts
<1>3. IsList(Kept(s, S))
  BY <1>2, ListOf
<1> QED  BY <1>2, <1>3

(* The tools of a set in the planner's order: a list of them, each once.   *)
LEMMA InOrderFacts ==
    ASSUME NEW tools \in SUBSET ToolNames
    PROVE  /\ IsList(InOrder(tools)) /\ ToSet(InOrder(tools)) = tools
           /\ \A i, j \in DOMAIN InOrder(tools) : i # j => InOrder(tools)[i] # InOrder(tools)[j]
<1> DEFINE S == {i \in DOMAIN ToolOrder : ToolOrder[i] \in tools}
<1>1. ToolOrder \in Seq(ToolNames) /\ Len(ToolOrder) = 6
  BY DEF ToolOrder, ToolNames
<1>2. DOMAIN ToolOrder = 1 .. 6
  BY <1>1, LenProperties
<1>3. \A t \in ToolNames : \E i \in 1 .. 6 : ToolOrder[i] = t
  BY DEF ToolOrder, ToolNames
<1>4. \A i, j \in 1 .. 6 : i # j => ToolOrder[i] # ToolOrder[j]
  <2>1. ASSUME NEW i \in 1 .. 6, NEW j \in 1 .. 6, i # j PROVE ToolOrder[i] # ToolOrder[j]
    <3>1. i \in {1, 2, 3, 4, 5, 6} /\ j \in {1, 2, 3, 4, 5, 6}
      OBVIOUS
    <3> QED  BY <2>1, <3>1 DEF ToolOrder
  <2> QED  BY <2>1
<1>b. S \in SUBSET DOMAIN ToolOrder
  OBVIOUS
<1>c. ToolOrder \in Seq(ToolNames)
  BY <1>1
<1>5. \A x, y \in S : x # y => ToolOrder[x] # ToolOrder[y]
  BY <1>2, <1>4
<1>6. InOrder(tools) = Kept(ToolOrder, S)
  BY DEF InOrder
<1>a. \A x : x \in S <=> x \in DOMAIN ToolOrder /\ ToolOrder[x] \in tools
  OBVIOUS
<1> HIDE DEF S
<1>7. /\ Kept(ToolOrder, S) \in Seq(ToolNames) /\ DOMAIN Kept(ToolOrder, S) = 1 .. Cardinality(S)
      /\ \A k \in 1 .. Cardinality(S) : Nth(S, k) \in S /\ Kept(ToolOrder, S)[k] = ToolOrder[Nth(S, k)]
      /\ \A x \in S : Rank(S, x) \in 1 .. Cardinality(S) /\ Kept(ToolOrder, S)[Rank(S, x)] = ToolOrder[x]
  BY <1>b, <1>c, KeptFacts
<1>8. \A i, j \in 1 .. Cardinality(S) : i # j => Kept(ToolOrder, S)[i] # Kept(ToolOrder, S)[j]
  <2>1. ASSUME NEW i \in 1 .. Cardinality(S), NEW j \in 1 .. Cardinality(S), i # j
        PROVE  Kept(ToolOrder, S)[i] # Kept(ToolOrder, S)[j]
    BY <1>b, <1>c, <1>5, <2>1, KeptInjective
  <2> QED  BY <2>1
<1>9. ASSUME NEW t \in tools PROVE t \in ToSet(Kept(ToolOrder, S))
  <2>1. PICK i \in 1 .. 6 : ToolOrder[i] = t
    BY <1>3
  <2>2. i \in S
    BY <2>1, <1>2, <1>a
  <2> QED  BY <2>1, <2>2, <1>7 DEF ToSet
<1>10. ASSUME NEW t \in ToSet(Kept(ToolOrder, S)) PROVE t \in tools
  <2>1. PICK k \in 1 .. Cardinality(S) : t = Kept(ToolOrder, S)[k]
    BY <1>7 DEF ToSet
  <2> QED  BY <2>1, <1>7, <1>a
<1> QED  BY <1>6, <1>7, <1>8, <1>9, <1>10, ListOf

(* A read has its fields, its tools are among those asked for, and its     *)
(* references, statuses and notes are lists.                               *)
LiveFields == {"step", "text", "asked", "given", "tools", "refs", "degraded", "statuses", "held",
               "openId", "progress", "tasks", "minutes", "okr"}
LiveShape(l) ==
    /\ DOMAIN l = LiveFields
    /\ l.asked \subseteq ToolNames /\ l.tools \subseteq l.asked
    /\ DOMAIN l.refs = Sources /\ \A s \in Sources : IsList(l.refs[s])
    /\ IsList(l.statuses) /\ IsList(l.degraded) /\ IsList(l.given)

(* The empty list.                                                         *)
LEMMA NoList == IsList(<<>>)
BY DEF IsList, ToSet

(* A read that has not started is of that shape.                           *)
LEMMA NotStartedShape == LiveShape(NotStarted)
<1>1. DOMAIN NotStarted = LiveFields
  BY DEF NotStarted, LiveFields
<1> QED  BY <1>1, NoList DEF NotStarted, LiveShape

(* Statuses that say why, one for each reason.                             *)
LEMMA DegradedStatusesFacts ==
    ASSUME NEW whys, IsList(whys)
    PROVE  /\ IsList(DegradedStatuses(whys)) /\ Len(DegradedStatuses(whys)) = Len(whys)
           /\ \A i \in 1 .. Len(whys) : DegradedStatuses(whys)[i] = DegradedForTool("", whys[i])
<1>1. Len(whys) \in Nat /\ DOMAIN whys = 1 .. Len(whys)
  BY ListFacts
<1>2. /\ DOMAIN DegradedStatuses(whys) = 1 .. Len(whys)
      /\ \A i \in 1 .. Len(whys) : DegradedStatuses(whys)[i] = DegradedForTool("", whys[i])
      /\ DegradedStatuses(whys) = [i \in 1 .. Len(whys) |-> DegradedStatuses(whys)[i]]
  BY <1>1 DEF DegradedStatuses
<1> HIDE DEF DegradedStatuses
<1> QED  BY <1>1, <1>2, ListOnInterval

(* Closing a read ends it and appends statuses of no tool; nothing else    *)
(* changes.                                                                *)
LEMMA CloseFacts ==
    ASSUME NEW l, LiveShape(l), NEW why
    PROVE  LET c == Close(l, why)
               whys == IF why = "" THEN l.degraded ELSE Append(l.degraded, why)
           IN  /\ LiveShape(c) /\ c.step = "done" /\ IsList(whys)
               /\ c.statuses = l.statuses \o DegradedStatuses(whys)
               /\ \A f \in LiveFields \ {"step", "statuses"} : c[f] = l[f]
<1> DEFINE c == Close(l, why)
           whys == IF why = "" THEN l.degraded ELSE Append(l.degraded, why)
<1>1. IsList(whys)
  BY ListAppend DEF LiveShape
<1>2. DOMAIN l = LiveFields /\ c = [l EXCEPT !.step = "done", !.statuses = @ \o DegradedStatuses(whys)]
  BY DEF Close, LiveShape
<1>3. IsList(l.statuses \o DegradedStatuses(whys))
  BY <1>1, DegradedStatusesFacts, ListConcat DEF LiveShape
<1> HIDE DEF c, whys
<1>4. /\ DOMAIN c = LiveFields /\ c.step = "done" /\ c.statuses = l.statuses \o DegradedStatuses(whys)
      /\ \A f \in LiveFields \ {"step", "statuses"} : c[f] = l[f]
  BY <1>2 DEF LiveFields
<1>5. LiveShape(c)
  <2>1. c.asked = l.asked /\ c.tools = l.tools /\ c.refs = l.refs /\ c.degraded = l.degraded /\ c.given = l.given
    BY <1>4 DEF LiveFields
  <2> QED  BY <1>3, <1>4, <2>1 DEF LiveShape
<1> QED  BY <1>1, <1>4, <1>5 DEF c, whys

(* The first of a list are a list; all are taken if they are no more.      *)
LEMMA TakeFacts ==
    ASSUME NEW s, IsList(s), NEW n \in Nat
    PROVE  /\ IsList(Take(s, n)) /\ Len(Take(s, n)) = IF Len(s) < n THEN Len(s) ELSE n
           /\ \A i \in 1 .. Len(Take(s, n)) : Take(s, n)[i] = s[i]
           /\ Len(s) <= n => Take(s, n) = s
<1> DEFINE T == ToSet(s)
           m == IF Len(s) < n THEN Len(s) ELSE n
<1>1. s \in Seq(T) /\ Len(s) \in Nat /\ DOMAIN s = 1 .. Len(s)
  BY ListFacts DEF IsList
<1>2. m \in Nat /\ m <= Len(s)
  BY <1>1
<1>a. Len(s) <= n => m = Len(s)
  <2>1. Len(s) \in Nat  BY <1>1
  <2> QED  BY <2>1
<1>b. m = IF Len(s) < n THEN Len(s) ELSE n
  OBVIOUS
<1>3. \A i \in 1 .. m : s[i] \in T
  BY <1>1, <1>2 DEF ToSet
<1> HIDE DEF T, m
<1>4. /\ SubSeq(s, 1, m) \in Seq(T) /\ Len(SubSeq(s, 1, m)) = IF 1 <= m THEN m - 1 + 1 ELSE 0
      /\ \A i \in 1 .. m - 1 + 1 : SubSeq(s, 1, m)[i] = s[1 + i - 1]
  BY <1>2, <1>3, SubSeqProperties
<1>5. Len(SubSeq(s, 1, m)) = m /\ \A i \in 1 .. m : SubSeq(s, 1, m)[i] = s[i]
  BY <1>2, <1>4
<1>6. Take(s, n) = SubSeq(s, 1, m)
  BY DEF Take, m
<1>7. ASSUME Len(s) <= n PROVE SubSeq(s, 1, m) = s
  <2>1. m = Len(s)
    BY <1>a, <1>7
  <2> QED  BY <1>1, <1>4, <1>5, <2>1, SeqEqual
<1>8. IsList(SubSeq(s, 1, m))
  BY <1>4, ListOf
<1> QED  BY <1>b, <1>5, <1>6, <1>7, <1>8

(* The references of each source, and the notes, are lists.                *)
LEMMA ResolvedShape ==
    ASSUME NEW given, IsList(given)
    PROVE  /\ DOMAIN ResolveEvidenceRefs(given).refs = Sources
           /\ \A s \in Sources : IsList(ResolveEvidenceRefs(given).refs[s])
           /\ IsList(ResolveEvidenceRefs(given).degraded)
<1> DEFINE distinct == DistinctRefs(given)
           kept == Take(distinct, EvidenceRefLimit)
           unread == Kept(kept, Unreadable(kept))
           why(i) == IF Supported(unread[i]) THEN "unparsed_ref" ELSE "unsupported_source"
           first == [i \in DOMAIN unread |-> why(i)]
           second == IF Len(given) > Len(distinct) THEN <<"merged_duplicates">> ELSE <<>>
           third == IF Len(distinct) > EvidenceRefLimit THEN <<"over_limit">> ELSE <<>>
<1>1. /\ ResolveEvidenceRefs(given).refs = [s \in Sources |-> ParsedOf(kept, s)]
      /\ ResolveEvidenceRefs(given).degraded = first \o second \o third
  BY DEF ResolveEvidenceRefs
<1>2. IsList(distinct)
  BY ListKept DEF DistinctRefs
<1>3. IsList(kept)
  <2> HIDE DEF distinct
  <2> QED  BY <1>2, TakeFacts, PlanLimits
<1>4. ASSUME NEW s \in Sources PROVE IsList(ParsedOf(kept, s))
  <2> HIDE DEF kept
  <2> DEFINE own == Kept(kept, Readable(kept, s))
             f == [i \in DOMAIN own |-> ParsedRef(own[i])]
  <2>1. IsList(own) /\ Cardinality(Readable(kept, s)) \in Nat
        /\ DOMAIN own = 1 .. Cardinality(Readable(kept, s))
    BY <1>3, ListKept, Readable(kept, s) \in SUBSET DOMAIN kept DEF Readable
  <2>2. DOMAIN f = 1 .. Cardinality(Readable(kept, s)) /\ f = [i \in DOMAIN f |-> f[i]]
    BY <2>1
  <2>3. ParsedOf(kept, s) = f
    BY DEF ParsedOf
  <2> HIDE DEF f, own
  <2> QED  BY <2>1, <2>2, <2>3, ListOnInterval
<1>5. IsList(first)
  <2>1. IsList(unread) /\ Cardinality(Unreadable(kept)) \in Nat
        /\ DOMAIN unread = 1 .. Cardinality(Unreadable(kept))
    <3> HIDE DEF kept
    <3> QED  BY <1>3, ListKept, Unreadable(kept) \in SUBSET DOMAIN kept DEF Unreadable
  <2> HIDE DEF unread, kept
  <2>2. DOMAIN first = 1 .. Cardinality(Unreadable(kept)) /\ first = [i \in DOMAIN first |-> first[i]]
    BY <2>1
  <2> HIDE DEF first
  <2> QED  BY <2>1, <2>2, ListOnInterval
<1>6. IsList(second) /\ IsList(third)
  <2>1. <<"merged_duplicates">> \in Seq({"merged_duplicates"}) /\ <<"over_limit">> \in Seq({"over_limit"})
    OBVIOUS
  <2> QED  BY <2>1, ListOf, NoList
<1> HIDE DEF first, second, third, kept
<1>7. IsList(first \o second)
  BY <1>5, <1>6, ListConcat
<1>8. IsList((first \o second) \o third)
  BY <1>6, <1>7, ListConcat
<1> QED  BY <1>1, <1>4, <1>8

-----------------------------------------------------------------------------
(* The gate *)

(* What m changes of l are the fields named.                               *)
Same(l, m, fields) == \A f \in LiveFields \ fields : m[f] = l[f]

(* The demand is within the scopes.                                        *)
Demand(scopes, l) ==
    /\ \A t \in l.tools : RequiredFeishuScopes(t) \subseteq scopes
    /\ \A s \in Sources : l.refs[s] # <<>> => HasEvidenceReadScopes(scopes, s)
    /\ \A i \in DOMAIN l.refs["doc"] : l.refs["doc"][i].wiki => "WikiNodeRead" \in scopes

(* The statuses of tools that are refused.                                 *)
Refusals(scopes, tools) ==
    LET refused == InOrder(Uncovered(scopes, tools))
    IN  [i \in DOMAIN refused |-> DegradedForTool(refused[i], "missing_permission")]

(* One refusal, in order, for each tool the scopes do not cover.           *)
LEMMA RefusalsShape ==
    ASSUME NEW tools \in SUBSET ToolNames, NEW scopes
    PROVE  /\ IsList(Refusals(scopes, tools))
           /\ DOMAIN Refusals(scopes, tools) = DOMAIN InOrder(Uncovered(scopes, tools))
           /\ \A i \in DOMAIN Refusals(scopes, tools) :
                 Refusals(scopes, tools)[i]
                   = DegradedForTool(InOrder(Uncovered(scopes, tools))[i], "missing_permission")
<1> DEFINE refused == InOrder(Uncovered(scopes, tools))
           f == [i \in DOMAIN refused |-> DegradedForTool(refused[i], "missing_permission")]
<1>1. IsList(refused)
  BY InOrderFacts DEF Uncovered
<1>2. Len(refused) \in Nat /\ DOMAIN refused = 1 .. Len(refused)
  <2> HIDE DEF refused
  <2> QED  BY <1>1, ListFacts
<1>3. Refusals(scopes, tools) = f
  BY DEF Refusals
<1>4. DOMAIN f = 1 .. Len(refused) /\ f = [i \in DOMAIN f |-> f[i]]
  BY <1>2
<1>5. \A i \in DOMAIN f : f[i] = DegradedForTool(refused[i], "missing_permission")
  OBVIOUS
<1>6. DOMAIN f = DOMAIN refused  OBVIOUS
<1> HIDE DEF f, refused
<1>7. IsList(f)
  BY <1>2, <1>4, ListOnInterval
<1> QED  BY <1>3, <1>5, <1>6, <1>7 DEF refused

(* The gate drops the tools the scopes do not cover and notes each of      *)
(* them.                                                                   *)
LEMMA GateToolsFacts ==
    ASSUME NEW l, LiveShape(l), NEW scopes
    PROVE  LET g == GateReadToolsByScope(scopes, l)
           IN  /\ LiveShape(g) /\ Same(l, g, {"tools", "statuses"})
               /\ g.tools = l.tools \ Uncovered(scopes, l.tools)
               /\ g.statuses = l.statuses \o Refusals(scopes, l.tools)
<1> DEFINE g == GateReadToolsByScope(scopes, l)
<1>1. g = [l EXCEPT !.tools = @ \ Uncovered(scopes, l.tools),
                    !.statuses = @ \o Refusals(scopes, l.tools)]
  BY DEF GateReadToolsByScope, Refusals
<1>2. DOMAIN l = LiveFields /\ IsList(l.statuses) /\ l.tools \in SUBSET ToolNames
  BY DEF LiveShape
<1>3. IsList(l.statuses \o Refusals(scopes, l.tools))
  BY <1>2, RefusalsShape, ListConcat
<1> HIDE DEF g
<1>4. /\ DOMAIN g = LiveFields /\ g.tools = l.tools \ Uncovered(scopes, l.tools)
      /\ g.statuses = l.statuses \o Refusals(scopes, l.tools)
      /\ Same(l, g, {"tools", "statuses"})
  BY <1>1, <1>2 DEF LiveFields, Same
<1>5. g.asked = l.asked /\ g.refs = l.refs /\ g.degraded = l.degraded /\ g.given = l.given
  BY <1>4 DEF Same, LiveFields
<1>6. LiveShape(g)
  BY <1>3, <1>4, <1>5 DEF LiveShape
<1> QED  BY <1>4, <1>6 DEF g

(* The gate drops the sources the scopes do not cover; it leaves all       *)
(* references or a note.                                                   *)
LEMMA GateRefsFacts ==
    ASSUME NEW l, LiveShape(l), NEW scopes
    PROVE  LET g == GateEvidenceRefsByScope(scopes, l)
           IN  /\ LiveShape(g) /\ Same(l, g, {"refs", "degraded"})
               /\ \A s \in Sources : g.refs[s] # <<>> => HasEvidenceReadScopes(scopes, s)
               /\ g.degraded = <<>> => l.degraded = <<>> /\ \A s \in Sources : g.refs[s] = l.refs[s]
<1> DEFINE g == GateEvidenceRefsByScope(scopes, l)
           lacking == {s \in Sources : l.refs[s] # <<>> /\ ~HasEvidenceReadScopes(scopes, s)}
           notes == [i \in 1 .. Cardinality(lacking) |-> "missing_permission"]
           refs == [s \in Sources |-> IF s \in lacking THEN <<>> ELSE l.refs[s]]
<1>1. g = [l EXCEPT !.refs = refs, !.degraded = @ \o notes]
  BY DEF GateEvidenceRefsByScope
<1>2. /\ DOMAIN l = LiveFields /\ IsList(l.degraded) /\ DOMAIN l.refs = Sources
      /\ \A s \in Sources : IsList(l.refs[s])
  BY DEF LiveShape
<1>3. IsFiniteSet(lacking) /\ Cardinality(lacking) \in Nat
  <2>1. IsFiniteSet({"okr"} \cup {"task"})
    BY FS_Singleton, FS_AddElement
  <2>2. IsFiniteSet(({"okr"} \cup {"task"}) \cup {"calendar"})
    BY <2>1, FS_AddElement
  <2>a. IsFiniteSet((({"okr"} \cup {"task"}) \cup {"calendar"}) \cup {"doc"})
    BY <2>2, FS_AddElement
  <2>b. IsFiniteSet(((({"okr"} \cup {"task"}) \cup {"calendar"}) \cup {"doc"}) \cup {"minutes"})
    BY <2>a, FS_AddElement
  <2>c. Sources = ((({"okr"} \cup {"task"}) \cup {"calendar"}) \cup {"doc"}) \cup {"minutes"}
    BY DEF Sources
  <2>3. IsFiniteSet(Sources)
    BY <2>b, <2>c
  <2>4. lacking \in SUBSET Sources  OBVIOUS
  <2> HIDE DEF lacking
  <2> QED  BY <2>3, <2>4, FS_Subset, FS_CardinalityType
<1>4. /\ \A s \in Sources : IsList(refs[s]) /\ (refs[s] # <<>> => HasEvidenceReadScopes(scopes, s))
      /\ lacking = {} => \A s \in Sources : refs[s] = l.refs[s]
      /\ DOMAIN refs = Sources
  BY <1>2, NoList
<1>5. IsList(notes) /\ Len(notes) = Cardinality(lacking)
  <2>1. DOMAIN notes = 1 .. Cardinality(lacking) /\ notes = [i \in 1 .. Cardinality(lacking) |-> notes[i]]
    OBVIOUS
  <2> HIDE DEF notes, lacking
  <2> QED  BY <1>3, <2>1, ListOnInterval
<1> HIDE DEF g, refs, notes
<1>6. IsList(l.degraded \o notes) /\ Len(l.degraded \o notes) = Len(l.degraded) + Cardinality(lacking)
  <2> HIDE DEF lacking
  <2> QED  BY <1>2, <1>5, ListConcat
<1>7. l.degraded \o notes = <<>> => l.degraded = <<>> /\ lacking = {}
  <2> HIDE DEF lacking
  <2>1. ASSUME l.degraded \o notes = <<>> PROVE Len(l.degraded) = 0 /\ Cardinality(lacking) = 0
    <3>1. Len(l.degraded \o notes) = 0
      BY <2>1, <1>6, ListFacts
    <3>2. Len(l.degraded) \in Nat
      BY <1>2, ListFacts
    <3> QED  BY <3>1, <3>2, <1>3, <1>6
  <2> QED  BY <2>1, <1>2, <1>3, ListFacts, FS_EmptySet
<1> HIDE DEF lacking
<1>8. /\ DOMAIN g = LiveFields /\ g.refs = refs /\ g.degraded = l.degraded \o notes
      /\ Same(l, g, {"refs", "degraded"})
  BY <1>1, <1>2 DEF LiveFields, Same
<1>9. g.asked = l.asked /\ g.tools = l.tools /\ g.statuses = l.statuses /\ g.given = l.given
  BY <1>8 DEF Same, LiveFields
<1>10. LiveShape(g)
  BY <1>4, <1>6, <1>8, <1>9 DEF LiveShape
<1> QED  BY <1>4, <1>7, <1>8, <1>10 DEF g

(* Without the wiki scope the gate drops the wiki documents, and notes     *)
(* that it did.                                                            *)
LEMMA GateDocFacts ==
    ASSUME NEW l, LiveShape(l), NEW scopes
    PROVE  LET g == GateDocEvidenceRefsByScope(scopes, l)
           IN  /\ LiveShape(g) /\ Same(l, g, {"refs", "degraded"})
               /\ \A s \in Sources : g.refs[s] # <<>> => l.refs[s] # <<>>
               /\ \A i \in DOMAIN g.refs["doc"] : g.refs["doc"][i].wiki => "WikiNodeRead" \in scopes
               /\ g.degraded = <<>> => l.degraded = <<>> /\ \A s \in Sources : g.refs[s] = l.refs[s]
<1> DEFINE g == GateDocEvidenceRefsByScope(scopes, l)
           doc == l.refs["doc"]
           plain == {i \in DOMAIN doc : ~doc[i].wiki}
<1>1. /\ DOMAIN l = LiveFields /\ IsList(l.degraded) /\ DOMAIN l.refs = Sources
      /\ \A s \in Sources : IsList(l.refs[s])
  BY DEF LiveShape
<1>2. "doc" \in Sources
  BY DEF Sources
<1>3. CASE "WikiNodeRead" \in scopes \/ plain = DOMAIN doc
  <2>1. g = l
    BY <1>3 DEF GateDocEvidenceRefsByScope
  <2>2. \A i \in DOMAIN doc : doc[i].wiki => "WikiNodeRead" \in scopes
    BY <1>3
  <2> HIDE DEF g
  <2> QED  BY <2>1, <2>2 DEF Same, g
<1>4. CASE ~("WikiNodeRead" \in scopes \/ plain = DOMAIN doc)
  <2>1. g = [l EXCEPT !.refs["doc"] = Kept(doc, plain), !.degraded = Append(@, "missing_permission")]
    BY <1>4 DEF GateDocEvidenceRefsByScope
  <2>2. /\ IsList(Kept(doc, plain)) /\ DOMAIN Kept(doc, plain) = 1 .. Cardinality(plain)
        /\ \A k \in DOMAIN Kept(doc, plain) : \E x \in plain : Kept(doc, plain)[k] = doc[x]
    <3>1. plain \in SUBSET DOMAIN doc /\ IsList(doc)
      BY <1>1, <1>2
    <3> HIDE DEF plain, doc
    <3> QED  BY <3>1, ListKept
  <2>3. \A k \in DOMAIN Kept(doc, plain) : ~Kept(doc, plain)[k].wiki
    BY <2>2
  <2>4. doc # <<>>
    <3>1. ASSUME doc = <<>> PROVE FALSE
      <4>1. DOMAIN doc = {}
        BY <3>1
      <4> QED  BY <4>1, <1>4
    <3> QED  BY <3>1
  <2>5. IsList(Append(l.degraded, "missing_permission")) /\ Append(l.degraded, "missing_permission") # <<>>
    <3>1. IsList(Append(l.degraded, "missing_permission"))
          /\ Len(Append(l.degraded, "missing_permission")) = Len(l.degraded) + 1 /\ Len(l.degraded) \in Nat
      BY <1>1, ListAppend, ListFacts
    <3>2. Len(Append(l.degraded, "missing_permission")) # 0
      BY <3>1
    <3> QED  BY <3>1, <3>2, ListFacts
  <2> HIDE DEF g, plain
  <2>6. /\ DOMAIN g = LiveFields /\ g.degraded = Append(l.degraded, "missing_permission")
        /\ g.refs = [l.refs EXCEPT !["doc"] = Kept(doc, plain)]
        /\ Same(l, g, {"refs", "degraded"})
    BY <2>1, <1>1 DEF LiveFields, Same
  <2>7. /\ DOMAIN g.refs = Sources /\ g.refs["doc"] = Kept(doc, plain)
        /\ \A s \in Sources \ {"doc"} : g.refs[s] = l.refs[s]
    BY <2>6, <1>1, <1>2
  <2>8. g.asked = l.asked /\ g.tools = l.tools /\ g.statuses = l.statuses /\ g.given = l.given
    BY <2>6 DEF Same, LiveFields
  <2>9. \A s \in Sources : IsList(g.refs[s])
    BY <1>1, <2>2, <2>7
  <2>10. LiveShape(g)
    BY <2>5, <2>6, <2>7, <2>8, <2>9, <1>1 DEF LiveShape
  <2>11. \A s \in Sources : g.refs[s] # <<>> => l.refs[s] # <<>>
    BY <2>4, <2>7
  <2>12. \A i \in DOMAIN g.refs["doc"] : ~g.refs["doc"][i].wiki
    BY <2>3, <2>7
  <2> QED  BY <2>5, <2>6, <2>10, <2>11, <2>12 DEF g
<1> QED  BY <1>3, <1>4

(* The whole gate leaves g of l: what is left is within the scopes, what is *)
(* refused is said.                                                        *)
GatePassed(scopes, l, g) ==
    /\ LiveShape(g) /\ Same(l, g, {"tools", "statuses", "refs", "degraded"})
    /\ Demand(scopes, g)
    /\ g.tools = l.tools \ Uncovered(scopes, l.tools)
    /\ g.statuses = l.statuses \o Refusals(scopes, l.tools)
    /\ g.degraded = <<>> => l.degraded = <<>> /\ \A s \in Sources : g.refs[s] = l.refs[s]

(* The gate does what is said of it.                                       *)
LEMMA GateFacts ==
    ASSUME NEW l, LiveShape(l), NEW scopes
    PROVE  GatePassed(scopes, l, GateReadDemandByScope(scopes, l))
<1> DEFINE a == GateEvidenceRefsByScope(scopes, l)
           b == GateDocEvidenceRefsByScope(scopes, a)
           g == GateReadToolsByScope(scopes, b)
<1>1. /\ LiveShape(a) /\ Same(l, a, {"refs", "degraded"})
      /\ \A s \in Sources : a.refs[s] # <<>> => HasEvidenceReadScopes(scopes, s)
      /\ a.degraded = <<>> => l.degraded = <<>> /\ \A s \in Sources : a.refs[s] = l.refs[s]
  BY GateRefsFacts
<1>2. GateReadDemandByScope(scopes, l) = g
  BY DEF GateReadDemandByScope
<1> HIDE DEF a
<1>3. /\ LiveShape(b) /\ Same(a, b, {"refs", "degraded"})
      /\ \A s \in Sources : b.refs[s] # <<>> => a.refs[s] # <<>>
      /\ \A i \in DOMAIN b.refs["doc"] : b.refs["doc"][i].wiki => "WikiNodeRead" \in scopes
      /\ b.degraded = <<>> => a.degraded = <<>> /\ \A s \in Sources : b.refs[s] = a.refs[s]
  BY <1>1, GateDocFacts
<1> HIDE DEF b
<1>4. /\ LiveShape(g) /\ Same(b, g, {"tools", "statuses"})
      /\ g.tools = b.tools \ Uncovered(scopes, b.tools)
      /\ g.statuses = b.statuses \o Refusals(scopes, b.tools)
  BY <1>3, GateToolsFacts
<1> HIDE DEF g
<1>5. b.tools = l.tools /\ b.statuses = l.statuses /\ g.refs = b.refs /\ g.degraded = b.degraded
  BY <1>1, <1>3, <1>4 DEF Same, LiveFields
<1>6. Same(l, g, {"tools", "statuses", "refs", "degraded"})
  BY <1>1, <1>3, <1>4 DEF Same
<1>7. \A t \in g.tools : RequiredFeishuScopes(t) \subseteq scopes
  BY <1>4, <1>5 DEF Uncovered
<1>8. Demand(scopes, g)
  BY <1>1, <1>3, <1>5, <1>7 DEF Demand
<1>9. GatePassed(scopes, l, g)
  BY <1>1, <1>3, <1>4, <1>5, <1>6, <1>8 DEF GatePassed
<1> QED  BY <1>2, <1>9

-----------------------------------------------------------------------------
(* What the steps of a read do to it *)

(* Setting one field.                                                      *)
LEMMA SetStep ==
    ASSUME NEW l, LiveShape(l), NEW step
    PROVE  LET m == [l EXCEPT !.step = step]
           IN  LiveShape(m) /\ m.step = step /\ Same(l, m, {"step"})
<1> DEFINE m == [l EXCEPT !.step = step]
<1>1. DOMAIN l = LiveFields
  BY DEF LiveShape
<1>2. DOMAIN m = LiveFields /\ m.step = step /\ Same(l, m, {"step"})
  BY <1>1 DEF LiveFields, Same
<1> HIDE DEF m
<1>3. /\ m.asked = l.asked /\ m.tools = l.tools /\ m.refs = l.refs /\ m.statuses = l.statuses
      /\ m.degraded = l.degraded /\ m.given = l.given
  BY <1>2 DEF Same, LiveFields
<1>4. LiveShape(m)
  BY <1>2, <1>3 DEF LiveShape
<1> QED  BY <1>2, <1>4 DEF m

(* What the gate leaves of a read that holds a row of the grant.           *)
Gated(g, l) == GateReadDemandByScope(g.scopes, [l EXCEPT !.held = g])

(* A read admitted under a row: within its scopes, and nothing dropped     *)
(* without a note.                                                         *)
Admitted(g, l, G) ==
    /\ LiveShape(G) /\ Same(l, G, {"tools", "statuses", "refs", "degraded", "held"})
    /\ G.held = g /\ Demand(g.scopes, G)
    /\ G.tools = l.tools \ Uncovered(g.scopes, l.tools)
    /\ G.statuses = l.statuses \o Refusals(g.scopes, l.tools)
    /\ G.degraded = <<>> => l.degraded = <<>> /\ \A s \in Sources : G.refs[s] = l.refs[s]

(* A read that is admitted is within the scopes of the row it holds.       *)
LEMMA AdmitFacts ==
    ASSUME NEW l, LiveShape(l), NEW g
    PROVE  Admitted(g, l, Gated(g, l))
<1> DEFINE h == [l EXCEPT !.held = g]
           G == Gated(g, l)
           sc == g.scopes
<1>1. DOMAIN l = LiveFields
  BY DEF LiveShape
<1>2. DOMAIN h = LiveFields /\ h.held = g /\ Same(l, h, {"held"})
  BY <1>1 DEF LiveFields, Same
<1>3. G = GateReadDemandByScope(sc, h)
  BY DEF Gated
<1> HIDE DEF h, G, sc
<1>4. /\ h.asked = l.asked /\ h.tools = l.tools /\ h.refs = l.refs /\ h.statuses = l.statuses
      /\ h.degraded = l.degraded /\ h.given = l.given
  BY <1>2 DEF Same, LiveFields
<1>5. LiveShape(h)
  BY <1>2, <1>4 DEF LiveShape
<1>6. GatePassed(sc, h, G)
  BY <1>3, <1>5, GateFacts
<1>7. Same(l, G, {"tools", "statuses", "refs", "degraded", "held"}) /\ G.held = g
  BY <1>2, <1>6 DEF Same, LiveFields, GatePassed
<1>8. Admitted(g, l, G)
  BY <1>4, <1>6, <1>7 DEF GatePassed, Admitted, sc
<1> QED  BY <1>8 DEF G

(* The demand of a turn.                                                   *)
Asked(request) ==
    [NotStarted EXCEPT !.text = LatestUserText(request), !.asked = PlanReadTools(request),
                       !.given = request.refs, !.tools = PlanReadTools(request),
                       !.refs = ResolveEvidenceRefs(request.refs).refs,
                       !.degraded = ResolveEvidenceRefs(request.refs).degraded]

(* A read starts with what the request asks for, and without a status.     *)
LEMMA AskedFacts ==
    ASSUME NEW request, IsList(request.refs)
    PROVE  /\ LiveShape(Asked(request))
           /\ Asked(request).text = LatestUserText(request)
           /\ Asked(request).asked = PlanReadTools(request) /\ Asked(request).tools = PlanReadTools(request)
           /\ Asked(request).given = request.refs /\ Asked(request).statuses = <<>>
           /\ Asked(request).refs = ResolveEvidenceRefs(request.refs).refs
           /\ Asked(request).degraded = ResolveEvidenceRefs(request.refs).degraded
<1> DEFINE l == Asked(request)
<1>1. DOMAIN NotStarted = LiveFields /\ NotStarted.statuses = <<>>
  BY DEF NotStarted, LiveFields
<1>2. /\ DOMAIN l = LiveFields /\ l.text = LatestUserText(request)
      /\ l.asked = PlanReadTools(request) /\ l.tools = PlanReadTools(request)
      /\ l.given = request.refs /\ l.statuses = <<>>
      /\ l.refs = ResolveEvidenceRefs(request.refs).refs
      /\ l.degraded = ResolveEvidenceRefs(request.refs).degraded
  BY <1>1 DEF Asked, LiveFields
<1>3. PlanReadTools(request) \subseteq ToolNames
  BY DEF PlanReadTools
<1> HIDE DEF l
<1>4. LiveShape(l)
  BY <1>2, <1>3, ResolvedShape, NoList DEF LiveShape
<1> QED  BY <1>2, <1>4 DEF l

(* A read starts from idle: it closes at once or goes on to its grant.     *)
LEMMA StartEffect ==
    ASSUME NEW request, StartLiveRead(request)
    PROVE  /\ live.step = "idle"
           /\ \/ NothingToRead(Asked(request)) /\ live' = Close(Asked(request), "")
              \/ live' = [Asked(request) EXCEPT !.step = "resolve"]
BY DEF StartLiveRead, Asked

(* The names of tools and sources differ.                                  *)
LEMMA NamesDiffer ==
    /\ \A t \in ToolNames : t \notin Sources /\ t # "okr_tools" /\ t # ""
    /\ \A s \in Sources : s # "okr_tools"
    /\ OkrTools \subseteq ToolNames
BY DEF ToolNames, Sources, OkrTools

(* Endpoints called on the way are endpoints of the operation.             *)
LEMMA CalledFacts ==
    ASSUME NEW endpoints, IsList(endpoints), NEW k \in DOMAIN endpoints
    PROVE  Called(endpoints, k) \subseteq ToSet(endpoints)
<1> DEFINE T == ToSet(endpoints)
<1>1. endpoints \in Seq(T) /\ Len(endpoints) \in Nat /\ DOMAIN endpoints = 1 .. Len(endpoints)
  BY ListFacts DEF IsList
<1>2. \A i \in 1 .. k : endpoints[i] \in T
  BY <1>1 DEF ToSet
<1> HIDE DEF T
<1>3. k \in Int /\ 1 \in Int
  BY <1>1
<1>4. SubSeq(endpoints, 1, k) \in Seq(T)
  BY <1>2, <1>3, SubSeqProperties
<1>5. \A i \in DOMAIN SubSeq(endpoints, 1, k) : SubSeq(endpoints, 1, k)[i] \in T
  BY <1>4, ElementOfSeq, LenProperties
<1> QED  BY <1>5 DEF Called, ToSet, T

(* The calls of a step are among some endpoints, with the token held.      *)
CallsWithin(endpoints) ==
    calls' \subseteq calls \cup {[endpoint |-> e, token |-> live.held.token] : e \in endpoints}

(* Calls on some endpoints are calls within any larger set of them.        *)
LEMMA CallingFacts ==
    ASSUME NEW called, NEW endpoints, called \subseteq endpoints, Calling(called)
    PROVE  CallsWithin(endpoints)
BY DEF Calling, CallsWithin

(* One status more.                                                        *)
LEMMA OneMore == ASSUME NEW x PROVE IsList(<<x>>) /\ Len(<<x>>) = 1 /\ <<x>>[1] = x /\ DOMAIN <<x>> = 1 .. 1
<1>1. <<x>> \in Seq({x}) /\ Len(<<x>>) = 1 /\ <<x>>[1] = x
  OBVIOUS
<1>2. IsList(<<x>>)
  BY <1>1, ListOf
<1>3. DOMAIN <<x>> = 1 .. 1
  BY <1>1, <1>2, ListFacts
<1> QED  BY <1>1, <1>2, <1>3

(* A tool that is read is done and has one status.                         *)
LEMMA ToolReadEffect ==
    ASSUME LiveShape(live), NEW tool \in ToolNames, NEW source, NEW endpoints, IsList(endpoints),
           NEW needsId, NEW summarised, LiveShape(summarised),
           Same(live, summarised, {"tasks", "minutes"}),
           AppendToolSummary(tool, source, endpoints, needsId, summarised)
    PROVE  /\ live.step = "read" /\ tool \in live.tools
           /\ LiveShape(live') /\ Same(live, live', {"tools", "statuses", "tasks", "minutes"})
           /\ live'.tools = live.tools \ {tool}
           /\ \E st : st.tool = tool /\ live'.statuses = live.statuses \o <<st>>
           /\ CallsWithin(ToSet(endpoints))
           /\ \/ \E why : live' = ToolsDone({tool}, <<DegradedForTool(tool, why)>>)
              \/ live' = [summarised EXCEPT !.tools = @ \ {tool}, !.statuses = Append(@, Ready(tool))]
           /\ ReadStep
<1>1. live.step = "read" /\ tool \in live.tools
  BY NamesDiffer DEF AppendToolSummary, NextJob, Outstanding
<1>2. ReadStep /\ CallsWithin(ToSet(endpoints))
  <2>1. CASE UNCHANGED calls
    BY <2>1 DEF AppendToolSummary, CallsWithin
  <2>2. ASSUME NEW k \in DOMAIN endpoints, Calling(Called(endpoints, k)) PROVE CallsWithin(ToSet(endpoints))
    BY <2>2, CalledFacts, CallingFacts
  <2> QED  BY <2>1, <2>2 DEF AppendToolSummary
<1>3. \/ \E why : live' = ToolsDone({tool}, <<DegradedForTool(tool, why)>>)
      \/ live' = [summarised EXCEPT !.tools = @ \ {tool}, !.statuses = Append(@, Ready(tool))]
  BY DEF AppendToolSummary
<1> DEFINE Done == /\ LiveShape(live') /\ Same(live, live', {"tools", "statuses", "tasks", "minutes"})
                   /\ live'.tools = live.tools \ {tool}
                   /\ \E st : st.tool = tool /\ live'.statuses = live.statuses \o <<st>>
<1>a. DOMAIN live = LiveFields /\ IsList(live.statuses)
  BY DEF LiveShape
<1>4. ASSUME NEW why, live' = ToolsDone({tool}, <<DegradedForTool(tool, why)>>) PROVE Done
  <2> DEFINE st == DegradedForTool(tool, why)
  <2>1. st.tool = tool
    BY DEF DegradedForTool
  <2> HIDE DEF st
  <2>2. /\ DOMAIN live' = LiveFields /\ live'.tools = live.tools \ {tool}
        /\ live'.statuses = live.statuses \o <<st>> /\ Same(live, live', {"tools", "statuses", "tasks", "minutes"})
        /\ live'.asked = live.asked /\ live'.refs = live.refs /\ live'.degraded = live.degraded
        /\ live'.given = live.given
    BY <1>4, <1>a DEF ToolsDone, LiveFields, Same, st
  <2>3. IsList(live.statuses \o <<st>>)
    BY <1>a, OneMore, ListConcat
  <2>4. LiveShape(live')
    BY <2>2, <2>3 DEF LiveShape
  <2> QED  BY <2>1, <2>2, <2>4
<1>5. ASSUME live' = [summarised EXCEPT !.tools = @ \ {tool}, !.statuses = Append(@, Ready(tool))] PROVE Done
  <2> DEFINE st == Ready(tool)
  <2>1. st.tool = tool
    BY DEF Ready
  <2> HIDE DEF st
  <2>2. /\ DOMAIN summarised = LiveFields /\ summarised.tools = live.tools
        /\ summarised.statuses = live.statuses /\ summarised.asked = live.asked
        /\ summarised.refs = live.refs /\ summarised.degraded = live.degraded /\ summarised.given = live.given
    BY DEF LiveShape, Same, LiveFields
  <2>3. /\ DOMAIN live' = LiveFields /\ live'.tools = live.tools \ {tool}
        /\ live'.statuses = Append(live.statuses, st)
        /\ Same(summarised, live', {"tools", "statuses"})
    BY <1>5, <2>2 DEF LiveFields, Same, st
  <2>4. Same(live, live', {"tools", "statuses", "tasks", "minutes"})
    BY <2>3 DEF Same
  <2>5. /\ live'.asked = live.asked /\ live'.refs = live.refs /\ live'.degraded = live.degraded
        /\ live'.given = live.given
    BY <2>4 DEF Same, LiveFields
  <2>6. Append(live.statuses, st) = live.statuses \o <<st>>
    <3>1. live.statuses \in Seq(ToSet(live.statuses) \cup {st})
      BY <1>a, SeqMonotonic DEF IsList
    <3> QED  BY <3>1, AppendIsConcat
  <2>7. IsList(live.statuses \o <<st>>)
    BY <1>a, OneMore, ListConcat
  <2>8. LiveShape(live')
    BY <2>3, <2>5, <2>6, <2>7 DEF LiveShape
  <2> QED  BY <2>1, <2>3, <2>4, <2>6, <2>8
<1> QED  BY <1>1, <1>2, <1>3, <1>4, <1>5

(* The shape of what ToolsDone and RefsDone leave.                         *)
LEMMA ToolsDoneFacts ==
    ASSUME LiveShape(live), NEW tools, NEW new, IsList(new)
    PROVE  LET m == ToolsDone(tools, new)
           IN  /\ LiveShape(m) /\ Same(live, m, {"tools", "statuses"})
               /\ m.tools = live.tools \ tools /\ m.statuses = live.statuses \o new
<1> DEFINE m == ToolsDone(tools, new)
<1>1. DOMAIN live = LiveFields /\ IsList(live.statuses \o new)
  BY ListConcat DEF LiveShape
<1>2. /\ DOMAIN m = LiveFields /\ Same(live, m, {"tools", "statuses"})
      /\ m.tools = live.tools \ tools /\ m.statuses = live.statuses \o new
      /\ m.asked = live.asked /\ m.refs = live.refs /\ m.degraded = live.degraded /\ m.given = live.given
  BY <1>1 DEF ToolsDone, LiveFields, Same
<1> HIDE DEF m
<1>3. LiveShape(m)
  BY <1>1, <1>2 DEF LiveShape
<1> QED  BY <1>2, <1>3 DEF m

(* References of a source are taken from those to read, with new statuses. *)
RefsTaken(source, left, new, m) ==
    /\ LiveShape(m) /\ Same(live, m, {"refs", "statuses"})
    /\ m.statuses = live.statuses \o new
    /\ m.refs[source] = left /\ \A s \in Sources \ {source} : m.refs[s] = live.refs[s]

(* That is what RefsDone does.                                             *)
LEMMA RefsDoneFacts ==
    ASSUME LiveShape(live), NEW source \in Sources, NEW left, IsList(left), NEW new, IsList(new)
    PROVE  RefsTaken(source, left, new, RefsDone(source, left, new))
<1> DEFINE m == RefsDone(source, left, new)
<1>1. DOMAIN live = LiveFields /\ IsList(live.statuses \o new) /\ DOMAIN live.refs = Sources
  BY ListConcat DEF LiveShape
<1>2. /\ DOMAIN m = LiveFields /\ Same(live, m, {"refs", "statuses"})
      /\ m.refs = [live.refs EXCEPT ![source] = left] /\ m.statuses = live.statuses \o new
      /\ m.asked = live.asked /\ m.tools = live.tools /\ m.degraded = live.degraded /\ m.given = live.given
  BY <1>1 DEF RefsDone, LiveFields, Same
<1> HIDE DEF m
<1>3. m.refs[source] = left /\ DOMAIN m.refs = Sources /\ \A s \in Sources \ {source} : m.refs[s] = live.refs[s]
  BY <1>1, <1>2
<1>4. \A s \in Sources : IsList(m.refs[s])
  BY <1>3 DEF LiveShape
<1>5. LiveShape(m)
  BY <1>1, <1>2, <1>3, <1>4 DEF LiveShape
<1> QED  BY <1>2, <1>3, <1>5 DEF RefsTaken, m

(* One reference is read: shown, or said not to be.                        *)
LEMMA EvidenceEffect ==
    ASSUME LiveShape(live), NEW source \in Sources, AppendEvidence(source),
           \A r : IsList(RefEndpoints(source, r))
    PROVE  /\ live.step = "read" /\ live.refs[source] # <<>>
           /\ CallsWithin(ToSet(RefEndpoints(source, Head(live.refs[source])))) /\ ReadStep
           /\ \E st : /\ st = Ready("") \/ \E why : st = DegradedForTool("", why)
                      /\ live' = RefsDone(source, Tail(live.refs[source]), <<st>>)
<1>1. live.step = "read" /\ live.refs[source] # <<>>
  BY NamesDiffer DEF AppendEvidence, NextJob, Outstanding
<1> DEFINE endpoints == RefEndpoints(source, Head(live.refs[source]))
<1>2. PICK k \in DOMAIN endpoints, answer \in Answers :
         /\ Calling(Called(endpoints, k))
         /\ live' = RefsDone(source, Tail(live.refs[source]),
                       <<IF Succeeded(endpoints, k, answer) THEN Ready("")
                         ELSE DegradedForTool("", ReadErrorReason(source, answer))>>)
  BY DEF AppendEvidence
<1>3. ReadStep
  BY DEF AppendEvidence
<1>4. CallsWithin(ToSet(endpoints))
  <2>1. IsList(endpoints)  OBVIOUS
  <2> HIDE DEF endpoints
  <2> QED  BY <1>2, <2>1, CalledFacts, CallingFacts
<1> DEFINE st == IF Succeeded(endpoints, k, answer) THEN Ready("")
                 ELSE DegradedForTool("", ReadErrorReason(source, answer))
<1>5. st = Ready("") \/ \E why : st = DegradedForTool("", why)
  OBVIOUS
<1>6. live' = RefsDone(source, Tail(live.refs[source]), <<st>>)
  BY <1>2
<1> HIDE DEF st
<1> QED  BY <1>1, <1>3, <1>4, <1>5, <1>6

(* The OKR references are read in one batch.                               *)
LEMMA OkrEvidenceEffect ==
    ASSUME LiveShape(live), AppendOkrEvidence
    PROVE  /\ live.step = "read" /\ live.refs["okr"] # <<>>
           /\ CallsWithin(ToSet(OkrBatchGetEndpoints)) /\ ReadStep
           /\ \/ live' = RefsDone("okr", <<>>, [i \in DOMAIN live.refs["okr"] |-> Ready("")])
              \/ \E why : live' = RefsDone("okr", <<>>, <<DegradedForTool("", why)>>)
<1>1. live.step = "read" /\ live.refs["okr"] # <<>>
  <2>1. "okr" \in Sources /\ "okr" # "okr_tools"
    BY DEF Sources
  <2> QED  BY <2>1 DEF AppendOkrEvidence, NextJob, Outstanding
<1>2. ReadStep /\ Calling(ToSet(OkrBatchGetEndpoints))
  BY DEF AppendOkrEvidence
<1>3. CallsWithin(ToSet(OkrBatchGetEndpoints))
  BY <1>2, CallingFacts
<1>4. \/ live' = RefsDone("okr", <<>>, [i \in DOMAIN live.refs["okr"] |-> Ready("")])
      \/ \E why : live' = RefsDone("okr", <<>>, <<DegradedForTool("", why)>>)
  BY DEF AppendOkrEvidence
<1> QED  BY <1>1, <1>2, <1>3, <1>4

(* The endpoints of the operations are lists.                              *)
LEMMA EndpointLists ==
    /\ IsList(TaskListEndpoints) /\ IsList(MinuteSearchEndpoints)
    /\ IsList(CalendarFreeBusyEndpoints) /\ IsList(CalendarEventsEndpoints)
    /\ IsList(OkrTopologyEndpoints) /\ IsList(OkrProgressEndpoints)
    /\ \A s \in Sources : \A r : IsList(RefEndpoints(s, r))
<1>1. IsList(TaskListEndpoints) /\ IsList(MinuteSearchEndpoints) /\ IsList(CalendarFreeBusyEndpoints)
  BY OneMore DEF TaskListEndpoints, MinuteSearchEndpoints, CalendarFreeBusyEndpoints
<1>2. IsList(CalendarEventsEndpoints)
  <2>1. <<"primary_calendar", "event_instance_view">> \in Seq({"primary_calendar", "event_instance_view"})
    OBVIOUS
  <2> QED  BY <2>1, ListOf DEF CalendarEventsEndpoints
<1>3. IsList(OkrTopologyEndpoints)
  <2> DEFINE T == {"list_cycles", "list_cycle_objectives", "list_objective_key_results"}
  <2>1. <<"list_cycles", "list_cycle_objectives", "list_objective_key_results">> \in Seq(T)
    OBVIOUS
  <2> HIDE DEF T
  <2> QED  BY <2>1, ListOf DEF OkrTopologyEndpoints
<1>4. IsList(OkrProgressEndpoints) /\ IsList(OkrBatchGetEndpoints) /\ IsList(CalendarEventEndpoints)
      /\ IsList(TaskEndpoints) /\ IsList(MinuteEndpoints)
  BY OneMore DEF OkrProgressEndpoints, OkrBatchGetEndpoints, CalendarEventEndpoints, TaskEndpoints,
                 MinuteEndpoints
<1>5. ASSUME NEW r PROVE IsList(DocEndpoints(r))
  <2> DEFINE T == {"wiki_node", "docx_metadata", "docx_raw_content"}
  <2>1. <<"wiki_node", "docx_metadata", "docx_raw_content">> \in Seq(T)
        /\ <<"docx_metadata", "docx_raw_content">> \in Seq(T)
    OBVIOUS
  <2>2. DocEndpoints(r) \in Seq(T)
    BY <2>1 DEF DocEndpoints
  <2> HIDE DEF T
  <2> QED  BY <2>2, ListOf
<1>6. ASSUME NEW s \in Sources, NEW r PROVE IsList(RefEndpoints(s, r))
  BY <1>4, <1>5 DEF Sources, RefEndpoints
<1> QED  BY <1>1, <1>2, <1>3, <1>4, <1>6

(* The endpoints of the OKR tools asked for.                               *)
OkrEndpoints == ToSet(OkrTopologyEndpoints)
                \cup (IF "OkrProgress" \in live.tools THEN ToSet(OkrProgressEndpoints) ELSE {})

(* The OKR tools get one status each; where progress is shown it is what   *)
(* was discovered in the topology.                                         *)
LEMMA OkrSummariesEffect ==
    ASSUME LiveShape(live), AppendOkrSummaries
    PROVE  /\ live.step = "read" /\ CallsWithin(OkrEndpoints) /\ ReadStep
           /\ LiveShape(live') /\ Same(live, live', {"tools", "statuses", "okr", "progress"})
           /\ live'.tools = live.tools \ OkrTools
           /\ \E new : /\ IsList(new) /\ live'.statuses = live.statuses \o new
                       /\ DOMAIN new = DOMAIN OkrToolsAsked
                       /\ \A i \in DOMAIN new : new[i].tool = OkrToolsAsked[i]
                       /\ (\E i \in DOMAIN new : new[i] = Ready("OkrProgress")) =>
                             live'.progress = ReadMyOkrProgressSummaryFromTopology(
                                ReadMyOkrTopology(feishu.cycles,
                                    OptionsForRequestedTools("OkrSummary" \in live.tools, TRUE)), feishu.wording)
<1> DEFINE summary == "OkrSummary" \in live.tools
           progress == "OkrProgress" \in live.tools
           topology == ReadMyOkrTopology(feishu.cycles, OptionsForRequestedTools(summary, progress))
<1>1. live.step = "read" /\ ReadStep
  BY DEF AppendOkrSummaries, NextJob
<1>2. DOMAIN live = LiveFields /\ IsList(OkrToolsAsked) /\ ToSet(OkrToolsAsked) = live.tools \cap OkrTools
  <2>1. live.tools \cap OkrTools \in SUBSET ToolNames
    BY NamesDiffer
  <2> QED  BY <2>1, InOrderFacts DEF OkrToolsAsked, LiveShape
<1>3. Len(OkrToolsAsked) \in Nat /\ DOMAIN OkrToolsAsked = 1 .. Len(OkrToolsAsked)
  BY <1>2, ListFacts
<1>4. Ready("OkrProgress").state = "ready"
  BY DEF Ready
<1>5. ASSUME NEW why
      PROVE  /\ IsList(PushOkrToolDegraded(why)) /\ DOMAIN PushOkrToolDegraded(why) = DOMAIN OkrToolsAsked
             /\ \A i \in DOMAIN OkrToolsAsked :
                   /\ PushOkrToolDegraded(why)[i].tool = OkrToolsAsked[i]
                   /\ PushOkrToolDegraded(why)[i] # Ready("OkrProgress")
  <2> DEFINE f == PushOkrToolDegraded(why)
  <2>1. DOMAIN f = 1 .. Len(OkrToolsAsked) /\ f = [i \in DOMAIN f |-> f[i]]
    BY <1>3 DEF PushOkrToolDegraded
  <2>2. \A i \in DOMAIN OkrToolsAsked : f[i] = DegradedForTool(OkrToolsAsked[i], why)
    BY DEF PushOkrToolDegraded
  <2> HIDE DEF f
  <2>3. IsList(f)
    BY <1>3, <2>1, ListOnInterval
  <2>a. \A t : DegradedForTool(t, why).tool = t /\ DegradedForTool(t, why).state = "degraded"
    BY DEF DegradedForTool
  <2>4. \A i \in DOMAIN OkrToolsAsked : f[i].tool = OkrToolsAsked[i] /\ f[i].state = "degraded"
    BY <2>2, <2>a
  <2>5. \A i \in DOMAIN OkrToolsAsked : f[i] # Ready("OkrProgress")
    BY <1>4, <2>4
  <2>6. DOMAIN f = DOMAIN OkrToolsAsked
    BY <1>3, <2>1
  <2> QED  BY <2>3, <2>4, <2>5, <2>6 DEF f
<1> DEFINE Reported(new) ==
              /\ LiveShape(live') /\ Same(live, live', {"tools", "statuses", "okr", "progress"})
              /\ live'.tools = live.tools \ OkrTools
              /\ IsList(new) /\ live'.statuses = live.statuses \o new
              /\ DOMAIN new = DOMAIN OkrToolsAsked
              /\ \A i \in DOMAIN new : new[i].tool = OkrToolsAsked[i]
              /\ (\E i \in DOMAIN new : new[i] = Ready("OkrProgress")) =>
                    live'.progress = ReadMyOkrProgressSummaryFromTopology(
                       ReadMyOkrTopology(feishu.cycles, OptionsForRequestedTools(summary, TRUE)), feishu.wording)
<1>6. ASSUME NEW why, live' = ToolsDone(OkrTools, PushOkrToolDegraded(why))
      PROVE  Reported(PushOkrToolDegraded(why))
  <2>1. /\ LiveShape(live') /\ Same(live, live', {"tools", "statuses"})
        /\ live'.tools = live.tools \ OkrTools /\ live'.statuses = live.statuses \o PushOkrToolDegraded(why)
    BY <1>5, <1>6, ToolsDoneFacts
  <2>2. Same(live, live', {"tools", "statuses", "okr", "progress"})
    BY <2>1 DEF Same
  <2> QED  BY <1>5, <2>1, <2>2
<1>7. CASE /\ live.openId # "known"
           /\ live' = ToolsDone(OkrTools, PushOkrToolDegraded("no_identity"))
           /\ UNCHANGED calls
  <2>1. CallsWithin(OkrEndpoints)
    BY <1>7 DEF CallsWithin
  <2> HIDE DEF Reported
  <2>2. Reported(PushOkrToolDegraded("no_identity"))
    BY <1>6, <1>7
  <2> QED  BY <1>1, <2>1, <2>2 DEF Reported
<1>8. ASSUME NEW k \in DOMAIN OkrTopologyEndpoints, NEW answer \in Answers \ {"2xx"},
             Calling(Called(OkrTopologyEndpoints, k)),
             live' = ToolsDone(OkrTools, PushOkrToolDegraded(ReadErrorReason("okr", answer)))
      PROVE  CallsWithin(OkrEndpoints) /\ Reported(PushOkrToolDegraded(ReadErrorReason("okr", answer)))
  <2>1. Called(OkrTopologyEndpoints, k) \subseteq OkrEndpoints
    <3>1. Called(OkrTopologyEndpoints, k) \subseteq ToSet(OkrTopologyEndpoints)
      BY EndpointLists, CalledFacts
    <3> QED  BY <3>1 DEF OkrEndpoints
  <2> HIDE DEF Reported
  <2> QED  BY <1>6, <1>8, <2>1, CallingFacts
<1> DEFINE Status(i, answer) ==
              IF OkrToolsAsked[i] = "OkrProgress" /\ answer # "2xx"
              THEN DegradedForTool("OkrProgress", ReadErrorReason("okr", answer))
              ELSE Ready(OkrToolsAsked[i])
           Shows(answer) == [i \in DOMAIN OkrToolsAsked |-> Status(i, answer)]
<1>9. ASSUME NEW answer,
             Calling(ToSet(OkrTopologyEndpoints \o IF progress THEN OkrProgressEndpoints ELSE <<>>)),
             live' = [ToolsDone(OkrTools, Shows(answer))
                        EXCEPT !.okr = IF summary THEN BuildMyOkrSummaryFromTopology(topology) ELSE @,
                               !.progress = IF progress /\ answer = "2xx"
                                            THEN ReadMyOkrProgressSummaryFromTopology(topology, feishu.wording) ELSE @]
      PROVE  CallsWithin(OkrEndpoints) /\ Reported(Shows(answer))
  <2>1. CallsWithin(OkrEndpoints)
    <3> DEFINE more == IF progress THEN OkrProgressEndpoints ELSE <<>>
               all == OkrTopologyEndpoints \o more
    <3>1. IsList(OkrTopologyEndpoints) /\ IsList(more)
      BY EndpointLists, NoList
    <3>2. OkrEndpoints = ToSet(OkrTopologyEndpoints) \cup ToSet(more)
      BY DEF OkrEndpoints, ToSet
    <3> HIDE DEF more
    <3>3. IsList(all) /\ Len(all) = Len(OkrTopologyEndpoints) + Len(more)
          /\ (\A i \in 1 .. Len(OkrTopologyEndpoints) : all[i] = OkrTopologyEndpoints[i])
          /\ \A i \in 1 .. Len(more) : all[Len(OkrTopologyEndpoints) + i] = more[i]
      BY <3>1, ListConcat
    <3>4. /\ Len(OkrTopologyEndpoints) \in Nat /\ DOMAIN OkrTopologyEndpoints = 1 .. Len(OkrTopologyEndpoints)
          /\ Len(more) \in Nat /\ DOMAIN more = 1 .. Len(more)
      BY <3>1, ListFacts
    <3> HIDE DEF all
    <3>5. DOMAIN all = 1 .. Len(OkrTopologyEndpoints) + Len(more)
      BY <3>3, ListFacts
    <3>6. ASSUME NEW i \in DOMAIN all PROVE all[i] \in OkrEndpoints
      <4>1. CASE i \in 1 .. Len(OkrTopologyEndpoints)
        BY <4>1, <3>2, <3>3, <3>4 DEF ToSet
      <4>2. CASE i \notin 1 .. Len(OkrTopologyEndpoints)
        <5>1. i - Len(OkrTopologyEndpoints) \in 1 .. Len(more)
              /\ i = Len(OkrTopologyEndpoints) + (i - Len(OkrTopologyEndpoints))
          BY <4>2, <3>4, <3>5
        <5>2. all[i] = more[i - Len(OkrTopologyEndpoints)]
          BY <5>1, <3>3
        <5> QED  BY <5>1, <5>2, <3>2, <3>4 DEF ToSet
      <4> QED  BY <4>1, <4>2
    <3>7. ToSet(all) \subseteq OkrEndpoints
      BY <3>6 DEF ToSet
    <3>8. Calling(ToSet(all))
      BY <1>9 DEF all, more
    <3> QED  BY <3>7, <3>8, CallingFacts
  <2> DEFINE new == Shows(answer)
  <2>2. DOMAIN new = 1 .. Len(OkrToolsAsked) /\ new = [i \in DOMAIN new |-> new[i]]
    BY <1>3
  <2>3. ASSUME NEW i \in DOMAIN OkrToolsAsked
        PROVE  new[i].tool = OkrToolsAsked[i] /\ (new[i] = Ready("OkrProgress") => progress /\ answer = "2xx")
    <3>1. new[i] = Status(i, answer)
      OBVIOUS
    <3>2. CASE OkrToolsAsked[i] = "OkrProgress" /\ answer # "2xx"
      <4>1. new[i].tool = "OkrProgress" /\ new[i].state = "degraded"
        BY <3>1, <3>2 DEF DegradedForTool
      <4> QED  BY <3>2, <4>1, <1>4
    <3>3. CASE ~(OkrToolsAsked[i] = "OkrProgress" /\ answer # "2xx")
      <4>1. new[i].tool = OkrToolsAsked[i]
        BY <3>1, <3>3 DEF Ready
      <4>2. ASSUME new[i] = Ready("OkrProgress") PROVE progress /\ answer = "2xx"
        <5>1. OkrToolsAsked[i] = "OkrProgress"
          BY <4>1, <4>2 DEF Ready
        <5>2. OkrToolsAsked[i] \in live.tools
          BY <1>2 DEF ToSet
        <5> QED  BY <5>1, <5>2, <3>3
      <4> QED  BY <4>1, <4>2
    <3> QED  BY <3>2, <3>3
  <2> HIDE DEF new
  <2>4. IsList(new)
    BY <1>3, <2>2, ListOnInterval
  <2> DEFINE m == ToolsDone(OkrTools, new)
  <2>5. /\ LiveShape(m) /\ Same(live, m, {"tools", "statuses"})
        /\ m.tools = live.tools \ OkrTools /\ m.statuses = live.statuses \o new
    BY <2>4, ToolsDoneFacts
  <2>6. live' = [m EXCEPT !.okr = IF summary THEN BuildMyOkrSummaryFromTopology(topology) ELSE @,
                          !.progress = IF progress /\ answer = "2xx"
                                       THEN ReadMyOkrProgressSummaryFromTopology(topology, feishu.wording) ELSE @]
    BY <1>9 DEF m, new
  <2> HIDE DEF m, topology
  <2>7. DOMAIN m = LiveFields
    BY <2>5 DEF LiveShape
  <2>8. /\ DOMAIN live' = LiveFields /\ Same(m, live', {"okr", "progress"})
        /\ progress /\ answer = "2xx" => live'.progress = ReadMyOkrProgressSummaryFromTopology(topology, feishu.wording)
    BY <2>6, <2>7 DEF LiveFields, Same
  <2>9. /\ live'.tools = m.tools /\ live'.statuses = m.statuses /\ live'.asked = m.asked
        /\ live'.refs = m.refs /\ live'.degraded = m.degraded /\ live'.given = m.given
    BY <2>8 DEF Same, LiveFields
  <2>10. Same(live, live', {"tools", "statuses", "okr", "progress"})
    BY <2>5, <2>8 DEF Same
  <2>11. LiveShape(live')
    BY <2>5, <2>8, <2>9 DEF LiveShape
  <2>12. progress => topology = ReadMyOkrTopology(feishu.cycles, OptionsForRequestedTools(summary, TRUE))
    <3>1. progress => progress = TRUE
      OBVIOUS
    <3> QED  BY <3>1 DEF topology
  <2>13. Reported(new)
    BY <1>3, <2>2, <2>3, <2>4, <2>5, <2>8, <2>9, <2>10, <2>11, <2>12
  <2> QED  BY <2>1, <2>13 DEF new
<1>10. \/ /\ live.openId # "known"
          /\ live' = ToolsDone(OkrTools, PushOkrToolDegraded("no_identity"))
          /\ UNCHANGED calls
       \/ \E k \in DOMAIN OkrTopologyEndpoints, answer \in Answers \ {"2xx"} :
             /\ Calling(Called(OkrTopologyEndpoints, k))
             /\ live' = ToolsDone(OkrTools, PushOkrToolDegraded(ReadErrorReason("okr", answer)))
       \/ \E answer :
             /\ Calling(ToSet(OkrTopologyEndpoints \o IF progress THEN OkrProgressEndpoints ELSE <<>>))
             /\ live' = [ToolsDone(OkrTools, Shows(answer))
                        EXCEPT !.okr = IF summary THEN BuildMyOkrSummaryFromTopology(topology) ELSE @,
                               !.progress = IF progress /\ answer = "2xx"
                                            THEN ReadMyOkrProgressSummaryFromTopology(topology, feishu.wording) ELSE @]
  BY Zenon DEF AppendOkrSummaries
<1> HIDE DEF Shows, topology
<1>11. (\E new : Reported(new)) /\ CallsWithin(OkrEndpoints)
  <2>1. CASE \E k \in DOMAIN OkrTopologyEndpoints, answer \in Answers \ {"2xx"} :
             /\ Calling(Called(OkrTopologyEndpoints, k))
             /\ live' = ToolsDone(OkrTools, PushOkrToolDegraded(ReadErrorReason("okr", answer)))
    <3> HIDE DEF Reported
    <3> QED  BY <2>1, <1>8
  <2>2. CASE /\ live.openId # "known"
             /\ live' = ToolsDone(OkrTools, PushOkrToolDegraded("no_identity"))
             /\ UNCHANGED calls
    <3>1. CallsWithin(OkrEndpoints)
      BY <2>2 DEF CallsWithin
    <3> HIDE DEF Reported
    <3> QED  BY <1>6, <2>2, <3>1
  <2> HIDE DEF Reported
  <2> QED  BY <2>1, <2>2, <1>9, <1>10
<1> QED  BY <1>1, <1>11

-----------------------------------------------------------------------------
(* Reads within the grant *)

(* The endpoints of each operation.                                        *)
LEMMA EndpointsOf ==
    /\ ToSet(TaskListEndpoints) = {"list_tasks"} /\ ToSet(MinuteSearchEndpoints) = {"search_minutes"}
    /\ ToSet(CalendarFreeBusyEndpoints) = {"free_busy_batch"}
    /\ ToSet(CalendarEventsEndpoints) = {"primary_calendar", "event_instance_view"}
    /\ ToSet(OkrTopologyEndpoints) = {"list_cycles", "list_cycle_objectives", "list_objective_key_results"}
    /\ ToSet(OkrProgressEndpoints) = {"list_progress"} /\ ToSet(OkrBatchGetEndpoints) = {"batch_get_okrs"}
    /\ ToSet(CalendarEventEndpoints) = {"get_event"} /\ ToSet(TaskEndpoints) = {"get_task"}
    /\ ToSet(MinuteEndpoints) = {"get_minute"}
    /\ \A r : ToSet(DocEndpoints(r)) = (IF r.wiki THEN {"wiki_node"} ELSE {}) \cup {"docx_metadata", "docx_raw_content"}
<1>1. ASSUME NEW a PROVE ToSet(<<a>>) = {a}
  <2>1. DOMAIN <<a>> = {1} /\ <<a>>[1] = a  OBVIOUS
  <2> QED  BY <2>1 DEF ToSet
<1>2. ASSUME NEW a, NEW b PROVE ToSet(<<a, b>>) = {a, b}
  <2>1. DOMAIN <<a, b>> = {1, 2} /\ <<a, b>>[1] = a /\ <<a, b>>[2] = b  OBVIOUS
  <2> QED  BY <2>1 DEF ToSet
<1>3. ASSUME NEW a, NEW b, NEW c PROVE ToSet(<<a, b, c>>) = {a, b, c}
  <2>1. DOMAIN <<a, b, c>> = {1, 2, 3} /\ <<a, b, c>>[1] = a /\ <<a, b, c>>[2] = b /\ <<a, b, c>>[3] = c
    OBVIOUS
  <2> QED  BY <2>1 DEF ToSet
<1>4. /\ ToSet(TaskListEndpoints) = {"list_tasks"} /\ ToSet(MinuteSearchEndpoints) = {"search_minutes"}
      /\ ToSet(CalendarFreeBusyEndpoints) = {"free_busy_batch"}
      /\ ToSet(OkrProgressEndpoints) = {"list_progress"} /\ ToSet(OkrBatchGetEndpoints) = {"batch_get_okrs"}
      /\ ToSet(CalendarEventEndpoints) = {"get_event"} /\ ToSet(TaskEndpoints) = {"get_task"}
      /\ ToSet(MinuteEndpoints) = {"get_minute"}
  BY <1>1 DEF TaskListEndpoints, MinuteSearchEndpoints, CalendarFreeBusyEndpoints, OkrProgressEndpoints,
              OkrBatchGetEndpoints, CalendarEventEndpoints, TaskEndpoints, MinuteEndpoints
<1>5. ToSet(CalendarEventsEndpoints) = {"primary_calendar", "event_instance_view"}
  BY <1>2 DEF CalendarEventsEndpoints
<1>6. ToSet(OkrTopologyEndpoints) = {"list_cycles", "list_cycle_objectives", "list_objective_key_results"}
  BY <1>3 DEF OkrTopologyEndpoints
<1>7. ASSUME NEW r
      PROVE  ToSet(DocEndpoints(r)) = (IF r.wiki THEN {"wiki_node"} ELSE {}) \cup {"docx_metadata", "docx_raw_content"}
  <2>1. CASE r.wiki
    <3>1. DocEndpoints(r) = <<"wiki_node", "docx_metadata", "docx_raw_content">>
      BY <2>1 DEF DocEndpoints
    <3>2. ToSet(DocEndpoints(r)) = {"wiki_node", "docx_metadata", "docx_raw_content"}
      BY <3>1, <1>3
    <3> QED  BY <3>2, <2>1
  <2>2. CASE ~r.wiki
    <3>1. DocEndpoints(r) = <<"docx_metadata", "docx_raw_content">>
      BY <2>2 DEF DocEndpoints
    <3>2. ToSet(DocEndpoints(r)) = {"docx_metadata", "docx_raw_content"}
      BY <3>1, <1>2
    <3> QED  BY <3>2, <2>2
  <2> QED  BY <2>1, <2>2
<1> QED  BY <1>4, <1>5, <1>6, <1>7

(* What a tool requires are the scopes of its action types.                *)
LEMMA RequiredScopes ==
    ASSUME NEW t \in ToolNames, NEW scopes, RequiredFeishuScopes(t) \subseteq scopes
    PROVE  ToolActionTypes[t] \subseteq scopes
<1>1. ToolActionTypes[t] \subseteq ReadActionTypes
  BY DEF ToolNames, ToolActionTypes, ReadActionTypes
<1>2. ASSUME NEW x \in ToolActionTypes[t] PROVE x \in scopes
  <2>1. x \in ReadActionTypes /\ x \in ActionTypes
    BY <1>1 DEF ActionTypes
  <2>2. CapabilityMatrix[x].scopes = {x}
    BY <2>1 DEF CapabilityMatrix
  <2>3. x \in RequiredFeishuScopes(t)
    BY <2>2 DEF RequiredFeishuScopes, FeishuScopesForActionTypes
  <2> QED  BY <2>3
<1> QED  BY <1>2

(* Scopes that cover a tool permit its endpoints.                          *)
LEMMA ToolsPermitted ==
    ASSUME NEW scopes
    PROVE  /\ RequiredFeishuScopes("TaskSummary") \subseteq scopes
                => \A e \in ToSet(TaskListEndpoints) : Permits(scopes, e)
           /\ RequiredFeishuScopes("MinutesSummary") \subseteq scopes
                => \A e \in ToSet(MinuteSearchEndpoints) : Permits(scopes, e)
           /\ RequiredFeishuScopes("CalendarFreeBusy") \subseteq scopes
                => \A e \in ToSet(CalendarFreeBusyEndpoints) : Permits(scopes, e)
           /\ RequiredFeishuScopes("CalendarEvents") \subseteq scopes
                => \A e \in ToSet(CalendarEventsEndpoints) : Permits(scopes, e)
           /\ \A t \in OkrTools : RequiredFeishuScopes(t) \subseteq scopes
                => \A e \in ToSet(OkrTopologyEndpoints) : Permits(scopes, e)
           /\ RequiredFeishuScopes("OkrProgress") \subseteq scopes
                => \A e \in ToSet(OkrProgressEndpoints) : Permits(scopes, e)
<1>1. /\ ToolActionTypes["TaskSummary"] = {"TaskRead"}
      /\ ToolActionTypes["MinutesSummary"] = {"MinutesSearchRead"}
      /\ ToolActionTypes["CalendarFreeBusy"] = {"CalendarFreeBusyRead"}
      /\ ToolActionTypes["CalendarEvents"] = {"CalendarRead", "CalendarEventRead"}
      /\ ToolActionTypes["OkrSummary"] = {"OkrPeriodRead", "OkrContentRead"}
      /\ ToolActionTypes["OkrProgress"] = {"OkrPeriodRead", "OkrContentRead", "OkrProgressRead"}
  BY DEF ToolActionTypes
<1>2. /\ EndpointScopes["list_tasks"] = {{"TaskRead"}} /\ EndpointScopes["search_minutes"] = {{"MinutesSearchRead"}}
      /\ EndpointScopes["free_busy_batch"] = {{"CalendarFreeBusyRead"}}
      /\ EndpointScopes["primary_calendar"] = {{"CalendarRead"}}
      /\ EndpointScopes["event_instance_view"] = {{"CalendarEventRead"}}
      /\ EndpointScopes["list_cycles"] = {{"OkrPeriodRead"}}
      /\ EndpointScopes["list_cycle_objectives"] = {{"OkrContentRead"}}
      /\ EndpointScopes["list_objective_key_results"] = {{"OkrContentRead"}}
      /\ EndpointScopes["list_progress"] = {{"OkrProgressRead"}}
  BY DEF EndpointScopes
<1>3. ASSUME NEW e, NEW a \in scopes, EndpointScopes[e] = {{a}} PROVE Permits(scopes, e)
  BY <1>3 DEF Permits
<1>4. ASSUME RequiredFeishuScopes("TaskSummary") \subseteq scopes
      PROVE  \A e \in ToSet(TaskListEndpoints) : Permits(scopes, e)
  <2>1. "TaskRead" \in scopes
    BY <1>1, <1>4, RequiredScopes DEF ToolNames
  <2> QED  BY <2>1, <1>2, <1>3, EndpointsOf
<1>5. ASSUME RequiredFeishuScopes("MinutesSummary") \subseteq scopes
      PROVE  \A e \in ToSet(MinuteSearchEndpoints) : Permits(scopes, e)
  <2>1. "MinutesSearchRead" \in scopes
    BY <1>1, <1>5, RequiredScopes DEF ToolNames
  <2> QED  BY <2>1, <1>2, <1>3, EndpointsOf
<1>6. ASSUME RequiredFeishuScopes("CalendarFreeBusy") \subseteq scopes
      PROVE  \A e \in ToSet(CalendarFreeBusyEndpoints) : Permits(scopes, e)
  <2>1. "CalendarFreeBusyRead" \in scopes
    BY <1>1, <1>6, RequiredScopes DEF ToolNames
  <2> QED  BY <2>1, <1>2, <1>3, EndpointsOf
<1>7. ASSUME RequiredFeishuScopes("CalendarEvents") \subseteq scopes
      PROVE  \A e \in ToSet(CalendarEventsEndpoints) : Permits(scopes, e)
  <2>1. "CalendarRead" \in scopes /\ "CalendarEventRead" \in scopes
    BY <1>1, <1>7, RequiredScopes DEF ToolNames
  <2>2. Permits(scopes, "primary_calendar") /\ Permits(scopes, "event_instance_view")
    BY <2>1, <1>2, <1>3
  <2> QED  BY <2>2, EndpointsOf
<1>8. ASSUME NEW t \in OkrTools, RequiredFeishuScopes(t) \subseteq scopes
      PROVE  \A e \in ToSet(OkrTopologyEndpoints) : Permits(scopes, e)
  <2>1. "OkrPeriodRead" \in scopes /\ "OkrContentRead" \in scopes
    <3>1. ToolActionTypes[t] \subseteq scopes
      BY <1>8, RequiredScopes, NamesDiffer
    <3>2. t = "OkrSummary" \/ t = "OkrProgress"
      BY DEF OkrTools
    <3>3. "OkrPeriodRead" \in ToolActionTypes[t] /\ "OkrContentRead" \in ToolActionTypes[t]
      BY <3>2, <1>1
    <3> QED  BY <3>1, <3>3
  <2>2. Permits(scopes, "list_cycles")
    BY <2>1, <1>2, <1>3
  <2>3. Permits(scopes, "list_cycle_objectives")
    BY <2>1, <1>2, <1>3
  <2>4. Permits(scopes, "list_objective_key_results")
    BY <2>1, <1>2, <1>3
  <2> QED  BY <2>2, <2>3, <2>4, EndpointsOf
<1>9. ASSUME RequiredFeishuScopes("OkrProgress") \subseteq scopes
      PROVE  \A e \in ToSet(OkrProgressEndpoints) : Permits(scopes, e)
  <2>1. "OkrProgressRead" \in scopes
    BY <1>1, <1>9, RequiredScopes DEF ToolNames
  <2> QED  BY <2>1, <1>2, <1>3, EndpointsOf
<1> QED  BY <1>4, <1>5, <1>6, <1>7, <1>8, <1>9

(* Scopes that cover a source permit the endpoints of its references; a    *)
(* wiki page needs one more.                                               *)
LEMMA RefsPermitted ==
    ASSUME NEW scopes, NEW s \in Sources, HasEvidenceReadScopes(scopes, s), NEW r,
           s = "doc" /\ r.wiki => "WikiNodeRead" \in scopes
    PROVE  \A e \in ToSet(RefEndpoints(s, r)) : Permits(scopes, e)
<1>1. /\ EndpointScopes["get_task"] = {{"TaskRead"}} /\ EndpointScopes["get_event"] = {{"CalendarEventRead"}}
      /\ EndpointScopes["wiki_node"] = {{"WikiNodeRead"}}
      /\ EndpointScopes["docx_metadata"] = {{"DocxDocumentRead"}}
      /\ EndpointScopes["docx_raw_content"] = {{"DocxDocumentRead"}}
      /\ EndpointScopes["get_minute"] = {{"MinutesBasicRead"}, {"minutes:minutes:readonly"}}
      /\ EndpointScopes["batch_get_okrs"] = {{"OkrContentRead", "OkrProgressRead"}}
  BY DEF EndpointScopes
<1>2. ASSUME NEW e, NEW a \in scopes, EndpointScopes[e] = {{a}} PROVE Permits(scopes, e)
  BY <1>2 DEF Permits
<1>3. CASE s = "okr"
  <2>1. "OkrContentRead" \in scopes /\ "OkrProgressRead" \in scopes
    BY <1>3 DEF HasEvidenceReadScopes
  <2>2. Permits(scopes, "batch_get_okrs")
    BY <2>1, <1>1 DEF Permits
  <2>3. RefEndpoints(s, r) = OkrBatchGetEndpoints
    BY <1>3 DEF RefEndpoints
  <2> QED  BY <2>2, <2>3, EndpointsOf
<1>4. CASE s = "task"
  <2>1. "TaskRead" \in scopes
    BY <1>4 DEF HasEvidenceReadScopes
  <2>2. RefEndpoints(s, r) = TaskEndpoints
    BY <1>4 DEF RefEndpoints
  <2> QED  BY <2>1, <2>2, <1>1, <1>2, EndpointsOf
<1>5. CASE s = "calendar"
  <2>1. "CalendarEventRead" \in scopes
    BY <1>5 DEF HasEvidenceReadScopes
  <2>2. RefEndpoints(s, r) = CalendarEventEndpoints
    BY <1>5 DEF RefEndpoints
  <2> QED  BY <2>1, <2>2, <1>1, <1>2, EndpointsOf
<1>6. CASE s = "doc"
  <2>1. "DocxDocumentRead" \in scopes
    BY <1>6 DEF HasEvidenceReadScopes
  <2>2. RefEndpoints(s, r) = DocEndpoints(r)
    BY <1>6 DEF RefEndpoints
  <2>3. Permits(scopes, "docx_metadata") /\ Permits(scopes, "docx_raw_content")
        /\ (r.wiki => Permits(scopes, "wiki_node"))
    BY SMTT(30), <1>1, <1>2, <1>6, <2>1
  <2> QED  BY <2>2, <2>3, EndpointsOf
<1>7. CASE s = "minutes"
  <2>1. "MinutesBasicRead" \in scopes \/ "minutes:minutes:readonly" \in scopes
    BY <1>7 DEF HasEvidenceReadScopes
  <2>2. Permits(scopes, "get_minute")
    BY <2>1, <1>1 DEF Permits
  <2>3. RefEndpoints(s, r) = MinuteEndpoints
    BY <1>7 DEF RefEndpoints
  <2> QED  BY <2>2, <2>3, EndpointsOf
<1> QED  BY <1>3, <1>4, <1>5, <1>6, <1>7 DEF Sources

(* No tool is planned for the data of others.                              *)
LEMMA NothingOfOthers ==
    ASSUME NEW request, TargetsNonSelf(LatestUserText(request))
    PROVE  PlanReadTools(request) = {}
<1> DEFINE text == LatestUserText(request)
<1>1. TargetsNonSelf(text)  OBVIOUS
<1> HIDE DEF text
<1>2. \A tool, words : ~RequestsTool(text, tool) /\ ~OwnWords(text, words)
  BY <1>1 DEF RequestsTool, OwnWords
<1>3. ~CalendarFreeBusyRequested(text) /\ ~CalendarEventsRequested(text)
  BY <1>2 DEF CalendarFreeBusyRequested, CalendarEventsRequested
<1>4. ~TaskSummaryRequested(text) /\ ~MinutesSummaryRequested(text)
  BY <1>1, <1>2 DEF TaskSummaryRequested, MinutesSummaryRequested
<1>5. OkrReadIntents(request) = {}
  <2>1. ~HasExplicitSelfOkrSummaryIntent(text) /\ ~HasExplicitSelfOkrProgressIntent(text)
        /\ ~HasContextualFeishuCountIntent(text)
    BY <1>2 DEF HasExplicitSelfOkrSummaryIntent, HasExplicitSelfOkrProgressIntent,
                HasContextualFeishuCountIntent
  <2> QED  BY <1>2, <2>1 DEF OkrReadIntents, text
<1> QED  BY <1>3, <1>4, <1>5 DEF PlanReadTools, text, ToolNames

(* The scopes of a token are those recorded when it was issued.            *)
Issued(token, scopes) == token \in DOMAIN granted /\ granted[token] = scopes
GrantFields == {"state", "token", "scopes", "stale", "keyOk"}

(* The inductive invariant: the grant, the row held and every call agree   *)
(* with what was issued, and a read about another user asks for nothing.   *)
ReadInv ==
    /\ LiveShape(live) /\ IsList(granted) /\ DOMAIN grant = GrantFields
    /\ Issued(grant.token, grant.scopes)
    /\ live.step \in {"refresh", "reload", "identity", "read"} => Issued(live.held.token, live.held.scopes)
    /\ live.step \in {"identity", "read"} => Demand(live.held.scopes, live)
    /\ \A c \in calls : c.token \in DOMAIN granted /\ Permits(granted[c.token], c.endpoint)
    /\ TargetsNonSelf(live.text) => live.asked = {}

(* Tokens once issued keep their scopes.                                   *)
LEMMA TokensStay ==
    ASSUME IsList(granted), granted' = granted \/ \E x : granted' = Append(granted, x)
    PROVE  IsList(granted') /\ \A t \in DOMAIN granted : t \in DOMAIN granted' /\ granted'[t] = granted[t]
<1>1. CASE granted' = granted
  BY <1>1
<1>2. ASSUME NEW x, granted' = Append(granted, x)
      PROVE  IsList(granted') /\ \A t \in DOMAIN granted : t \in DOMAIN granted' /\ granted'[t] = granted[t]
  <2>1. /\ IsList(granted') /\ Len(granted') = Len(granted) + 1
        /\ \A i \in 1 .. Len(granted) : granted'[i] = granted[i]
    BY <1>2, ListAppend
  <2>2. Len(granted) \in Nat /\ DOMAIN granted = 1 .. Len(granted) /\ DOMAIN granted' = 1 .. Len(granted')
    BY <2>1, ListFacts
  <2> QED  BY <2>1, <2>2
<1> QED  BY <1>1, <1>2

(* What a step must respect for the invariant to be kept.                  *)
LEMMA ReadInvKept ==
    ASSUME ReadInv, granted' = granted \/ \E x : granted' = Append(granted, x),
           DOMAIN grant' = GrantFields,
           grant'.token \in DOMAIN granted' /\ granted'[grant'.token] = grant'.scopes,
           \A c \in calls' \ calls : c.token \in DOMAIN granted /\ Permits(granted[c.token], c.endpoint),
           LiveShape(live'), TargetsNonSelf(live'.text) => live'.asked = {},
           live'.step \in {"refresh", "reload", "identity", "read"}
             => Issued(live'.held.token, live'.held.scopes),
           live'.step \in {"identity", "read"} => Demand(live'.held.scopes, live')
    PROVE  ReadInv'
<1>1. IsList(granted') /\ \A t \in DOMAIN granted : t \in DOMAIN granted' /\ granted'[t] = granted[t]
  BY TokensStay DEF ReadInv
<1>2. \A c \in calls' : c.token \in DOMAIN granted /\ Permits(granted[c.token], c.endpoint)
  BY DEF ReadInv
<1>3. \A c \in calls' : c.token \in DOMAIN granted' /\ Permits(granted'[c.token], c.endpoint)
  BY <1>1, <1>2
<1>4. live'.step \in {"refresh", "reload", "identity", "read"}
        => live'.held.token \in DOMAIN granted' /\ granted'[live'.held.token] = live'.held.scopes
  BY <1>1 DEF Issued
<1>5. LiveShape(live)'
  BY DEF LiveShape, IsList
<1>6. live'.step \in {"identity", "read"} => Demand(live.held.scopes, live)'
  BY DEF Demand
<1> QED  BY <1>1, <1>3, <1>4, <1>5, <1>6 DEF ReadInv, Issued, IsList

(* A step that leaves the grant and makes no call.                         *)
LEMMA QuietStep ==
    ASSUME ReadInv, UNCHANGED <<grant, granted, calls>>,
           LiveShape(live'), TargetsNonSelf(live'.text) => live'.asked = {},
           live'.step \in {"refresh", "reload", "identity", "read"}
             => Issued(live'.held.token, live'.held.scopes),
           live'.step \in {"identity", "read"} => Demand(live'.held.scopes, live')
    PROVE  ReadInv'
<1>1. /\ granted' = granted /\ DOMAIN grant' = GrantFields /\ calls' \ calls = {}
      /\ grant'.token \in DOMAIN granted' /\ granted'[grant'.token] = grant'.scopes
  BY DEF ReadInv, Issued
<1> QED  BY <1>1, ReadInvKept

(* A read that is closed.                                                  *)
LEMMA ClosingStep ==
    ASSUME ReadInv, UNCHANGED <<grant, granted, calls>>, NEW l, NEW why, LiveShape(l),
           live' = Close(l, why), TargetsNonSelf(l.text) => l.asked = {}
    PROVE  ReadInv'
<1>1. /\ LiveShape(live') /\ live'.step = "done" /\ live'.text = l.text /\ live'.asked = l.asked
  <2>1. /\ LiveShape(live') /\ live'.step = "done"
        /\ \A f \in LiveFields \ {"step", "statuses"} : live'[f] = l[f]
    BY ZenonT(60), CloseFacts
  <2> QED  BY <2>1 DEF LiveFields
<1> QED  BY <1>1, QuietStep

(* A read within the demand that was admitted.                             *)
LEMMA ReadingStep ==
    ASSUME ReadInv, live.step = "read", ReadStep, LiveShape(live'),
           Same(live, live', {"tools", "statuses", "refs", "tasks", "minutes", "okr", "progress"}),
           live'.tools \subseteq live.tools,
           \A s \in Sources : /\ live'.refs[s] # <<>> => live.refs[s] # <<>>
                              /\ ToSet(live'.refs[s]) \subseteq ToSet(live.refs[s]),
           NEW endpoints, CallsWithin(endpoints),
           \A e \in endpoints : Permits(live.held.scopes, e)
    PROVE  ReadInv'
<1>1. live'.step = live.step /\ live'.text = live.text /\ live'.asked = live.asked /\ live'.held = live.held
  BY DEF Same, LiveFields
<1>2. /\ granted' = granted /\ grant' = grant /\ DOMAIN grant' = GrantFields
      /\ grant'.token \in DOMAIN granted' /\ granted'[grant'.token] = grant'.scopes
  BY DEF ReadStep, ReadInv, Issued
<1>3. Issued(live.held.token, live.held.scopes) /\ Demand(live.held.scopes, live)
      /\ (TargetsNonSelf(live.text) => live.asked = {})
  BY DEF ReadInv
<1>4. \A c \in calls' \ calls : c.token \in DOMAIN granted /\ Permits(granted[c.token], c.endpoint)
  <2>1. ASSUME NEW c \in calls' \ calls PROVE c.token \in DOMAIN granted /\ Permits(granted[c.token], c.endpoint)
    <3>1. PICK e \in endpoints : c = [endpoint |-> e, token |-> live.held.token]
      BY DEF CallsWithin
    <3>2. c.endpoint = e /\ c.token = live.held.token
      BY <3>1
    <3> QED  BY <3>2, <1>3 DEF Issued
  <2> QED  BY <2>1
<1>5. Demand(live'.held.scopes, live')
  <2>1. \A t \in live'.tools : RequiredFeishuScopes(t) \subseteq live.held.scopes
    BY <1>3 DEF Demand
  <2>2. \A s \in Sources : live'.refs[s] # <<>> => HasEvidenceReadScopes(live.held.scopes, s)
    BY <1>3 DEF Demand
  <2>3. ASSUME NEW i \in DOMAIN live'.refs["doc"], live'.refs["doc"][i].wiki
        PROVE  "WikiNodeRead" \in live.held.scopes
    <3>1. live'.refs["doc"][i] \in ToSet(live.refs["doc"])
      <4>1. live'.refs["doc"][i] \in ToSet(live'.refs["doc"])
        BY DEF ToSet
      <4> QED  BY <4>1 DEF Sources
    <3>2. PICK j \in DOMAIN live.refs["doc"] : live.refs["doc"][j] = live'.refs["doc"][i]
      BY <3>1 DEF ToSet
    <3>3. live.refs["doc"][j].wiki
      BY <2>3, <3>2
    <3> QED  BY <1>3, <3>3 DEF Demand
  <2> QED  BY <1>1, <2>1, <2>2, <2>3 DEF Demand
<1> QED  BY <1>1, <1>2, <1>3, <1>4, <1>5, ReadInvKept

(* The steps of a read up to its first call.                               *)
LEMMA ReadInvStart ==
    ASSUME ReadInv, NEW request, IsList(request.refs), StartLiveRead(request)
    PROVE  ReadInv'
<1> DEFINE l == Asked(request)
<1>1. UNCHANGED <<grant, granted, calls>>
  BY DEF StartLiveRead
<1>2. LiveShape(l) /\ (TargetsNonSelf(l.text) => l.asked = {})
  BY AskedFacts, NothingOfOthers
<1>3. live' = Close(l, "") \/ live' = [l EXCEPT !.step = "resolve"]
  BY StartEffect
<1> HIDE DEF l
<1>4. CASE live' = Close(l, "")
  BY <1>1, <1>2, <1>4, ClosingStep
<1>5. CASE live' = [l EXCEPT !.step = "resolve"]
  <2>1. LiveShape(live') /\ live'.step = "resolve" /\ Same(l, live', {"step"})
    BY <1>2, <1>5, SetStep
  <2>2. live'.text = l.text /\ live'.asked = l.asked
    BY <2>1 DEF Same, LiveFields
  <2> QED  BY <1>1, <1>2, <2>1, <2>2, QuietStep
<1> QED  BY <1>3, <1>4, <1>5

(* The invariant survives the lookup of the session.                       *)
LEMMA ReadInvResolve == ASSUME ReadInv, ResolveGrant PROVE ReadInv'
<1>1. UNCHANGED <<grant, granted, calls>> /\ LiveShape(live) /\ (TargetsNonSelf(live.text) => live.asked = {})
  BY DEF ResolveGrant, ReadInv
<1>2. (\E why : live' = Close(live, why)) \/ live' = [live EXCEPT !.step = "load"]
  BY DEF ResolveGrant
<1>3. CASE live' = [live EXCEPT !.step = "load"]
  <2>1. LiveShape(live') /\ live'.step = "load" /\ Same(live, live', {"step"})
    BY <1>1, <1>3, SetStep
  <2>2. live'.text = live.text /\ live'.asked = live.asked
    BY <2>1 DEF Same, LiveFields
  <2> QED  BY <1>1, <2>1, <2>2, QuietStep
<1> QED  BY <1>1, <1>2, <1>3, ClosingStep

(* A grant row is admitted with the scopes of its own token.               *)
LEMMA ReadInvAdmit ==
    ASSUME ReadInv, UNCHANGED <<grant, granted, calls>>, NEW fresh, live' = AdmitGrant(grant, live, fresh)
    PROVE  ReadInv'
<1> DEFINE G == Gated(grant, live)
<1>1. LiveShape(live) /\ (TargetsNonSelf(live.text) => live.asked = {}) /\ Issued(grant.token, grant.scopes)
  BY DEF ReadInv
<1>2. /\ LiveShape(G) /\ Same(live, G, {"tools", "statuses", "refs", "degraded", "held"})
      /\ G.held = grant /\ Demand(grant.scopes, G)
  <2>1. Admitted(grant, live, G)
    BY <1>1, AdmitFacts
  <2> HIDE DEF G
  <2> QED  BY <2>1 DEF Admitted
<1>b. \/ AdmitGrant(grant, live, fresh) = Close(live, "login_again")
      \/ AdmitGrant(grant, live, fresh) = Close(G, "")
      \/ AdmitGrant(grant, live, fresh) = Close(G, "no_refresh")
      \/ \E step \in {"refresh", "identity"} : AdmitGrant(grant, live, fresh) = [G EXCEPT !.step = step]
  BY DEF AdmitGrant, Gated
<1>c. \/ live' = Close(live, "login_again")
      \/ live' = Close(G, "") \/ live' = Close(G, "no_refresh")
      \/ \E step \in {"refresh", "identity"} : live' = [G EXCEPT !.step = step]
  BY <1>b, Zenon
<1> HIDE DEF G
<1>3. G.text = live.text /\ G.asked = live.asked
  BY <1>2 DEF Same, LiveFields
<1>4. CASE live' = Close(live, "login_again")
  BY <1>1, <1>4, ClosingStep
<1>a. TargetsNonSelf(G.text) => G.asked = {}
  BY <1>1, <1>3
<1>5. ASSUME NEW why, live' = Close(G, why) PROVE ReadInv'
  BY <1>2, <1>a, <1>5, ClosingStep
<1>6. ASSUME NEW step \in {"refresh", "identity"}, live' = [G EXCEPT !.step = step] PROVE ReadInv'
  <2>1. LiveShape(live') /\ live'.step = step /\ Same(G, live', {"step"})
    BY <1>2, <1>6, SetStep
  <2>2. /\ live'.text = live.text /\ live'.asked = live.asked /\ live'.held = grant
        /\ live'.tools = G.tools /\ live'.refs = G.refs
    <3>1. /\ live'.text = G.text /\ live'.asked = G.asked /\ live'.held = G.held
          /\ live'.tools = G.tools /\ live'.refs = G.refs
      BY <2>1 DEF Same, LiveFields
    <3> QED  BY <1>2, <1>3, <3>1
  <2>3. Demand(live'.held.scopes, live') /\ Issued(live'.held.token, live'.held.scopes)
    BY <1>1, <1>2, <2>2 DEF Demand
  <2>4. TargetsNonSelf(live'.text) => live'.asked = {}
    BY <1>1, <2>2
  <2> QED  BY <2>1, <2>3, <2>4, QuietStep
<1> QED  BY <1>c, <1>4, <1>5, <1>6

(* The invariant survives the loading of the grant.                        *)
LEMMA ReadInvLoad == ASSUME ReadInv, LoadGrant PROVE ReadInv'
<1>1. UNCHANGED <<grant, granted, calls>> /\ LiveShape(live) /\ (TargetsNonSelf(live.text) => live.asked = {})
  BY DEF LoadGrant, ReadInv
<1>2. live' = Close(live, "grant_unreadable") \/ live' = AdmitGrant(grant, live, FALSE)
  BY DEF LoadGrant
<1> QED  BY <1>1, <1>2, ClosingStep, ReadInvAdmit

(* The invariant survives the reloading of the grant after a refresh.      *)
LEMMA ReadInvReload == ASSUME ReadInv, ReloadGrant PROVE ReadInv'
<1>1. UNCHANGED <<grant, granted, calls>> /\ LiveShape(live) /\ (TargetsNonSelf(live.text) => live.asked = {})
  BY DEF ReloadGrant, ReadInv
<1>2. \/ live' = Close(live, "still_stale") \/ live' = AdmitGrant(grant, live, TRUE)
      \/ live' = Close(live, "reload_failed")
  BY DEF ReloadGrant
<1> QED  BY <1>1, <1>2, ClosingStep, ReadInvAdmit

(* The invariant survives the resolution of the user's open id.            *)
LEMMA ReadInvIdentity == ASSUME ReadInv, ResolveLarkOpenIdForGrant PROVE ReadInv'
<1>1. /\ UNCHANGED <<grant, granted, calls>> /\ LiveShape(live) /\ live.step = "identity"
      /\ (TargetsNonSelf(live.text) => live.asked = {})
      /\ Issued(live.held.token, live.held.scopes) /\ Demand(live.held.scopes, live)
  BY DEF ResolveLarkOpenIdForGrant, ReadInv
<1>2. \/ live' = Close(live, "undecryptable")
      \/ live' = [live EXCEPT !.step = "read"]
      \/ \E id : live' = [[live EXCEPT !.step = "read"] EXCEPT !.openId = id]
  BY DEF ResolveLarkOpenIdForGrant
<1>3. DOMAIN live = LiveFields
  BY <1>1 DEF LiveShape
<1>4. ASSUME LiveShape(live'), Same(live, live', {"step", "openId"}) PROVE ReadInv'
  <2>1. /\ live'.text = live.text /\ live'.asked = live.asked /\ live'.held = live.held
        /\ live'.tools = live.tools /\ live'.refs = live.refs
    BY <1>4 DEF Same, LiveFields
  <2>2. Demand(live'.held.scopes, live')
    BY <1>1, <2>1 DEF Demand
  <2> QED  BY <1>1, <1>4, <2>1, <2>2, QuietStep
<1>5. CASE live' = [live EXCEPT !.step = "read"]
  <2>1. LiveShape(live') /\ Same(live, live', {"step"})
    BY <1>1, <1>5, SetStep
  <2>2. Same(live, live', {"step", "openId"})
    BY <2>1 DEF Same
  <2> QED  BY <1>4, <2>1, <2>2
<1>6. ASSUME NEW id, live' = [[live EXCEPT !.step = "read"] EXCEPT !.openId = id] PROVE ReadInv'
  <2>1. DOMAIN live' = LiveFields /\ Same(live, live', {"step", "openId"})
    BY <1>3, <1>6 DEF Same, LiveFields
  <2>2. /\ live'.asked = live.asked /\ live'.tools = live.tools /\ live'.refs = live.refs
        /\ live'.statuses = live.statuses /\ live'.degraded = live.degraded /\ live'.given = live.given
    BY <2>1 DEF Same, LiveFields
  <2>3. LiveShape(live')
    BY <1>1, <2>1, <2>2 DEF LiveShape
  <2> QED  BY <1>4, <2>1, <2>3
<1> QED  BY <1>1, <1>2, <1>5, <1>6, ClosingStep

(* The refresh issues a token with the scopes of the row it rotates.       *)
LEMMA ReadInvRefresh == ASSUME ReadInv, RefreshGrantBeforeLiveRead PROVE ReadInv'
<1>1. /\ LiveShape(live) /\ live.step = "refresh" /\ IsList(granted) /\ DOMAIN grant = GrantFields
      /\ (TargetsNonSelf(live.text) => live.asked = {}) /\ calls' = calls
      /\ Issued(live.held.token, live.held.scopes) /\ Issued(grant.token, grant.scopes)
  BY DEF RefreshGrantBeforeLiveRead, ReadInv
<1>2. \/ granted' = granted /\ grant' = grant
      \/ granted' = granted /\ \E state : grant' = [grant EXCEPT !.state = state]
      \/ /\ granted' = Append(granted, grant.scopes)
         /\ grant' = [grant EXCEPT !.state = "valid", !.token = Len(granted) + 1, !.stale = FALSE]
  BY DEF RefreshGrantBeforeLiveRead
<1>3. /\ granted' = granted \/ \E x : granted' = Append(granted, x)
      /\ DOMAIN grant' = GrantFields
      /\ grant'.token \in DOMAIN granted' /\ granted'[grant'.token] = grant'.scopes
  <2>1. CASE granted' = granted /\ grant' = grant
    BY <1>1, <2>1 DEF Issued
  <2>2. CASE granted' = granted /\ \E state : grant' = [grant EXCEPT !.state = state]
    BY <1>1, <2>2 DEF Issued, GrantFields
  <2>3. CASE /\ granted' = Append(granted, grant.scopes)
             /\ grant' = [grant EXCEPT !.state = "valid", !.token = Len(granted) + 1, !.stale = FALSE]
    <3>1. DOMAIN grant' = GrantFields /\ grant'.token = Len(granted) + 1 /\ grant'.scopes = grant.scopes
      BY <1>1, <2>3 DEF GrantFields
    <3>2. IsList(granted') /\ Len(granted') = Len(granted) + 1 /\ granted'[Len(granted) + 1] = grant.scopes
      BY <1>1, <2>3, ListAppend
    <3>3. Len(granted) \in Nat /\ DOMAIN granted' = 1 .. Len(granted')
      BY <1>1, <3>2, ListFacts
    <3>4. Len(granted) + 1 \in DOMAIN granted'
      BY <3>2, <3>3
    <3> QED  BY <2>3, <3>1, <3>2, <3>4
  <2> QED  BY <1>2, <2>1, <2>2, <2>3
<1>4. (\E why : live' = Close(live, why)) \/ live' = [live EXCEPT !.step = "reload"]
  BY DEF RefreshGrantBeforeLiveRead
<1>5. /\ LiveShape(live') /\ live'.step \in {"done", "reload"} /\ live'.text = live.text
      /\ live'.asked = live.asked /\ live'.held = live.held
  <2>1. ASSUME NEW why, live' = Close(live, why)
        PROVE  LiveShape(live') /\ live'.step = "done" /\ Same(live, live', {"step", "statuses"})
    BY ZenonT(60), <1>1, <2>1, CloseFacts DEF Same
  <2>2. ASSUME live' = [live EXCEPT !.step = "reload"]
        PROVE  LiveShape(live') /\ live'.step = "reload" /\ Same(live, live', {"step"})
    BY <1>1, <2>2, SetStep
  <2> QED  BY <1>4, <2>1, <2>2 DEF Same, LiveFields
<1>6. calls' \ calls = {}
  BY <1>1
<1> QED  BY <1>1, <1>3, <1>5, <1>6, ReadInvKept

(* A summary of a list put into the read.                                  *)
LEMMA SummarisedShape ==
    ASSUME LiveShape(live), NEW x
    PROVE  /\ LiveShape(live) /\ Same(live, live, {"tasks", "minutes"})
           /\ LiveShape([live EXCEPT !.tasks = x]) /\ Same(live, [live EXCEPT !.tasks = x], {"tasks", "minutes"})
           /\ LiveShape([live EXCEPT !.minutes = x]) /\ Same(live, [live EXCEPT !.minutes = x], {"tasks", "minutes"})
<1>1. DOMAIN live = LiveFields
  BY DEF LiveShape
<1>2. ASSUME NEW m, DOMAIN m = LiveFields, Same(live, m, {"tasks", "minutes"}) PROVE LiveShape(m)
  <2>1. /\ m.asked = live.asked /\ m.tools = live.tools /\ m.refs = live.refs /\ m.statuses = live.statuses
        /\ m.degraded = live.degraded /\ m.given = live.given
    BY <1>2 DEF Same, LiveFields
  <2> QED  BY <1>2, <2>1 DEF LiveShape
<1>3. LET m == [live EXCEPT !.tasks = x] IN DOMAIN m = LiveFields /\ Same(live, m, {"tasks", "minutes"})
  BY <1>1 DEF LiveFields, Same
<1>4. LET m == [live EXCEPT !.minutes = x] IN DOMAIN m = LiveFields /\ Same(live, m, {"tasks", "minutes"})
  BY <1>1 DEF LiveFields, Same
<1>5. Same(live, live, {"tasks", "minutes"})
  BY DEF Same
<1> QED  BY <1>2, <1>3, <1>4, <1>5

(* The invariant survives the read of a tool whose endpoints its scopes    *)
(* permit.                                                                 *)
LEMMA ReadInvTool ==
    ASSUME ReadInv, NEW tool \in ToolNames, NEW source, NEW endpoints, IsList(endpoints),
           NEW needsId, NEW summarised, LiveShape(summarised),
           Same(live, summarised, {"tasks", "minutes"}),
           AppendToolSummary(tool, source, endpoints, needsId, summarised),
           \A scopes : RequiredFeishuScopes(tool) \subseteq scopes
                          => \A e \in ToSet(endpoints) : Permits(scopes, e)
    PROVE  ReadInv'
<1>1. LiveShape(live)
  BY DEF ReadInv
<1>2. /\ live.step = "read" /\ tool \in live.tools
      /\ LiveShape(live') /\ Same(live, live', {"tools", "statuses", "tasks", "minutes"})
      /\ live'.tools = live.tools \ {tool}
      /\ CallsWithin(ToSet(endpoints)) /\ ReadStep
  BY <1>1, ToolReadEffect
<1>3. \A e \in ToSet(endpoints) : Permits(live.held.scopes, e)
  BY <1>2 DEF ReadInv, Demand
<1>4. Same(live, live', {"tools", "statuses", "refs", "tasks", "minutes", "okr", "progress"})
  BY <1>2 DEF Same
<1>5. live'.refs = live.refs
  BY <1>2 DEF Same, LiveFields
<1> QED  BY <1>2, <1>3, <1>4, <1>5, ReadingStep

(* The invariant survives the reads of tasks, minutes and the calendar.    *)
LEMMA ReadInvTools ==
    ASSUME ReadInv,
           ReadMyTaskSummary \/ ReadMyMinutesSummary \/ ReadMyCalendarFreeBusy \/ ReadMyCalendarEvents
    PROVE  ReadInv'
<1>1. LiveShape(live)
  BY DEF ReadInv
<1>2. /\ "TaskSummary" \in ToolNames /\ "MinutesSummary" \in ToolNames
      /\ "CalendarFreeBusy" \in ToolNames /\ "CalendarEvents" \in ToolNames
  BY DEF ToolNames
<1>3. CASE ReadMyTaskSummary
  <2> DEFINE m == [live EXCEPT !.tasks = ReadPages(feishu.tasks, TaskPageLimit, feishu.wording)]
  <2>1. LiveShape(m) /\ Same(live, m, {"tasks", "minutes"})
    BY <1>1, SummarisedShape
  <2>2. AppendToolSummary("TaskSummary", "task", TaskListEndpoints, FALSE, m)
    BY <1>3 DEF ReadMyTaskSummary
  <2> HIDE DEF m
  <2> QED  BY <1>2, <2>1, <2>2, ReadInvTool, EndpointLists, ToolsPermitted
<1>4. CASE ReadMyMinutesSummary
  <2> DEFINE m == [live EXCEPT !.minutes = ReadPages(feishu.minutes, MinutesPageLimit, feishu.wording)]
  <2>1. LiveShape(m) /\ Same(live, m, {"tasks", "minutes"})
    BY <1>1, SummarisedShape
  <2>2. AppendToolSummary("MinutesSummary", "minutes", MinuteSearchEndpoints, TRUE, m)
    BY <1>4 DEF ReadMyMinutesSummary
  <2> HIDE DEF m
  <2> QED  BY <1>2, <2>1, <2>2, ReadInvTool, EndpointLists, ToolsPermitted
<1>5. CASE ReadMyCalendarFreeBusy
  <2>1. AppendToolSummary("CalendarFreeBusy", "calendar", CalendarFreeBusyEndpoints, TRUE, live)
    BY <1>5 DEF ReadMyCalendarFreeBusy
  <2>2. Same(live, live, {"tasks", "minutes"})
    BY DEF Same
  <2> QED  BY <1>1, <1>2, <2>1, <2>2, ReadInvTool, EndpointLists, ToolsPermitted
<1>6. CASE ReadMyCalendarEvents
  <2>1. AppendToolSummary("CalendarEvents", "calendar", CalendarEventsEndpoints, FALSE, live)
    BY <1>6 DEF ReadMyCalendarEvents
  <2>2. Same(live, live, {"tasks", "minutes"})
    BY DEF Same
  <2> QED  BY <1>1, <1>2, <2>1, <2>2, ReadInvTool, EndpointLists, ToolsPermitted
<1> QED  BY <1>3, <1>4, <1>5, <1>6

(* References that are left are references that were there.                *)
LEMMA ReadInvRefs ==
    ASSUME ReadInv, live.step = "read", ReadStep, NEW source \in Sources, NEW left, IsList(left),
           ToSet(left) \subseteq ToSet(live.refs[source]), live.refs[source] # <<>>,
           NEW new, IsList(new), live' = RefsDone(source, left, new),
           NEW endpoints, CallsWithin(endpoints),
           \A e \in endpoints : Permits(live.held.scopes, e)
    PROVE  ReadInv'
<1>1. /\ LiveShape(live') /\ Same(live, live', {"refs", "statuses"})
      /\ live'.refs[source] = left /\ \A s \in Sources \ {source} : live'.refs[s] = live.refs[s]
  <2>1. LiveShape(live)
    BY DEF ReadInv
  <2>2. RefsTaken(source, left, new, live')
    BY <2>1, RefsDoneFacts
  <2> QED  BY <2>2 DEF RefsTaken
<1>2. Same(live, live', {"tools", "statuses", "refs", "tasks", "minutes", "okr", "progress"})
  BY <1>1 DEF Same
<1>3. live'.tools = live.tools
  BY <1>1 DEF Same, LiveFields
<1>4. \A s \in Sources : /\ live'.refs[s] # <<>> => live.refs[s] # <<>>
                         /\ ToSet(live'.refs[s]) \subseteq ToSet(live.refs[s])
  BY <1>1
<1> QED  BY <1>1, <1>2, <1>3, <1>4, ReadingStep

(* The invariant survives the read of a reference.                         *)
LEMMA ReadInvEvidence ==
    ASSUME ReadInv, NEW source \in Sources, AppendEvidence(source)
    PROVE  ReadInv'
<1> DEFINE refs == live.refs[source]
<1>1. LiveShape(live) /\ IsList(refs)
  BY DEF ReadInv, LiveShape
<1>2. /\ live.step = "read" /\ refs # <<>>
      /\ CallsWithin(ToSet(RefEndpoints(source, Head(refs)))) /\ ReadStep
      /\ \E st : live' = RefsDone(source, Tail(refs), <<st>>)
  BY <1>1, EvidenceEffect, EndpointLists
<1>3. PICK st : live' = RefsDone(source, Tail(refs), <<st>>)
  BY <1>2
<1>4. Demand(live.held.scopes, live)
  BY <1>2 DEF ReadInv
<1>5. HasEvidenceReadScopes(live.held.scopes, source)
  BY <1>2, <1>4 DEF Demand
<1>6. /\ Head(refs) = refs[1] /\ IsList(Tail(refs)) /\ 1 \in DOMAIN refs
      /\ ToSet(Tail(refs)) \subseteq ToSet(refs)
  <2> HIDE DEF refs
  <2>1. /\ Len(refs) \in Nat /\ DOMAIN refs = 1 .. Len(refs) /\ Len(refs) # 0
        /\ Head(refs) = refs[1] /\ IsList(Tail(refs)) /\ Len(Tail(refs)) = Len(refs) - 1
        /\ \A i \in 1 .. Len(refs) - 1 : Tail(refs)[i] = refs[i + 1]
    BY <1>1, <1>2, ListFacts
  <2>2. DOMAIN Tail(refs) = 1 .. Len(refs) - 1
    BY <2>1, ListFacts
  <2>3. \A i \in 1 .. Len(refs) - 1 : i + 1 \in DOMAIN refs
    BY <2>1
  <2>4. ToSet(Tail(refs)) \subseteq ToSet(refs)
    BY <2>1, <2>2, <2>3 DEF ToSet
  <2>5. 1 \in DOMAIN refs
    BY <2>1
  <2> QED  BY <2>1, <2>4, <2>5
<1>7. source = "doc" /\ Head(refs).wiki => "WikiNodeRead" \in live.held.scopes
  BY <1>4, <1>6 DEF Demand
<1>8. \A e \in ToSet(RefEndpoints(source, Head(refs))) : Permits(live.held.scopes, e)
  <2> HIDE DEF refs
  <2> QED  BY <1>5, <1>7, RefsPermitted
<1> QED  BY <1>2, <1>3, <1>6, <1>8, OneMore, ReadInvRefs

(* The invariant survives the read of the references to OKRs.              *)
LEMMA ReadInvOkrEvidence == ASSUME ReadInv, AppendOkrEvidence PROVE ReadInv'
<1> DEFINE refs == live.refs["okr"]
           shown == [i \in DOMAIN refs |-> Ready("")]
<1>1. "okr" \in Sources
  BY DEF Sources
<1>2. LiveShape(live) /\ IsList(refs)
  BY <1>1 DEF ReadInv, LiveShape
<1>3. /\ live.step = "read" /\ refs # <<>>
      /\ CallsWithin(ToSet(OkrBatchGetEndpoints)) /\ ReadStep
      /\ \/ live' = RefsDone("okr", <<>>, shown)
         \/ \E why : live' = RefsDone("okr", <<>>, <<DegradedForTool("", why)>>)
  BY <1>2, OkrEvidenceEffect
<1>4. HasEvidenceReadScopes(live.held.scopes, "okr")
  BY <1>1, <1>3 DEF ReadInv, Demand
<1>5. \A e \in ToSet(OkrBatchGetEndpoints) : Permits(live.held.scopes, e)
  <2>1. RefEndpoints("okr", 0) = OkrBatchGetEndpoints
    BY DEF RefEndpoints
  <2> QED  BY <1>1, <1>4, <2>1, RefsPermitted
<1>6. IsList(shown)
  <2>1. Len(refs) \in Nat /\ DOMAIN refs = 1 .. Len(refs)
    <3> HIDE DEF refs
    <3> QED  BY <1>2, ListFacts
  <2>2. DOMAIN shown = 1 .. Len(refs) /\ shown = [i \in 1 .. Len(refs) |-> shown[i]]
    BY <2>1
  <2> HIDE DEF shown, refs
  <2> QED  BY <2>1, <2>2, ListOnInterval
<1>7. IsList(<<>>) /\ ToSet(<<>>) \subseteq ToSet(refs)
  BY NoList DEF ToSet
<1> HIDE DEF shown
<1>8. CASE live' = RefsDone("okr", <<>>, shown)
  BY <1>1, <1>3, <1>5, <1>6, <1>7, <1>8, ReadInvRefs
<1>9. ASSUME NEW why, live' = RefsDone("okr", <<>>, <<DegradedForTool("", why)>>) PROVE ReadInv'
  BY <1>1, <1>3, <1>5, <1>7, <1>9, OneMore, ReadInvRefs
<1> QED  BY <1>3, <1>8, <1>9

(* The invariant survives the reads of the OKR tools.                      *)
LEMMA ReadInvOkrSummaries == ASSUME ReadInv, AppendOkrSummaries PROVE ReadInv'
<1>1. LiveShape(live)
  BY DEF ReadInv
<1>2. /\ live.step = "read" /\ CallsWithin(OkrEndpoints) /\ ReadStep
      /\ LiveShape(live') /\ Same(live, live', {"tools", "statuses", "okr", "progress"})
      /\ live'.tools = live.tools \ OkrTools
  BY <1>1, OkrSummariesEffect
<1>3. live.tools \cap OkrTools # {}
  <2>1. NextJob("okr_tools")
    BY DEF AppendOkrSummaries
  <2>2. Outstanding("okr_tools")
    BY <2>1 DEF NextJob
  <2> QED  BY <2>2 DEF Outstanding, Sources
<1>4. \A t \in live.tools : RequiredFeishuScopes(t) \subseteq live.held.scopes
  BY <1>2 DEF ReadInv, Demand
<1>5. \A e \in OkrEndpoints : Permits(live.held.scopes, e)
  <2>1. \A e \in ToSet(OkrTopologyEndpoints) : Permits(live.held.scopes, e)
    BY <1>3, <1>4, ToolsPermitted
  <2>2. "OkrProgress" \in live.tools => \A e \in ToSet(OkrProgressEndpoints) : Permits(live.held.scopes, e)
    BY <1>4, ToolsPermitted
  <2> QED  BY <2>1, <2>2 DEF OkrEndpoints
<1>6. Same(live, live', {"tools", "statuses", "refs", "tasks", "minutes", "okr", "progress"})
  BY <1>2 DEF Same
<1>7. live'.refs = live.refs
  BY <1>2 DEF Same, LiveFields
<1> QED  BY <1>2, <1>5, <1>6, <1>7, ReadingStep

(* The invariant survives the end of a read.                               *)
LEMMA ReadInvFinish == ASSUME ReadInv, FinishLiveRead PROVE ReadInv'
<1>1. UNCHANGED <<grant, granted, calls>> /\ LiveShape(live) /\ (TargetsNonSelf(live.text) => live.asked = {})
  BY DEF FinishLiveRead, ReadInv
<1>2. live' = Close(live, "")
  BY DEF FinishLiveRead
<1> QED  BY <1>1, <1>2, ClosingStep

(* All steps of a read.                                                    *)
LEMMA ReadInvSteps ==
    ASSUME ReadInv, NEW request, IsList(request.refs), ReadSteps(request)
    PROVE  ReadInv'
<1>1. CASE StartLiveRead(request)
  BY <1>1, ReadInvStart
<1>2. CASE ReadMyTaskSummary \/ ReadMyMinutesSummary \/ ReadMyCalendarFreeBusy \/ ReadMyCalendarEvents
  BY <1>2, ReadInvTools
<1>3. ASSUME NEW source \in Sources \ {"okr"}, AppendEvidence(source) PROVE ReadInv'
  BY <1>3, ReadInvEvidence
<1> QED  BY <1>1, <1>2, <1>3, ReadInvResolve, ReadInvLoad, ReadInvRefresh, ReadInvReload, ReadInvIdentity,
            ReadInvOkrEvidence, ReadInvOkrSummaries, ReadInvFinish DEF ReadSteps

(* Others replace the grant only while no demand is admitted; every row    *)
(* they leave holds a token issued with its scopes.                        *)
LEMMA ReadInvOthers == ASSUME ReadInv, OtherSteps PROVE ReadInv'
<1>1. /\ LiveShape(live) /\ IsList(granted) /\ DOMAIN grant = GrantFields
      /\ (TargetsNonSelf(live.text) => live.asked = {}) /\ Issued(grant.token, grant.scopes)
  BY DEF ReadInv
<1>2. live' = live /\ calls' = calls
  BY DEF OtherSteps, LoginAgain, LogoutElsewhere, GrantAges, RotatedElsewhere, Others
<1>3. \/ granted' = granted /\ grant' = grant
      \/ granted' = granted /\ \E state : grant' = [grant EXCEPT !.state = state]
      \/ granted' = granted /\ grant' = [grant EXCEPT !.stale = TRUE]
      \/ /\ granted' = Append(granted, grant.scopes)
         /\ grant' = [grant EXCEPT !.state = "valid", !.token = Len(granted) + 1, !.stale = FALSE]
      \/ \E scopes : /\ granted' = Append(granted, scopes)
                     /\ grant' = [NoGrant EXCEPT !.state = "valid", !.token = Len(granted) + 1, !.scopes = scopes]
  BY DEF OtherSteps, LoginAgain, LogoutElsewhere, GrantAges, RotatedElsewhere, Others
<1>a. DOMAIN NoGrant = GrantFields
  BY DEF NoGrant, GrantFields
<1>4. /\ granted' = granted \/ \E x : granted' = Append(granted, x)
      /\ DOMAIN grant' = GrantFields
      /\ grant'.token \in DOMAIN granted' /\ granted'[grant'.token] = grant'.scopes
  <2>1. CASE granted' = granted /\ grant' = grant
    BY <1>1, <2>1 DEF Issued
  <2>2. CASE granted' = granted /\ \E state : grant' = [grant EXCEPT !.state = state]
    BY <1>1, <2>2 DEF Issued, GrantFields
  <2>3. CASE granted' = granted /\ grant' = [grant EXCEPT !.stale = TRUE]
    BY <1>1, <2>3 DEF Issued, GrantFields
  <2>4. ASSUME NEW x, granted' = Append(granted, x), DOMAIN grant' = GrantFields,
               grant'.token = Len(granted) + 1, grant'.scopes = x
        PROVE  grant'.token \in DOMAIN granted' /\ granted'[grant'.token] = grant'.scopes
    <3>1. IsList(granted') /\ Len(granted') = Len(granted) + 1 /\ granted'[Len(granted) + 1] = x
      BY <1>1, <2>4, ListAppend
    <3>2. Len(granted) \in Nat /\ DOMAIN granted' = 1 .. Len(granted')
      BY <1>1, <3>1, ListFacts
    <3>3. Len(granted) + 1 \in DOMAIN granted'
      BY <3>1, <3>2
    <3> QED  BY <2>4, <3>1, <3>3
  <2>5. CASE /\ granted' = Append(granted, grant.scopes)
             /\ grant' = [grant EXCEPT !.state = "valid", !.token = Len(granted) + 1, !.stale = FALSE]
    <3>1. DOMAIN grant' = GrantFields /\ grant'.token = Len(granted) + 1 /\ grant'.scopes = grant.scopes
      BY <1>1, <2>5 DEF GrantFields
    <3> QED  BY <2>4, <2>5, <3>1
  <2>6. ASSUME NEW scopes, granted' = Append(granted, scopes),
               grant' = [NoGrant EXCEPT !.state = "valid", !.token = Len(granted) + 1, !.scopes = scopes]
        PROVE  /\ DOMAIN grant' = GrantFields
               /\ grant'.token \in DOMAIN granted' /\ granted'[grant'.token] = grant'.scopes
    <3>1. DOMAIN grant' = GrantFields /\ grant'.token = Len(granted) + 1 /\ grant'.scopes = scopes
      BY <1>a, <2>6 DEF GrantFields
    <3> QED  BY <2>4, <2>6, <3>1
  <2> QED  BY <1>3, <2>1, <2>2, <2>3, <2>5, <2>6
<1>5. calls' \ calls = {} /\ LiveShape(live') /\ (TargetsNonSelf(live'.text) => live'.asked = {})
  BY <1>1, <1>2
<1>6. /\ live'.step \in {"refresh", "reload", "identity", "read"} => Issued(live'.held.token, live'.held.scopes)
      /\ live'.step \in {"identity", "read"} => Demand(live'.held.scopes, live')
  BY <1>2 DEF ReadInv
<1> QED  BY <1>4, <1>5, <1>6, ReadInvKept

(* What the user sends, and the turn's request.                            *)
TurnFields == {"step", "request", "http", "protocol", "asked", "told", "reads"}
TurnShape ==
    /\ prompts \in Seq(PromptsOfAUser) /\ DOMAIN turn = TurnFields /\ IsList(turn.request.refs)
    /\ feishu \in FeishuData

(* Conversations start in shape.                                           *)
LEMMA TurnShapeInit == ASSUME Init PROVE TurnShape
<1>1. prompts \in Seq(PromptsOfAUser) /\ feishu \in FeishuData
  BY ConversationsAreTyped DEF Init, ReadInit
<1>2. DOMAIN turn = TurnFields /\ turn.request.refs = <<>>
  BY DEF Init, NoTurn, TurnFields
<1> QED  BY <1>1, <1>2, NoList DEF TurnShape

(* What Feishu holds does not change in the model.                         *)
LEMMA FeishuStays == ASSUME [Next]_vars PROVE feishu' = feishu
<1>1. CASE UNCHANGED vars
  BY <1>1 DEF vars, readVars
<1>2. CASE InjectLiveFeishuContext
  BY <1>2 DEF InjectLiveFeishuContext, ReadSteps, StartLiveRead, ResolveGrant, LoadGrant,
      RefreshGrantBeforeLiveRead, ReloadGrant, ResolveLarkOpenIdForGrant, ReadMyTaskSummary,
      ReadMyMinutesSummary, ReadMyCalendarFreeBusy, ReadMyCalendarEvents, AppendToolSummary,
      AppendEvidence, AppendOkrEvidence, AppendOkrSummaries, FinishLiveRead, ReadStep
<1>3. CASE OthersAct
  BY <1>3 DEF OthersAct, OtherSteps, LoginAgain, LogoutElsewhere, GrantAges, RotatedElsewhere, Others
<1>4. CASE Send
  BY <1>4 DEF Send
<1>5. ASSUME UNCHANGED readVars PROVE feishu' = feishu
  BY <1>5 DEF readVars
<1>6. Next => UNCHANGED readVars \/ InjectLiveFeishuContext \/ OthersAct \/ Send
  BY DEF Next, FacadeActs, ClientActs, StreamResponse, ChooseRuntime, OpenStream, ForwardParsedSseFrame,
         StreamUpstreamEnds, ReceiveResponse, ForwardSuccessfulStream, FlushScheduledText, StreamEnds,
         ConnectionLost
<1> QED  BY <1>1, <1>2, <1>3, <1>4, <1>5, <1>6

(* Every step keeps the shape of the turn.                                 *)
LEMMA TurnShapeStep == ASSUME TurnShape, [Next]_vars PROVE TurnShape'
<1>a. feishu' = feishu
  BY FeishuStays
<1>1. CASE UNCHANGED <<prompts, turn>>
  BY <1>1, <1>a DEF TurnShape, IsList
<1>2. CASE prompts' = prompts /\ DOMAIN turn' = TurnFields /\ turn'.request = turn.request
  BY <1>2, <1>a DEF TurnShape, IsList
<1>3. CASE Send
  <2>1. prompts # <<>> /\ prompts' = Tail(prompts)
    BY <1>3 DEF Send
  <2>2. Head(prompts) \in PromptsOfAUser /\ Tail(prompts) \in Seq(PromptsOfAUser)
    BY <2>1, HeadTailProperties DEF TurnShape
  <2>3. Head(prompts).refs \in Seq(SourceRef)
    BY <2>2 DEF PromptsOfAUser
  <2>4. DOMAIN turn' = TurnFields /\ turn'.request.refs = Head(prompts).refs
    BY <1>3 DEF Send, AgentStreamRequest, NoTurn, TurnFields
  <2>5. IsList(turn'.request.refs)
    BY <2>3, <2>4, ListOf
  <2> QED  BY <2>1, <2>2, <2>4, <2>5, <1>a DEF TurnShape, IsList
<1>4. [Next]_vars => \/ UNCHANGED <<prompts, turn>> \/ Send
                     \/ prompts' = prompts /\ DOMAIN turn' = TurnFields /\ turn'.request = turn.request
  <2>1. DOMAIN turn = TurnFields
    BY DEF TurnShape
  <2>2. ASSUME StreamResponse \/ ChooseRuntime \/ OpenStream \/ StreamUpstreamEnds \/ ConnectionLost
        PROVE  prompts' = prompts /\ DOMAIN turn' = TurnFields /\ turn'.request = turn.request
    BY <2>1, <2>2 DEF StreamResponse, ChooseRuntime, OpenStream, StreamUpstreamEnds, ConnectionLost, Respond, TurnFields
  <2>3. ASSUME \/ InjectLiveFeishuContext \/ OthersAct \/ ReceiveResponse \/ ForwardSuccessfulStream
               \/ FlushScheduledText \/ StreamEnds \/ UNCHANGED vars
               \/ \E kind, piece : ForwardParsedSseFrame(kind, piece)
        PROVE  UNCHANGED <<prompts, turn>>
    BY <2>3 DEF InjectLiveFeishuContext, OthersAct, ReceiveResponse, ForwardSuccessfulStream,
                FlushScheduledText, StreamEnds, vars, ForwardParsedSseFrame
  <2> QED  BY <2>2, <2>3 DEF Next, FacadeActs, ClientActs
<1> QED  BY <1>1, <1>2, <1>3, <1>4

(* Steps that concern the read: those of the facade, those of others, and  *)
(* a send, which starts a new one.                                         *)
LEMMA ReadSide ==
    ASSUME [Next]_vars
    PROVE  \/ ReadSteps(turn.request) \/ OtherSteps \/ UNCHANGED readVars
           \/ live' = NotStarted /\ UNCHANGED <<grant, granted, calls, feishu>>
<1>1. CASE UNCHANGED vars
  BY <1>1 DEF vars
<1>2. CASE InjectLiveFeishuContext
  BY <1>2 DEF InjectLiveFeishuContext
<1>3. CASE OthersAct
  BY <1>3 DEF OthersAct
<1>4. CASE Send
  BY <1>4 DEF Send
<1>5. Next => UNCHANGED readVars \/ InjectLiveFeishuContext \/ OthersAct \/ Send
  BY DEF Next, FacadeActs, ClientActs, StreamResponse, ChooseRuntime, OpenStream, ForwardParsedSseFrame,
         StreamUpstreamEnds, ReceiveResponse, ForwardSuccessfulStream, FlushScheduledText, StreamEnds,
         ConnectionLost
<1> QED  BY <1>1, <1>2, <1>3, <1>4, <1>5

(* The invariant holds at first.                                           *)
LEMMA ReadInvInit == ASSUME Init PROVE ReadInv
<1>1. PICK s \in Scenarios : ReadInit(s.world)
  BY DEF Init
<1> DEFINE scopes == s.world.scopes
<1>2. live = NotStarted /\ calls = {} /\ granted = <<scopes>>
  BY <1>1 DEF ReadInit
<1>3. DOMAIN grant = GrantFields /\ grant.token = 1 /\ grant.scopes = scopes
  BY <1>1 DEF ReadInit, GrantFields
<1> HIDE DEF scopes
<1>4. IsList(granted) /\ DOMAIN granted = 1 .. 1 /\ granted[1] = scopes
  BY <1>2, OneMore
<1>5. live.step = "idle" /\ live.asked = {}
  BY <1>2 DEF NotStarted
<1> QED  BY <1>2, <1>3, <1>4, <1>5, NotStartedShape DEF ReadInv, Issued

(* Every step of the system keeps the invariant of the read.               *)
LEMMA TurnStep == ASSUME ReadInv, TurnShape, [Next]_vars PROVE ReadInv' /\ TurnShape'
<1>1. TurnShape'
  BY TurnShapeStep
<1>2. CASE ReadSteps(turn.request)
  <2>1. IsList(turn.request.refs)
    BY DEF TurnShape
  <2> QED  BY <1>1, <1>2, <2>1, ReadInvSteps
<1>3. CASE UNCHANGED readVars
  <2>1. /\ live' = live /\ granted' = granted /\ grant' = grant /\ calls' = calls
    BY <1>3 DEF readVars
  <2>2. ReadInv'
    BY <2>1 DEF ReadInv, LiveShape, IsList, Issued, Demand
  <2> QED  BY <1>1, <2>2
<1>4. CASE live' = NotStarted /\ UNCHANGED <<grant, granted, calls, feishu>>
  <2>1. LiveShape(live') /\ live'.step = "idle" /\ live'.asked = {}
    BY <1>4, NotStartedShape DEF NotStarted
  <2> QED  BY <1>1, <1>4, <2>1, QuietStep
<1> QED  BY <1>1, <1>2, <1>3, <1>4, ReadSide, ReadInvOthers

(* The calls of every live read are permitted by the scopes of the very    *)
(* token they are made with, and the token is one that was issued; nothing *)
(* is read for other people.                                               *)
THEOREM LiveReadsWithinGrant == Spec => []ReadsWithinGrant
<1>1. Init => ReadInv /\ TurnShape
  BY ReadInvInit, TurnShapeInit
<1>2. ReadInv /\ TurnShape /\ [Next]_vars => ReadInv' /\ TurnShape'
  BY TurnStep
<1>3. ReadInv => ReadsWithinGrant
  BY DEF ReadInv, ReadsWithinGrant
<1> QED  BY <1>1, <1>2, <1>3, PTL DEF Spec

-----------------------------------------------------------------------------
(* Every read is answered *)

(* The statuses of a tool, those that show a reference, and whether one    *)
(* says in general that something is missing.                              *)
Of(s, t) == {i \in DOMAIN s : s[i].tool = t}
ReadyIn(s) == {i \in Of(s, "") : s[i].state = "ready"}
NotedIn(s) == \E i \in Of(s, "") : s[i].state = "degraded"

(* Every tool asked for either waits without a status or has exactly one;  *)
(* references not shown yet wait, unless a note says that some are missing. *)
RefCount(refs) ==
    Len(refs["okr"]) + Len(refs["task"]) + Len(refs["calendar"]) + Len(refs["doc"]) + Len(refs["minutes"])
ToolsAnswered(l) ==
    \A t \in l.asked : IF t \in l.tools THEN Of(l.statuses, t) = {}
                       ELSE \E i \in DOMAIN l.statuses : Of(l.statuses, t) = {i}
RefsAnswered(l) ==
    l.degraded = <<>> /\ ~NotedIn(l.statuses)
        => Len(l.given) <= Cardinality(ReadyIn(l.statuses)) + RefCount(l.refs)

(* The places of a list that is continued.                                 *)
LEMMA Continued ==
    ASSUME NEW s, NEW n, IsList(s), IsList(n)
    PROVE  /\ Len(s) \in Nat /\ Len(n) \in Nat
           /\ DOMAIN s = 1 .. Len(s) /\ DOMAIN n = 1 .. Len(n) /\ DOMAIN (s \o n) = 1 .. Len(s) + Len(n)
           /\ \A i \in DOMAIN s : i \in DOMAIN (s \o n) /\ (s \o n)[i] = s[i]
           /\ \A i \in DOMAIN n : Len(s) + i \in DOMAIN (s \o n) /\ (s \o n)[Len(s) + i] = n[i]
           /\ \A i \in DOMAIN (s \o n) : i \in DOMAIN s \/ \E j \in DOMAIN n : i = Len(s) + j
<1>1. /\ IsList(s \o n) /\ Len(s \o n) = Len(s) + Len(n)
      /\ \A i \in 1 .. Len(s) : (s \o n)[i] = s[i]
      /\ \A i \in 1 .. Len(n) : (s \o n)[Len(s) + i] = n[i]
  BY ListConcat
<1>2. Len(s) \in Nat /\ Len(n) \in Nat /\ DOMAIN s = 1 .. Len(s) /\ DOMAIN n = 1 .. Len(n)
  BY ListFacts
<1>3. DOMAIN (s \o n) = 1 .. Len(s) + Len(n)
  BY <1>1, ListFacts
<1>4. \A i \in 1 .. Len(s) : i \in 1 .. Len(s) + Len(n)
  BY <1>2
<1>5. \A i \in 1 .. Len(n) : Len(s) + i \in 1 .. Len(s) + Len(n)
  BY <1>2
<1>6. ASSUME NEW i \in 1 .. Len(s) + Len(n), i \notin 1 .. Len(s)
      PROVE  \E j \in 1 .. Len(n) : i = Len(s) + j
  <2>1. i - Len(s) \in 1 .. Len(n) /\ i = Len(s) + (i - Len(s))
    BY <1>2, <1>6
  <2> QED  BY <2>1
<1> QED  BY <1>1, <1>2, <1>3, <1>4, <1>5, <1>6

(* A tool without a status among the new ones has those it had.            *)
LEMMA NoneOf ==
    ASSUME NEW s, NEW n, IsList(s), IsList(n), NEW t, \A i \in DOMAIN n : n[i].tool # t
    PROVE  Of(s \o n, t) = Of(s, t)
<1>1. /\ \A i \in DOMAIN s : i \in DOMAIN (s \o n) /\ (s \o n)[i] = s[i]
      /\ \A i \in DOMAIN n : Len(s) + i \in DOMAIN (s \o n) /\ (s \o n)[Len(s) + i] = n[i]
      /\ \A i \in DOMAIN (s \o n) : i \in DOMAIN s \/ \E j \in DOMAIN n : i = Len(s) + j
  BY Continued
<1>2. ASSUME NEW i \in Of(s \o n, t) PROVE i \in Of(s, t)
  <2>1. i \in DOMAIN (s \o n) /\ (s \o n)[i].tool = t
    BY DEF Of
  <2>2. ASSUME NEW j \in DOMAIN n, i = Len(s) + j PROVE FALSE
    <3>1. (s \o n)[i] = n[j]
      BY <1>1, <2>2
    <3> QED  BY <2>1, <3>1
  <2>3. i \in DOMAIN s
    BY <1>1, <2>1, <2>2
  <2> QED  BY <1>1, <2>1, <2>3 DEF Of
<1>3. ASSUME NEW i \in Of(s, t) PROVE i \in Of(s \o n, t)
  BY <1>1 DEF Of
<1> QED  BY <1>2, <1>3

(* New statuses of no reference leave those of the references.             *)
LEMMA ToolStatusesOnly ==
    ASSUME NEW s, NEW n, IsList(s), IsList(n), \A i \in DOMAIN n : n[i].tool # ""
    PROVE  ReadyIn(s \o n) = ReadyIn(s) /\ (NotedIn(s \o n) <=> NotedIn(s))
<1>1. Of(s \o n, "") = Of(s, "")
  BY NoneOf
<1>2. \A i \in Of(s, "") : (s \o n)[i] = s[i]
  BY ZenonT(60), Continued DEF Of
<1> QED  BY <1>1, <1>2 DEF ReadyIn, NotedIn

(* A note once made stays.                                                 *)
LEMMA NotesStay ==
    ASSUME NEW s, NEW n, IsList(s), IsList(n)
    PROVE  /\ NotedIn(s) => NotedIn(s \o n)
           /\ (\E i \in DOMAIN n : n[i].tool = "" /\ n[i].state = "degraded") => NotedIn(s \o n)
<1>1. /\ \A i \in DOMAIN s : i \in DOMAIN (s \o n) /\ (s \o n)[i] = s[i]
      /\ \A i \in DOMAIN n : Len(s) + i \in DOMAIN (s \o n) /\ (s \o n)[Len(s) + i] = n[i]
  BY Continued
<1>2. ASSUME NEW i \in Of(s, ""), s[i].state = "degraded" PROVE NotedIn(s \o n)
  <2>1. i \in Of(s \o n, "") /\ (s \o n)[i].state = "degraded"
    BY <1>1, <1>2 DEF Of
  <2> QED  BY <2>1 DEF NotedIn
<1>3. ASSUME NEW i \in DOMAIN n, n[i].tool = "", n[i].state = "degraded" PROVE NotedIn(s \o n)
  <2>1. Len(s) + i \in Of(s \o n, "") /\ (s \o n)[Len(s) + i].state = "degraded"
    BY <1>1, <1>3 DEF Of
  <2> QED  BY <2>1 DEF NotedIn
<1> QED  BY <1>2, <1>3 DEF NotedIn

(* The places of q elements after p others.                                *)
LEMMA Shifted ==
    ASSUME NEW p \in Nat, NEW q \in Nat
    PROVE  /\ IsFiniteSet(p + 1 .. p + q) /\ Cardinality(p + 1 .. p + q) = q
           /\ \A i \in p + 1 .. p + q : i \notin 1 .. p /\ i - p \in 1 .. q /\ i = p + (i - p)
           /\ \A j \in 1 .. q : p + j \in p + 1 .. p + q
<1>1. p + 1 \in Int /\ p + q \in Int
  OBVIOUS
<1>2. /\ IsFiniteSet(p + 1 .. p + q)
      /\ Cardinality(p + 1 .. p + q) = IF p + 1 > p + q THEN 0 ELSE p + q - (p + 1) + 1
  BY <1>1, FS_Interval
<1> QED  BY <1>2

(* The places of s \o n that are not those of s.                           *)
Later(s, n) == Len(s) + 1 .. Len(s) + Len(n)

(* The later places continue any set of earlier ones.                      *)
LEMMA LaterFacts ==
    ASSUME NEW s, NEW n, IsList(s), IsList(n), NEW S \in SUBSET DOMAIN s
    PROVE  /\ Cardinality(S) \in Nat /\ Cardinality(S \cup Later(s, n)) = Cardinality(S) + Len(n)
           /\ \A i \in Later(s, n) : i \in DOMAIN (s \o n) /\ i - Len(s) \in DOMAIN n /\ (s \o n)[i] = n[i - Len(s)]
           /\ \A i \in DOMAIN (s \o n) : i \in DOMAIN s \/ i \in Later(s, n)
           /\ \A i \in DOMAIN s : i \in DOMAIN (s \o n) /\ (s \o n)[i] = s[i]
<1> DEFINE new == Later(s, n)
<1>1. /\ Len(s) \in Nat /\ Len(n) \in Nat /\ DOMAIN s = 1 .. Len(s) /\ DOMAIN n = 1 .. Len(n)
      /\ \A i \in DOMAIN s : i \in DOMAIN (s \o n) /\ (s \o n)[i] = s[i]
      /\ \A i \in DOMAIN n : Len(s) + i \in DOMAIN (s \o n) /\ (s \o n)[Len(s) + i] = n[i]
      /\ \A i \in DOMAIN (s \o n) : i \in DOMAIN s \/ \E j \in DOMAIN n : i = Len(s) + j
  BY Continued
<1>a. /\ IsFiniteSet(new) /\ Cardinality(new) = Len(n)
      /\ \A i \in new : i \notin DOMAIN s /\ i - Len(s) \in DOMAIN n /\ i = Len(s) + (i - Len(s))
      /\ \A j \in DOMAIN n : Len(s) + j \in new
  <2>1. Len(s) \in Nat /\ Len(n) \in Nat
    BY <1>1
  <2>2. /\ IsFiniteSet(Len(s) + 1 .. Len(s) + Len(n)) /\ Cardinality(Len(s) + 1 .. Len(s) + Len(n)) = Len(n)
        /\ \A i \in Len(s) + 1 .. Len(s) + Len(n) : 
              i \notin 1 .. Len(s) /\ i - Len(s) \in 1 .. Len(n) /\ i = Len(s) + (i - Len(s))
        /\ \A j \in 1 .. Len(n) : Len(s) + j \in Len(s) + 1 .. Len(s) + Len(n)
    BY <2>1, Shifted
  <2> QED  BY <1>1, <2>2 DEF Later
<1> HIDE DEF new
<1>2. IsFiniteSet(S) /\ Cardinality(S) \in Nat /\ S \cap new = {}
  <2>1. S \in SUBSET (1 .. Len(s))
    BY <1>1
  <2>2. IsFiniteSet(S) /\ Cardinality(S) \in Nat
    BY <1>1, <2>1, PlacesFinite
  <2> QED  BY <1>a, <2>2
<1>3. Cardinality(S \cup new) = Cardinality(S) + Len(n)
  <2>1. Cardinality(S \cup new) = Cardinality(S) + Cardinality(new) - Cardinality(S \cap new)
    BY <1>a, <1>2, FS_Union
  <2>2. Cardinality(S \cap new) = 0
    BY <1>2, FS_EmptySet
  <2> QED  BY <1>1, <1>a, <1>2, <2>1, <2>2
<1> QED  BY <1>1, <1>a, <1>2, <1>3 DEF new

(* Statuses that all show a reference.                                     *)
AllShown(n) == \A i \in DOMAIN n : n[i].tool = "" /\ n[i].state = "ready"

(* References shown are that many more, and no note is made by them.       *)
LEMMA MoreShown ==
    ASSUME NEW s, NEW n, IsList(s), IsList(n), AllShown(n)
    PROVE  /\ Cardinality(ReadyIn(s)) \in Nat
           /\ Cardinality(ReadyIn(s \o n)) = Cardinality(ReadyIn(s)) + Len(n)
           /\ NotedIn(s \o n) => NotedIn(s)
<1>1. /\ \A i \in Later(s, n) : i \in DOMAIN (s \o n) /\ i - Len(s) \in DOMAIN n /\ (s \o n)[i] = n[i - Len(s)]
      /\ \A i \in DOMAIN (s \o n) : i \in DOMAIN s \/ i \in Later(s, n)
      /\ \A i \in DOMAIN s : i \in DOMAIN (s \o n) /\ (s \o n)[i] = s[i]
      /\ Cardinality(ReadyIn(s)) \in Nat
      /\ Cardinality(ReadyIn(s) \cup Later(s, n)) = Cardinality(ReadyIn(s)) + Len(n)
  <2>1. ReadyIn(s) \in SUBSET DOMAIN s
    BY DEF ReadyIn, Of
  <2> QED  BY <2>1, LaterFacts
<1>2. ASSUME NEW i \in Later(s, n) PROVE (s \o n)[i].tool = "" /\ (s \o n)[i].state = "ready"
  BY <1>1 DEF AllShown
<1>3. ReadyIn(s \o n) = ReadyIn(s) \cup Later(s, n)
  <2>1. ASSUME NEW i \in Later(s, n) PROVE i \in ReadyIn(s \o n)
    BY <1>1, <1>2 DEF ReadyIn, Of
  <2>2. ASSUME NEW i \in ReadyIn(s) PROVE i \in ReadyIn(s \o n)
    BY <1>1 DEF ReadyIn, Of
  <2>3. ASSUME NEW i \in ReadyIn(s \o n), i \in DOMAIN s PROVE i \in ReadyIn(s)
    BY <1>1, <2>3 DEF ReadyIn, Of
  <2>4. \A i \in ReadyIn(s \o n) : i \in DOMAIN (s \o n)
    BY DEF ReadyIn, Of
  <2> QED  BY <1>1, <2>1, <2>2, <2>3, <2>4
<1>4. NotedIn(s \o n) => NotedIn(s)
  <2>1. ASSUME NEW i \in Of(s \o n, ""), (s \o n)[i].state = "degraded" PROVE NotedIn(s)
    <3>1. i \in DOMAIN s
      BY <1>1, <1>2, <2>1 DEF Of
    <3>2. i \in Of(s, "") /\ s[i].state = "degraded"
      BY <1>1, <2>1, <3>1 DEF Of
    <3> QED  BY <3>2 DEF NotedIn
  <2> QED  BY <2>1 DEF NotedIn
<1> QED  BY <1>1, <1>3, <1>4

(* Statuses, one for each of some tools.                                   *)
OneEach(n, ts, tools) ==
    /\ IsList(n) /\ DOMAIN n = DOMAIN ts /\ \A i \in DOMAIN n : n[i].tool = ts[i]
    /\ \A i, j \in DOMAIN ts : i # j => ts[i] # ts[j]
    /\ ToSet(ts) = tools

(* Tools that are done get one status each.                                *)
LEMMA ToolsAnsweredBy ==
    ASSUME NEW l, LiveShape(l), ToolsAnswered(l), NEW m, NEW done, NEW ts, NEW n,
           m.asked = l.asked, m.tools = l.tools \ done, m.statuses = l.statuses \o n,
           OneEach(n, ts, l.tools \cap done)
    PROVE  ToolsAnswered(m)
<1>0. /\ IsList(n) /\ DOMAIN n = DOMAIN ts /\ \A i \in DOMAIN n : n[i].tool = ts[i]
      /\ \A i, j \in DOMAIN ts : i # j => ts[i] # ts[j]
      /\ ToSet(ts) = l.tools \cap done
  BY DEF OneEach
<1> DEFINE s == l.statuses
<1>1. IsList(s)
  BY DEF LiveShape
<1>2. \A t : (t \in ToSet(ts) <=> \E i \in DOMAIN n : n[i].tool = t)
  BY <1>0 DEF ToSet
<1>3. ASSUME NEW t \in l.asked, t \notin ToSet(ts)
      PROVE  IF t \in m.tools THEN Of(s \o n, t) = {} ELSE \E i \in DOMAIN (s \o n) : Of(s \o n, t) = {i}
  <2>1. Of(s \o n, t) = Of(s, t)
    <3> HIDE DEF s
    <3> QED  BY <1>0, <1>1, <1>2, <1>3, NoneOf
  <2>2. t \in m.tools <=> t \in l.tools
    BY <1>0, <1>3
  <2>3. IF t \in l.tools THEN Of(s, t) = {} ELSE \E i \in DOMAIN s : Of(s, t) = {i}
    BY DEF ToolsAnswered
  <2>4. DOMAIN s \subseteq DOMAIN (s \o n)
    <3> HIDE DEF s
    <3> QED  BY <1>0, <1>1, Continued
  <2> HIDE DEF s
  <2> QED  BY <2>1, <2>2, <2>3, <2>4
<1>4. ASSUME NEW t \in ToSet(ts)
      PROVE  t \notin m.tools /\ \E i \in DOMAIN (s \o n) : Of(s \o n, t) = {i}
  <2>1. PICK j \in DOMAIN n : ts[j] = t
    BY <1>0 DEF ToSet
  <2>2. Of(s, t) = {}
    <3>1. t \in l.tools /\ t \in l.asked
      BY <1>0 DEF LiveShape
    <3> QED  BY <3>1 DEF ToolsAnswered
  <2> HIDE DEF s
  <2>3. /\ \A i \in DOMAIN s : i \in DOMAIN (s \o n) /\ (s \o n)[i] = s[i]
        /\ \A i \in DOMAIN n : Len(s) + i \in DOMAIN (s \o n) /\ (s \o n)[Len(s) + i] = n[i]
        /\ \A i \in DOMAIN (s \o n) : i \in DOMAIN s \/ \E k \in DOMAIN n : i = Len(s) + k
    BY <1>0, <1>1, Continued
  <2>4. Len(s) + j \in Of(s \o n, t)
    BY <1>0, <2>1, <2>3 DEF Of
  <2>5. ASSUME NEW i \in Of(s \o n, t) PROVE i = Len(s) + j
    <3>1. i \in DOMAIN (s \o n) /\ (s \o n)[i].tool = t
      BY DEF Of
    <3>2. i \notin DOMAIN s
      <4>1. ASSUME i \in DOMAIN s PROVE FALSE
        <5>1. i \in Of(s, t)
          BY <2>3, <3>1, <4>1 DEF Of
        <5> QED  BY <5>1, <2>2
      <4> QED  BY <4>1
    <3>3. PICK k \in DOMAIN n : i = Len(s) + k
      BY <2>3, <3>1, <3>2
    <3>4. n[k].tool = t
      BY <2>3, <3>1, <3>3
    <3>5. k = j
      BY <1>0, <2>1, <3>4
    <3> QED  BY <3>3, <3>5
  <2>6. Of(s \o n, t) = {Len(s) + j}
    BY <2>4, <2>5
  <2>7. Len(s) + j \in DOMAIN (s \o n)
    BY <2>3
  <2>8. t \notin m.tools
    BY <1>0
  <2> QED  BY <2>6, <2>7, <2>8
<1> HIDE DEF s
<1>5. ASSUME NEW t \in m.asked
      PROVE  IF t \in m.tools THEN Of(m.statuses, t) = {}
             ELSE \E i \in DOMAIN m.statuses : Of(m.statuses, t) = {i}
  <2>1. m.statuses = s \o n /\ t \in l.asked
    BY DEF s
  <2> QED  BY <1>3, <1>4, <2>1
<1> QED  BY <1>5 DEF ToolsAnswered

(* Statuses of references do not concern the tools.                        *)
LEMMA ToolsStayAnswered ==
    ASSUME NEW l, LiveShape(l), ToolsAnswered(l), NEW m, NEW n,
           m.asked = l.asked, m.tools = l.tools, m.statuses = l.statuses \o n, IsList(n),
           \A i \in DOMAIN n : n[i].tool = ""
    PROVE  ToolsAnswered(m)
<1>1. IsList(l.statuses) /\ l.asked \subseteq ToolNames
  BY DEF LiveShape
<1>2. ASSUME NEW t \in l.asked
      PROVE  IF t \in m.tools THEN Of(m.statuses, t) = {}
             ELSE \E i \in DOMAIN m.statuses : Of(m.statuses, t) = {i}
  <2>1. t # ""
    BY <1>1, NamesDiffer
  <2> DEFINE s == l.statuses
  <2>a. IsList(s) /\ m.statuses = s \o n /\ \A i \in DOMAIN n : n[i].tool # t
    BY <1>1, <2>1
  <2> HIDE DEF s
  <2>b. Of(s \o n, t) = Of(s, t)
    BY <2>a, NoneOf
  <2>c. DOMAIN s \subseteq DOMAIN (s \o n)
    BY <2>a, Continued
  <2>2. Of(m.statuses, t) = Of(l.statuses, t)
    BY <2>a, <2>b DEF s
  <2>3. DOMAIN l.statuses \subseteq DOMAIN m.statuses
    BY <2>a, <2>c DEF s
  <2>4. IF t \in l.tools THEN Of(l.statuses, t) = {} ELSE \E i \in DOMAIN l.statuses : Of(l.statuses, t) = {i}
    BY DEF ToolsAnswered
  <2> QED  BY <2>2, <2>3, <2>4
<1> QED  BY <1>2 DEF ToolsAnswered

(* What a read that is over must show: a status for each tool, or a note   *)
(* for all; a note for references that are not shown.                      *)
Accounted(l) ==
    /\ \A t \in l.asked : \/ \E i \in DOMAIN l.statuses : Of(l.statuses, t) = {i}
                          \/ Of(l.statuses, t) = {} /\ NotedIn(l.statuses)
    /\ NotedIn(l.statuses) \/ Len(l.given) <= Cardinality(ReadyIn(l.statuses))
Answered(l) == ToolsAnswered(l) /\ RefsAnswered(l)

(* The property speaks of the same statuses.                               *)
LEMMA AccountedIsAnswered ==
    ASSUME LiveShape(live), live.step = "done" => Accounted(live)
    PROVE  EveryReadIsAnswered
<1> DEFINE s == live.statuses
<1>1. /\ \A t : StatusesOf(t) = Of(s, t)
      /\ ShownRefs = ReadyIn(s) /\ (GeneralNote <=> NotedIn(s))
  BY DEF StatusesOf, ShownRefs, GeneralNote, Of, ReadyIn, NotedIn
<1>2. IsList(s) /\ IsList(live.given)
  BY DEF LiveShape
<1> HIDE DEF s
<1>3. Cardinality(ReadyIn(s)) \in Nat /\ Len(live.given) \in Nat
  <2>1. ReadyIn(s) \in SUBSET DOMAIN s
    BY DEF ReadyIn, Of
  <2>2. Len(s) \in Nat /\ DOMAIN s = 1 .. Len(s) /\ Len(live.given) \in Nat
    BY <1>2, ListFacts
  <2> QED  BY <2>1, <2>2, PlacesFinite
<1>4. ASSUME live.step = "done", NEW t \in live.asked
      PROVE  Cardinality(StatusesOf(t)) = 1 \/ (Cardinality(StatusesOf(t)) = 0 /\ GeneralNote)
  <2>1. CASE \E i \in DOMAIN s : Of(s, t) = {i}
    <3>1. PICK i \in DOMAIN s : Of(s, t) = {i}
      BY <2>1
    <3>2. Cardinality({i}) = 1
      BY FS_Singleton
    <3> QED  BY <3>1, <3>2, <1>1
  <2>2. CASE Of(s, t) = {} /\ NotedIn(s)
    BY <2>2, <1>1, FS_EmptySet
  <2> QED  BY <1>4, <2>1, <2>2 DEF Accounted, s
<1>5. ASSUME live.step = "done", Cardinality(ShownRefs) < Len(live.given) PROVE GeneralNote
  <2>1. NotedIn(s) \/ Len(live.given) <= Cardinality(ReadyIn(s))
    BY <1>5 DEF Accounted, s
  <2>2. Cardinality(ReadyIn(s)) < Len(live.given)
    BY <1>1, <1>5
  <2>3. ~(Len(live.given) <= Cardinality(ReadyIn(s)))
    BY <1>3, <2>2
  <2> QED  BY <1>1, <2>1, <2>3
<1> QED  BY <1>4, <1>5 DEF EveryReadIsAnswered

(* No references are left when nothing is to be read.                      *)
LEMMA NoRefsLeft == ASSUME NEW l, NothingToRead(l) PROVE RefCount(l.refs) = 0
<1>1. /\ l.refs["okr"] = <<>> /\ l.refs["task"] = <<>> /\ l.refs["calendar"] = <<>>
      /\ l.refs["doc"] = <<>> /\ l.refs["minutes"] = <<>>
  BY DEF NothingToRead, Sources
<1>2. Len(<<>>) = 0
  OBVIOUS
<1> QED  BY <1>1, <1>2 DEF RefCount

(* Counting from none.                                                     *)
LEMMA Counting ==
    /\ \A n \in Nat : n + 1 # 0
    /\ \A n \in Nat : n # 0 => 1 \in 1 .. n
    /\ 1 .. 0 = {}
OBVIOUS

(* A read that is closed accounts for what it did not do.                  *)
LEMMA ClosedAccounts ==
    ASSUME NEW l, LiveShape(l), Answered(l), NEW why, why = "" => NothingToRead(l),
           NEW c, c = Close(l, why)
    PROVE  LiveShape(c) /\ c.step = "done" /\ Accounted(c)
<1> DEFINE s == l.statuses
           whys == IF why = "" THEN l.degraded ELSE Append(l.degraded, why)
           d == DegradedStatuses(whys)
<1>1. /\ LiveShape(c) /\ c.step = "done" /\ IsList(whys) /\ c.statuses = s \o d
      /\ \A f \in LiveFields \ {"step", "statuses"} : c[f] = l[f]
  BY CloseFacts
<1>2. c.asked = l.asked /\ c.given = l.given
  BY <1>1 DEF LiveFields
<1>3. IsList(s) /\ IsList(l.degraded) /\ l.asked \subseteq ToolNames
  BY DEF LiveShape
<1>a. why # "" => whys = Append(l.degraded, why)
  OBVIOUS
<1>b. why = "" => whys = l.degraded
  OBVIOUS
<1> HIDE DEF whys
<1>4. /\ IsList(d) /\ Len(d) = Len(whys) /\ Len(whys) \in Nat
      /\ \A i \in 1 .. Len(whys) : d[i] = DegradedForTool("", whys[i])
  BY <1>1, DegradedStatusesFacts, ListFacts
<1> HIDE DEF d
<1>5. DOMAIN d = 1 .. Len(whys)
  BY <1>4, ListFacts
<1>6. \A i \in DOMAIN d : d[i].tool = "" /\ d[i].state = "degraded"
  <2>1. \A w : DegradedForTool("", w).tool = "" /\ DegradedForTool("", w).state = "degraded"
    BY DEF DegradedForTool
  <2> QED  BY <1>4, <1>5, <2>1
<1>7. ASSUME whys # <<>> PROVE NotedIn(s \o d)
  <2>1. Len(whys) # 0
    BY <1>1, <1>7, ListFacts
  <2>2. 1 \in DOMAIN d
    BY <1>4, <1>5, <2>1, Counting
  <2>3. \E i \in DOMAIN d : d[i].tool = "" /\ d[i].state = "degraded"
    BY <1>6, <2>2
  <2> HIDE DEF s
  <2> QED  BY <1>3, <1>4, <2>3, NotesStay
<1>8. why # "" => whys # <<>>
  <2>1. Len(l.degraded) \in Nat /\ Len(Append(l.degraded, why)) = Len(l.degraded) + 1
    BY <1>3, ListFacts, ListAppend
  <2>2. Len(Append(l.degraded, why)) # 0
    BY <2>1, Counting
  <2> QED  BY <2>2, <1>1, <1>a, ListFacts
<1>9. ASSUME NEW t \in l.asked
      PROVE  \/ \E i \in DOMAIN (s \o d) : Of(s \o d, t) = {i}
             \/ Of(s \o d, t) = {} /\ NotedIn(s \o d)
  <2>1. t # ""
    BY <1>3, NamesDiffer
  <2>2. IF t \in l.tools THEN Of(s, t) = {} ELSE \E i \in DOMAIN s : Of(s, t) = {i}
    BY DEF Answered, ToolsAnswered
  <2>3. t \in l.tools => why # ""
    BY DEF NothingToRead
  <2> HIDE DEF s
  <2>4. Of(s \o d, t) = Of(s, t)
    <3>1. \A i \in DOMAIN d : d[i].tool # t
      BY <1>6, <2>1
    <3> QED  BY <1>3, <1>4, <3>1, NoneOf
  <2>5. DOMAIN s \subseteq DOMAIN (s \o d)
    BY <1>3, <1>4, Continued
  <2> QED  BY <2>2, <2>3, <2>4, <2>5, <1>7, <1>8
<1>10. ASSUME ~NotedIn(s \o d) PROVE Len(l.given) <= Cardinality(ReadyIn(s \o d))
  <2>1. whys = <<>> /\ why = "" /\ l.degraded = <<>>
    BY <1>7, <1>8, <1>10, <1>b
  <2>2. ~NotedIn(s)
    <3> HIDE DEF s
    <3> QED  BY <1>3, <1>4, <1>10, NotesStay
  <2>3. Len(l.given) <= Cardinality(ReadyIn(s)) + RefCount(l.refs)
    BY <2>1, <2>2 DEF Answered, RefsAnswered
  <2>4. RefCount(l.refs) = 0
    BY <2>1, NoRefsLeft
  <2>5. Len(d) = 0 /\ AllShown(d)
    <3>1. Len(whys) = 0
      BY <2>1, <1>1, ListFacts
    <3>2. DOMAIN d = {}
      BY <3>1, <1>5, Counting
    <3> QED  BY <3>1, <3>2, <1>4 DEF AllShown
  <2> HIDE DEF s
  <2>6. /\ Cardinality(ReadyIn(s)) \in Nat
        /\ Cardinality(ReadyIn(s \o d)) = Cardinality(ReadyIn(s)) + Len(d)
    BY <1>3, <1>4, <2>5, MoreShown
  <2>7. Len(l.given) \in Nat
    BY ListFacts DEF LiveShape
  <2> QED  BY <2>3, <2>4, <2>5, <2>6, <2>7
<1>11. Accounted(c)
  <2>1. c.statuses = s \o d
    BY <1>1
  <2> HIDE DEF s
  <2> QED  BY <1>2, <1>9, <1>10, <2>1 DEF Accounted
<1> QED  BY <1>1, <1>11

(* What is answered depends on these fields only.                          *)
LEMMA AnsweredSame ==
    ASSUME NEW l, NEW m, Answered(l), m.asked = l.asked, m.tools = l.tools, m.given = l.given,
           m.refs = l.refs, m.degraded = l.degraded, m.statuses = l.statuses
    PROVE  Answered(m)
BY DEF Answered, ToolsAnswered, RefsAnswered

(* The gate answers what it refuses.                                       *)
LEMMA GateAnswers ==
    ASSUME NEW l, LiveShape(l), Answered(l), NEW scopes, NEW G, LiveShape(G),
           G.asked = l.asked, G.given = l.given,
           G.tools = l.tools \ Uncovered(scopes, l.tools),
           G.statuses = l.statuses \o Refusals(scopes, l.tools),
           G.degraded = <<>> => l.degraded = <<>> /\ \A s \in Sources : G.refs[s] = l.refs[s]
    PROVE  Answered(G)
<1> DEFINE n == Refusals(scopes, l.tools)
           ts == InOrder(Uncovered(scopes, l.tools))
<1>1. l.tools \in SUBSET ToolNames /\ Uncovered(scopes, l.tools) \in SUBSET ToolNames
      /\ Uncovered(scopes, l.tools) \subseteq l.tools
  BY DEF LiveShape, Uncovered
<1>2. /\ IsList(n) /\ DOMAIN n = DOMAIN ts
      /\ \A i \in DOMAIN n : n[i] = DegradedForTool(ts[i], "missing_permission")
  BY <1>1, RefusalsShape
<1>3. /\ ToSet(ts) = Uncovered(scopes, l.tools)
      /\ \A i, j \in DOMAIN ts : i # j => ts[i] # ts[j]
  BY <1>1, InOrderFacts
<1> HIDE DEF n, ts
<1>4. \A i \in DOMAIN n : n[i].tool = ts[i]
  BY <1>2 DEF DegradedForTool
<1>5. \A i \in DOMAIN n : n[i].tool # ""
  BY ZenonT(60), <1>1, <1>2, <1>3, <1>4, NamesDiffer DEF ToSet
<1>a. G.statuses = l.statuses \o n
  BY DEF n
<1>b. ToSet(ts) = l.tools \cap Uncovered(scopes, l.tools)
  BY <1>1, <1>3
<1>c. ToolsAnswered(l) /\ RefsAnswered(l)
  BY DEF Answered
<1>6. ToolsAnswered(G)
  <2> DEFINE done == Uncovered(scopes, l.tools)
  <2>1. G.tools = l.tools \ done /\ ToSet(ts) = l.tools \cap done
    BY <1>b
  <2> HIDE DEF done
  <2>2. OneEach(n, ts, l.tools \cap done)
    BY <1>2, <1>3, <1>4, <2>1 DEF OneEach
  <2>3. G.tools = l.tools \ done
    BY <2>1
  <2>4. ToolsAnswered(l)
    BY <1>c
  <2> QED  BY <1>a, <2>2, <2>3, <2>4, ToolsAnsweredBy
<1>7. RefsAnswered(G)
  <2>1. ASSUME G.degraded = <<>>, ~NotedIn(G.statuses)
        PROVE  Len(G.given) <= Cardinality(ReadyIn(G.statuses)) + RefCount(G.refs)
    <3> DEFINE s == l.statuses
    <3>1. IsList(s)
      BY DEF LiveShape
    <3>2. G.statuses = s \o n
      BY <1>a
    <3> HIDE DEF s
    <3>3. ReadyIn(s \o n) = ReadyIn(s) /\ (NotedIn(s \o n) <=> NotedIn(s))
      BY <1>2, <1>5, <3>1, ToolStatusesOnly
    <3>4. l.degraded = <<>> /\ ~NotedIn(l.statuses) /\ \A x \in Sources : G.refs[x] = l.refs[x]
      BY <2>1, <3>2, <3>3 DEF s
    <3>5. RefCount(G.refs) = RefCount(l.refs)
      BY <3>4 DEF RefCount, Sources
    <3>6. Len(l.given) <= Cardinality(ReadyIn(l.statuses)) + RefCount(l.refs)
      BY <1>c, <3>4 DEF RefsAnswered
    <3>7. ReadyIn(G.statuses) = ReadyIn(l.statuses)
      BY <3>2, <3>3 DEF s
    <3> QED  BY <3>5, <3>6, <3>7
  <2> QED  BY <2>1 DEF RefsAnswered
<1> QED  BY <1>6, <1>7 DEF Answered

(* A union has no more elements than its parts together.                   *)
LEMMA UnionAtMost ==
    ASSUME NEW A, NEW B, IsFiniteSet(A), IsFiniteSet(B)
    PROVE  /\ IsFiniteSet(A \cup B) /\ Cardinality(A) \in Nat /\ Cardinality(B) \in Nat
           /\ Cardinality(A \cup B) <= Cardinality(A) + Cardinality(B)
<1>1. /\ IsFiniteSet(A \cup B)
      /\ Cardinality(A \cup B) = Cardinality(A) + Cardinality(B) - Cardinality(A \cap B)
  BY FS_Union
<1>2. IsFiniteSet(A \cap B)
  BY FS_Intersection
<1>3. Cardinality(A) \in Nat /\ Cardinality(B) \in Nat /\ Cardinality(A \cap B) \in Nat
  BY <1>2, FS_CardinalityType
<1> QED  BY <1>1, <1>3

(* There are n places up to n.                                             *)
LEMMA PlacesCounted == ASSUME NEW n \in Nat PROVE IsFiniteSet(1 .. n) /\ Cardinality(1 .. n) = n
BY FS_Interval

(* As many references are parsed of a source as can be read of it.         *)
LEMMA ParsedOfLength ==
    ASSUME NEW refs, IsList(refs), NEW s
    PROVE  /\ IsFiniteSet(Readable(refs, s)) /\ Cardinality(Readable(refs, s)) \in Nat
           /\ Len(ParsedOf(refs, s)) = Cardinality(Readable(refs, s))
<1> DEFINE R == Readable(refs, s)
           own == Kept(refs, R)
           f == [i \in DOMAIN own |-> ParsedRef(own[i])]
<1>1. R \in SUBSET DOMAIN refs /\ Len(refs) \in Nat /\ DOMAIN refs = 1 .. Len(refs)
  BY ListFacts DEF Readable
<1>2. ParsedOf(refs, s) = f
  BY DEF ParsedOf
<1> HIDE DEF R
<1>3. Cardinality(R) \in Nat /\ DOMAIN own = 1 .. Cardinality(R) /\ IsFiniteSet(R)
  BY <1>1, ListKept, PlacesFinite
<1> HIDE DEF own
<1>4. DOMAIN f = 1 .. Cardinality(R) /\ f = [i \in 1 .. Cardinality(R) |-> f[i]]
  BY <1>3
<1> HIDE DEF f
<1>5. Len(f) = Cardinality(R)
  BY <1>3, <1>4, ListOnInterval
<1> QED  BY <1>2, <1>3, <1>5 DEF R

(* Readable references of all sources are counted.                         *)
LEMMA AllReadable ==
    ASSUME NEW refs, IsList(refs), Unreadable(refs) = {}
    PROVE  Len(refs) <= RefCount([s \in Sources |-> ParsedOf(refs, s)])
<1> DEFINE R(s) == Readable(refs, s)
           C(s) == Cardinality(Readable(refs, s))
<1>1. Len(refs) \in Nat /\ DOMAIN refs = 1 .. Len(refs)
  BY ListFacts
<1>2. \A s : IsFiniteSet(R(s)) /\ C(s) \in Nat /\ Len(ParsedOf(refs, s)) = C(s)
  BY ParsedOfLength
<1>3. ASSUME NEW i \in DOMAIN refs PROVE \E s \in Sources : i \in R(s)
  <2>1. ParsedRef(refs[i]).ok
    BY DEF Unreadable
  <2>2. ASSUME ~Supported(refs[i]) PROVE FALSE
    <3>1. ParsedRef(refs[i]) = NotParsed
      BY <2>2 DEF ParsedRef
    <3> QED  BY <2>1, <3>1 DEF NotParsed
  <2>3. PICK s \in Sources : SourceIs(refs[i], s)
    BY <2>2 DEF Supported
  <2> QED  BY <2>1, <2>3 DEF Readable
<1>4. \A s : R(s) \subseteq DOMAIN refs
  BY DEF Readable
<1> HIDE DEF R
<1>5. DOMAIN refs = (((R("okr") \cup R("task")) \cup R("calendar")) \cup R("doc")) \cup R("minutes")
  <2> DEFINE U == (((R("okr") \cup R("task")) \cup R("calendar")) \cup R("doc")) \cup R("minutes")
  <2>1. ASSUME NEW i \in DOMAIN refs PROVE i \in U
    <3>1. \E s \in {"okr", "task", "calendar", "doc", "minutes"} : i \in R(s)
      BY <1>3 DEF Sources
    <3>2. PICK s \in {"okr", "task", "calendar", "doc", "minutes"} : i \in R(s)
      BY <3>1
    <3>3. s = "okr" \/ s = "task" \/ s = "calendar" \/ s = "doc" \/ s = "minutes"
      OBVIOUS
    <3> QED  BY <3>2, <3>3, Zenon
  <2>2. ASSUME NEW i \in U PROVE i \in DOMAIN refs
    BY <1>4, Zenon
  <2> HIDE DEF U
  <2>3. DOMAIN refs = U
    BY <2>1, <2>2, Zenon
  <2> QED  BY <2>3 DEF U
<1>6. Cardinality(DOMAIN refs) = Len(refs)
  BY <1>1, PlacesCounted
<1>a. \A s : Cardinality(R(s)) = C(s)
  BY DEF R
<1> HIDE DEF C
<1>7. Len(refs) <= C("okr") + C("task") + C("calendar") + C("doc") + C("minutes")
  <2> DEFINE A == R("okr") \cup R("task")
             B == A \cup R("calendar")
             D == B \cup R("doc")
  <2>1. IsFiniteSet(A) /\ Cardinality(A) <= C("okr") + C("task")
    BY <1>2, <1>a, UnionAtMost
  <2> HIDE DEF A
  <2>2. IsFiniteSet(B) /\ Cardinality(A) \in Nat /\ Cardinality(B) <= Cardinality(A) + C("calendar")
    BY <1>2, <1>a, <2>1, UnionAtMost
  <2> HIDE DEF B
  <2>3. IsFiniteSet(D) /\ Cardinality(B) \in Nat /\ Cardinality(D) <= Cardinality(B) + C("doc")
    BY <1>2, <1>a, <2>2, UnionAtMost
  <2> HIDE DEF D
  <2>4. Cardinality(D) \in Nat /\ Cardinality(D \cup R("minutes")) <= Cardinality(D) + C("minutes")
    BY <1>2, <1>a, <2>3, UnionAtMost
  <2>5. Cardinality(D \cup R("minutes")) = Len(refs)
    BY <1>5, <1>6 DEF A, B, D
  <2>6. /\ C("okr") \in Nat /\ C("task") \in Nat /\ C("calendar") \in Nat /\ C("doc") \in Nat
        /\ C("minutes") \in Nat
    BY <1>2
  <2> QED  BY SMTT(30), <1>1, <2>1, <2>2, <2>3, <2>4, <2>5, <2>6
<1>8. RefCount([s \in Sources |-> ParsedOf(refs, s)])
        = C("okr") + C("task") + C("calendar") + C("doc") + C("minutes")
  <2> DEFINE f == [s \in Sources |-> ParsedOf(refs, s)]
  <2>1. \A s \in Sources : Len(f[s]) = C(s)
    BY <1>2
  <2> HIDE DEF f
  <2>2. /\ Len(f["okr"]) = C("okr") /\ Len(f["task"]) = C("task") /\ Len(f["calendar"]) = C("calendar")
        /\ Len(f["doc"]) = C("doc") /\ Len(f["minutes"]) = C("minutes")
    BY <2>1 DEF Sources
  <2>3. RefCount(f) = C("okr") + C("task") + C("calendar") + C("doc") + C("minutes")
    BY <2>2, Zenon DEF RefCount
  <2> QED  BY <2>3 DEF f
<1> QED  BY <1>7, <1>8

(* Lists that together are empty are.                                      *)
LEMMA NothingConcat ==
    ASSUME NEW a, NEW b, IsList(a), IsList(b), a \o b = <<>>
    PROVE  a = <<>> /\ b = <<>>
<1>1. IsList(a \o b) /\ Len(a \o b) = Len(a) + Len(b)
  BY ListConcat
<1>2. Len(a \o b) = 0 /\ Len(a) \in Nat /\ Len(b) \in Nat
  BY <1>1, ListFacts
<1>3. Len(a) = 0 /\ Len(b) = 0
  BY <1>1, <1>2
<1> QED  BY <1>3, ListFacts

(* The number of references is a number.                                   *)
LEMMA RefCountType == ASSUME NEW r, \A s \in Sources : IsList(r[s]) PROVE RefCount(r) \in Nat
<1>1. \A s \in Sources : Len(r[s]) \in Nat
  BY ListFacts
<1>2. /\ Len(r["okr"]) \in Nat /\ Len(r["task"]) \in Nat /\ Len(r["calendar"]) \in Nat
      /\ Len(r["doc"]) \in Nat /\ Len(r["minutes"]) \in Nat
  BY <1>1 DEF Sources
<1> DEFINE a == Len(r["okr"])
           b == Len(r["task"])
           c == Len(r["calendar"])
           d == Len(r["doc"])
           e == Len(r["minutes"])
<1>3. RefCount(r) = a + b + c + d + e
  BY DEF RefCount
<1>4. a \in Nat /\ b \in Nat /\ c \in Nat /\ d \in Nat /\ e \in Nat
  BY <1>2
<1> HIDE DEF a, b, c, d, e
<1>5. a + b + c + d + e \in Nat
  BY <1>4
<1> QED  BY <1>3, <1>5

(* Without a note every reference given is one to read.                    *)
LEMMA ResolvedCounts ==
    ASSUME NEW given, IsList(given), ResolveEvidenceRefs(given).degraded = <<>>
    PROVE  Len(given) <= RefCount(ResolveEvidenceRefs(given).refs)
<1> DEFINE distinct == DistinctRefs(given)
           kept == Take(distinct, EvidenceRefLimit)
           unread == Kept(kept, Unreadable(kept))
           why(i) == IF Supported(unread[i]) THEN "unparsed_ref" ELSE "unsupported_source"
           first == [i \in DOMAIN unread |-> why(i)]
           second == IF Len(given) > Len(distinct) THEN <<"merged_duplicates">> ELSE <<>>
           third == IF Len(distinct) > EvidenceRefLimit THEN <<"over_limit">> ELSE <<>>
<1>1. /\ ResolveEvidenceRefs(given).refs = [s \in Sources |-> ParsedOf(kept, s)]
      /\ ResolveEvidenceRefs(given).degraded = first \o second \o third
  BY DEF ResolveEvidenceRefs
<1>2. IsList(distinct)
  BY ListKept DEF DistinctRefs
<1>a. EvidenceRefLimit \in Nat
  BY PlanLimits
<1> HIDE DEF distinct
<1>3. IsList(kept) /\ (Len(distinct) <= EvidenceRefLimit => kept = distinct)
  BY <1>2, <1>a, TakeFacts
<1>4. IsList(second) /\ IsList(third)
  BY OneMore, NoList
<1> HIDE DEF kept
<1>5. Cardinality(Unreadable(kept)) \in Nat /\ DOMAIN unread = 1 .. Cardinality(Unreadable(kept))
      /\ IsFiniteSet(Unreadable(kept))
  <2>1. Unreadable(kept) \in SUBSET DOMAIN kept
    BY DEF Unreadable
  <2>2. Len(kept) \in Nat /\ DOMAIN kept = 1 .. Len(kept)
    BY <1>3, ListFacts
  <2> QED  BY <1>3, <2>1, <2>2, ListKept, PlacesFinite
<1> HIDE DEF unread
<1>6. DOMAIN first = 1 .. Cardinality(Unreadable(kept)) /\ first = [i \in DOMAIN first |-> first[i]]
  BY <1>5
<1> HIDE DEF first
<1>7. IsList(first) /\ Len(first) = Cardinality(Unreadable(kept))
  BY <1>5, <1>6, ListOnInterval
<1>b. second = <<>> => ~(Len(given) > Len(distinct))
  BY OneMore
<1>c. third = <<>> => ~(Len(distinct) > EvidenceRefLimit)
  BY OneMore
<1> HIDE DEF second, third
<1>8. first = <<>> /\ second = <<>> /\ third = <<>>
  <2>1. IsList(first \o second)
    BY <1>4, <1>7, ListConcat
  <2>2. (first \o second) \o third = <<>>
    BY <1>1
  <2>3. first \o second = <<>> /\ third = <<>>
    BY <1>4, <2>1, <2>2, NothingConcat
  <2> QED  BY <1>4, <1>7, <2>3, NothingConcat
<1>9. Unreadable(kept) = {}
  <2>1. Len(first) = 0
    BY <1>7, <1>8, ListFacts
  <2> QED  BY <1>5, <1>7, <2>1, FS_EmptySet
<1>10. Len(given) \in Nat /\ Len(distinct) \in Nat
  BY <1>2, ListFacts
<1>11. kept = distinct
  <2>1. Len(distinct) <= EvidenceRefLimit
    BY <1>a, <1>c, <1>8, <1>10
  <2> QED  BY <1>3, <2>1
<1>12. Len(distinct) <= RefCount(ResolveEvidenceRefs(given).refs)
  BY <1>1, <1>2, <1>9, <1>11, AllReadable
<1>d. RefCount(ResolveEvidenceRefs(given).refs) \in Nat
  BY ResolvedShape, RefCountType
<1> QED  BY <1>b, <1>d, <1>8, <1>10, <1>12

(* The invariant: a read under way has answered what it has done with, one *)
(* that is over accounts for everything.                                   *)
AnswersGiven(l) == IF l.step = "done" THEN Accounted(l) ELSE Answered(l)

(* A read that is closed, or goes on with another step.                    *)
LEMMA AnswersClosed ==
    ASSUME NEW l, LiveShape(l), Answered(l), NEW why, why = "" => NothingToRead(l),
           NEW c, c = Close(l, why)
    PROVE  AnswersGiven(c)
BY ClosedAccounts DEF AnswersGiven

(* A read that goes on has given its answers so far.                       *)
LEMMA AnswersGoOn ==
    ASSUME NEW l, LiveShape(l), Answered(l), NEW step, step # "done",
           NEW m, m = [l EXCEPT !.step = step]
    PROVE  AnswersGiven(m)
<1>1. m.step = step /\ Same(l, m, {"step"})
  BY SetStep
<1>2. /\ m.asked = l.asked /\ m.tools = l.tools /\ m.given = l.given
      /\ m.refs = l.refs /\ m.degraded = l.degraded /\ m.statuses = l.statuses
  BY <1>1 DEF Same, LiveFields
<1>3. Answered(m)
  BY <1>2, AnsweredSame
<1> QED  BY <1>1, <1>3 DEF AnswersGiven

(* Nothing is answered of a demand that was just made, and all is to read. *)
LEMMA AskedAnswered == ASSUME NEW request, IsList(request.refs) PROVE Answered(Asked(request))
<1> DEFINE l == Asked(request)
<1>1. /\ LiveShape(l) /\ l.asked = l.tools /\ l.given = request.refs /\ l.statuses = <<>>
      /\ l.refs = ResolveEvidenceRefs(request.refs).refs
      /\ l.degraded = ResolveEvidenceRefs(request.refs).degraded
  BY AskedFacts
<1> HIDE DEF l
<1>2. \A t : Of(<<>>, t) = {}
  BY DEF Of
<1>3. ReadyIn(<<>>) = {}
  BY <1>2 DEF ReadyIn
<1>4. ToolsAnswered(l)
  BY <1>1, <1>2 DEF ToolsAnswered
<1>5. RefsAnswered(l)
  <2>1. ASSUME l.degraded = <<>> PROVE Len(l.given) <= Cardinality(ReadyIn(l.statuses)) + RefCount(l.refs)
    <3>1. Len(l.given) <= RefCount(l.refs)
      BY <1>1, <2>1, ResolvedCounts
    <3>2. Cardinality(ReadyIn(l.statuses)) = 0
      BY <1>1, <1>3, FS_EmptySet
    <3>3. RefCount(l.refs) \in Nat
      BY <1>1, RefCountType DEF LiveShape
    <3> QED  BY <3>1, <3>2, <3>3
  <2> QED  BY <2>1 DEF RefsAnswered
<1> QED  BY <1>4, <1>5 DEF Answered, l

(* The steps of a read up to its first call.                               *)
LEMMA AnswersStart ==
    ASSUME NEW request, IsList(request.refs), StartLiveRead(request)
    PROVE  AnswersGiven(live')
<1> DEFINE l == Asked(request)
<1>1. \/ NothingToRead(l) /\ live' = Close(l, "")
      \/ live' = [l EXCEPT !.step = "resolve"]
  BY StartEffect
<1>2. LiveShape(l) /\ Answered(l)
  BY AskedFacts, AskedAnswered
<1> HIDE DEF l
<1>3. CASE NothingToRead(l) /\ live' = Close(l, "")
  BY <1>2, <1>3, AnswersClosed
<1>4. CASE live' = [l EXCEPT !.step = "resolve"]
  <2>1. "resolve" # "done"  OBVIOUS
  <2> QED  BY <1>2, <1>4, <2>1, AnswersGoOn
<1> QED  BY <1>1, <1>3, <1>4

(* A row of the grant that is looked at.                                   *)
LEMMA AnswersAdmit ==
    ASSUME LiveShape(live), Answered(live), NEW fresh, live' = AdmitGrant(grant, live, fresh)
    PROVE  AnswersGiven(live')
<1> DEFINE G == Gated(grant, live)
<1>1. /\ LiveShape(G) /\ Same(live, G, {"tools", "statuses", "refs", "degraded", "held"})
      /\ G.tools = live.tools \ Uncovered(grant.scopes, live.tools)
      /\ G.statuses = live.statuses \o Refusals(grant.scopes, live.tools)
      /\ G.degraded = <<>> => live.degraded = <<>> /\ \A s \in Sources : G.refs[s] = live.refs[s]
  <2>1. Admitted(grant, live, G)
    BY AdmitFacts
  <2> HIDE DEF G
  <2> QED  BY <2>1 DEF Admitted
<1>2. \/ AdmitGrant(grant, live, fresh) = Close(live, "login_again")
      \/ NothingToRead(G) /\ AdmitGrant(grant, live, fresh) = Close(G, "")
      \/ AdmitGrant(grant, live, fresh) = Close(G, "no_refresh")
      \/ \E step \in {"refresh", "identity"} : AdmitGrant(grant, live, fresh) = [G EXCEPT !.step = step]
  BY DEF AdmitGrant, Gated
<1>3. \/ live' = Close(live, "login_again")
      \/ NothingToRead(G) /\ live' = Close(G, "")
      \/ live' = Close(G, "no_refresh")
      \/ \E step \in {"refresh", "identity"} : live' = [G EXCEPT !.step = step]
  BY <1>2, Zenon
<1> HIDE DEF G
<1>4. G.asked = live.asked /\ G.given = live.given
  BY <1>1 DEF Same, LiveFields
<1>5. Answered(G)
  BY <1>1, <1>4, GateAnswers
<1>6. CASE live' = Close(live, "login_again")
  <2>1. "login_again" # ""  OBVIOUS
  <2> QED  BY <1>6, <2>1, AnswersClosed
<1>7. CASE NothingToRead(G) /\ live' = Close(G, "")
  BY <1>1, <1>5, <1>7, AnswersClosed
<1>8. CASE live' = Close(G, "no_refresh")
  <2>1. "no_refresh" # ""  OBVIOUS
  <2> QED  BY <1>1, <1>5, <1>8, <2>1, AnswersClosed
<1>9. ASSUME NEW step \in {"refresh", "identity"}, live' = [G EXCEPT !.step = step] PROVE AnswersGiven(live')
  <2>1. step # "done"  OBVIOUS
  <2> QED  BY <1>1, <1>5, <1>9, <2>1, AnswersGoOn
<1> QED  BY <1>3, <1>6, <1>7, <1>8, <1>9

(* The steps before the first call, after the demand.                      *)
LEMMA AnswersBeforeReading ==
    ASSUME LiveShape(live), AnswersGiven(live),
           ResolveGrant \/ LoadGrant \/ RefreshGrantBeforeLiveRead \/ ReloadGrant \/ ResolveLarkOpenIdForGrant
    PROVE  AnswersGiven(live')
<1>1. Answered(live)
  BY DEF AnswersGiven, ResolveGrant, LoadGrant, RefreshGrantBeforeLiveRead, ReloadGrant, ResolveLarkOpenIdForGrant
<1>2. ASSUME NEW why \in {"no_store", "no_grant", "login_again", "refresh_failed", "still_stale",
                         "grant_unreadable", "reload_failed", "undecryptable"},
             live' = Close(live, why)
      PROVE  AnswersGiven(live')
  <2>1. why # ""  OBVIOUS
  <2> QED  BY <1>1, <1>2, <2>1, AnswersClosed
<1>3. ASSUME NEW step \in {"load", "reload", "read"}, live' = [live EXCEPT !.step = step] PROVE AnswersGiven(live')
  <2>1. step # "done"  OBVIOUS
  <2> QED  BY <1>1, <1>3, <2>1, AnswersGoOn
<1>4. CASE ResolveGrant
  <2>1. \/ \E why \in {"no_store", "no_grant"} : live' = Close(live, why)
        \/ live' = [live EXCEPT !.step = "load"]
    BY <1>4 DEF ResolveGrant
  <2> QED  BY <1>2, <1>3, <2>1
<1>5. CASE LoadGrant
  <2>1. live' = Close(live, "grant_unreadable") \/ live' = AdmitGrant(grant, live, FALSE)
    BY <1>5 DEF LoadGrant
  <2> QED  BY <1>1, <1>2, <2>1, AnswersAdmit
<1>6. CASE RefreshGrantBeforeLiveRead
  <2>1. \/ \E why \in {"login_again", "refresh_failed"} : live' = Close(live, why)
        \/ live' = [live EXCEPT !.step = "reload"]
    BY <1>6 DEF RefreshGrantBeforeLiveRead
  <2> QED  BY <1>2, <1>3, <2>1
<1>7. CASE ReloadGrant
  <2>1. \/ live' = Close(live, "still_stale") \/ live' = AdmitGrant(grant, live, TRUE)
        \/ live' = Close(live, "reload_failed")
    BY <1>7 DEF ReloadGrant
  <2> QED  BY <1>1, <1>2, <2>1, AnswersAdmit
<1>8. CASE ResolveLarkOpenIdForGrant
  <2>1. \/ live' = Close(live, "undecryptable")
        \/ live' = [live EXCEPT !.step = "read"]
        \/ \E id : live' = [[live EXCEPT !.step = "read"] EXCEPT !.openId = id]
    BY <1>8 DEF ResolveLarkOpenIdForGrant
  <2>2. ASSUME NEW id, live' = [[live EXCEPT !.step = "read"] EXCEPT !.openId = id] PROVE AnswersGiven(live')
    <3>1. DOMAIN live = LiveFields
      BY DEF LiveShape
    <3>2. /\ live'.step = "read" /\ live'.asked = live.asked /\ live'.tools = live.tools
          /\ live'.given = live.given /\ live'.refs = live.refs /\ live'.degraded = live.degraded
          /\ live'.statuses = live.statuses
      BY <2>2, <3>1 DEF LiveFields
    <3>3. Answered(live')
      BY <1>1, <3>2, AnsweredSame
    <3> QED  BY <3>2, <3>3 DEF AnswersGiven
  <2> QED  BY <1>2, <1>3, <2>1, <2>2
<1> QED  BY <1>4, <1>5, <1>6, <1>7, <1>8

(* Tools that are read, each with its status.                              *)
LEMMA AnswersTools ==
    ASSUME LiveShape(live), Answered(live), live.step = "read",
           Same(live, live', {"tools", "statuses", "tasks", "minutes", "okr", "progress"}),
           NEW done, NEW ts, NEW n, OneEach(n, ts, live.tools \cap done),
           live'.tools = live.tools \ done, live'.statuses = live.statuses \o n
    PROVE  AnswersGiven(live')
<1>1. /\ live'.step = "read" /\ live'.asked = live.asked /\ live'.given = live.given
      /\ live'.refs = live.refs /\ live'.degraded = live.degraded
  BY DEF Same, LiveFields
<1>2. IsList(live.statuses) /\ live.tools \subseteq ToolNames
  BY DEF LiveShape
<1>3. ToolsAnswered(live')
  <2>1. ToolsAnswered(live)
    BY DEF Answered
  <2> QED  BY <1>1, <2>1, ToolsAnsweredBy
<1>4. IsList(n) /\ \A i \in DOMAIN n : n[i].tool # ""
  <2>1. \A i \in DOMAIN n : n[i].tool \in live.tools
    BY DEF OneEach, ToSet
  <2> QED  BY <1>2, <2>1, NamesDiffer DEF OneEach
<1>5. RefsAnswered(live')
  <2> DEFINE s == live.statuses
  <2>1. IsList(s) /\ live'.statuses = s \o n
    BY <1>2
  <2> HIDE DEF s
  <2>2. ReadyIn(s \o n) = ReadyIn(s) /\ (NotedIn(s \o n) <=> NotedIn(s))
    BY <1>4, <2>1, ToolStatusesOnly
  <2>3. ReadyIn(live'.statuses) = ReadyIn(live.statuses) /\ (NotedIn(live'.statuses) <=> NotedIn(live.statuses))
    BY <2>1, <2>2 DEF s
  <2> QED  BY <1>1, <2>3 DEF Answered, RefsAnswered
<1> QED  BY <1>1, <1>3, <1>5 DEF AnswersGiven, Answered

(* One tool that is read.                                                  *)
LEMMA AnswersTool ==
    ASSUME LiveShape(live), AnswersGiven(live), NEW tool \in ToolNames, NEW source, NEW endpoints,
           IsList(endpoints), NEW needsId, NEW summarised, LiveShape(summarised),
           Same(live, summarised, {"tasks", "minutes"}),
           AppendToolSummary(tool, source, endpoints, needsId, summarised)
    PROVE  AnswersGiven(live')
<1>1. /\ live.step = "read" /\ tool \in live.tools
      /\ Same(live, live', {"tools", "statuses", "tasks", "minutes"})
      /\ live'.tools = live.tools \ {tool}
      /\ \E st : st.tool = tool /\ live'.statuses = live.statuses \o <<st>>
  BY ToolReadEffect
<1>2. PICK st : st.tool = tool /\ live'.statuses = live.statuses \o <<st>>
  BY <1>1
<1>3. Answered(live)
  BY <1>1 DEF AnswersGiven
<1>4. Same(live, live', {"tools", "statuses", "tasks", "minutes", "okr", "progress"})
  BY <1>1 DEF Same
<1> DEFINE n == <<st>>
           ts == <<tool>>
<1>5. IsList(n) /\ DOMAIN n = 1 .. 1 /\ n[1] = st /\ DOMAIN ts = 1 .. 1 /\ ts[1] = tool
  BY OneMore
<1>a. live'.statuses = live.statuses \o n
  BY <1>2
<1> HIDE DEF n, ts
<1>b. \A i \in 1 .. 1 : i = 1
  OBVIOUS
<1>c. 1 \in 1 .. 1
  OBVIOUS
<1>6. OneEach(n, ts, live.tools \cap {tool})
  <2>1. \A i \in DOMAIN n : n[i].tool = ts[i]
    BY <1>2, <1>5, <1>b
  <2>2. \A i, j \in DOMAIN ts : i # j => ts[i] # ts[j]
    BY <1>5, <1>b
  <2>3. ToSet(ts) = {tool}
    BY <1>5, <1>b, <1>c DEF ToSet
  <2>4. live.tools \cap {tool} = {tool}
    BY <1>1
  <2> QED  BY <1>5, <2>1, <2>2, <2>3, <2>4 DEF OneEach
<1> DEFINE done == {tool}
<1>7. OneEach(n, ts, live.tools \cap done) /\ live'.tools = live.tools \ done
  BY <1>1, <1>6
<1> HIDE DEF done
<1> QED  BY <1>1, <1>3, <1>4, <1>7, <1>a, AnswersTools

(* The tools that make one operation of a client.                          *)
LEMMA AnswersOneTool ==
    ASSUME LiveShape(live), AnswersGiven(live),
           ReadMyTaskSummary \/ ReadMyMinutesSummary \/ ReadMyCalendarFreeBusy \/ ReadMyCalendarEvents
    PROVE  AnswersGiven(live')
<1>2. /\ "TaskSummary" \in ToolNames /\ "MinutesSummary" \in ToolNames
      /\ "CalendarFreeBusy" \in ToolNames /\ "CalendarEvents" \in ToolNames
  BY DEF ToolNames
<1>3. CASE ReadMyTaskSummary
  <2> DEFINE m == [live EXCEPT !.tasks = ReadPages(feishu.tasks, TaskPageLimit, feishu.wording)]
  <2>1. LiveShape(m) /\ Same(live, m, {"tasks", "minutes"})
    BY SummarisedShape
  <2>2. AppendToolSummary("TaskSummary", "task", TaskListEndpoints, FALSE, m)
    BY <1>3 DEF ReadMyTaskSummary
  <2> HIDE DEF m
  <2> QED  BY <1>2, <2>1, <2>2, AnswersTool, EndpointLists
<1>4. CASE ReadMyMinutesSummary
  <2> DEFINE m == [live EXCEPT !.minutes = ReadPages(feishu.minutes, MinutesPageLimit, feishu.wording)]
  <2>1. LiveShape(m) /\ Same(live, m, {"tasks", "minutes"})
    BY SummarisedShape
  <2>2. AppendToolSummary("MinutesSummary", "minutes", MinuteSearchEndpoints, TRUE, m)
    BY <1>4 DEF ReadMyMinutesSummary
  <2> HIDE DEF m
  <2> QED  BY <1>2, <2>1, <2>2, AnswersTool, EndpointLists
<1>5. CASE ReadMyCalendarFreeBusy
  <2>1. AppendToolSummary("CalendarFreeBusy", "calendar", CalendarFreeBusyEndpoints, TRUE, live)
    BY <1>5 DEF ReadMyCalendarFreeBusy
  <2>2. Same(live, live, {"tasks", "minutes"})
    BY DEF Same
  <2> QED  BY <1>2, <2>1, <2>2, AnswersTool, EndpointLists
<1>6. CASE ReadMyCalendarEvents
  <2>1. AppendToolSummary("CalendarEvents", "calendar", CalendarEventsEndpoints, FALSE, live)
    BY <1>6 DEF ReadMyCalendarEvents
  <2>2. Same(live, live, {"tasks", "minutes"})
    BY DEF Same
  <2> QED  BY <1>2, <2>1, <2>2, AnswersTool, EndpointLists
<1> QED  BY <1>3, <1>4, <1>5, <1>6

(* Of r, q lacks k references of one source.                               *)
Fewer(r, q, source, k) ==
    /\ \A s \in Sources : IsList(r[s]) /\ IsList(q[s])
    /\ k \in Nat /\ Len(r[source]) = Len(q[source]) + k
    /\ \A s \in Sources \ {source} : q[s] = r[s]

(* References of one source that are fewer are fewer in all.               *)
LEMMA RefCountLess ==
    ASSUME NEW r, NEW q, NEW source \in Sources, NEW k, Fewer(r, q, source, k)
    PROVE  RefCount(r) = RefCount(q) + k
<1>1. \A s \in Sources : Len(r[s]) \in Nat /\ Len(q[s]) \in Nat
  BY ListFacts DEF Fewer
<1>2. \A s \in Sources : s # source => Len(q[s]) = Len(r[s])
  BY DEF Fewer
<1>a. k \in Nat
  BY DEF Fewer
<1> DEFINE R(s) == Len(r[s])
           Q(s) == Len(q[s])
<1>3. \A s \in {"okr", "task", "calendar", "doc", "minutes"} : R(s) \in Nat /\ Q(s) \in Nat /\ (s # source => Q(s) = R(s))
  BY <1>1, <1>2 DEF Sources
<1>4. R(source) = Q(source) + k
  BY DEF Fewer
<1>5. /\ RefCount(r) = R("okr") + R("task") + R("calendar") + R("doc") + R("minutes")
      /\ RefCount(q) = Q("okr") + Q("task") + Q("calendar") + Q("doc") + Q("minutes")
  BY DEF RefCount
<1>6. source \in {"okr", "task", "calendar", "doc", "minutes"}
  BY DEF Sources
<1> HIDE DEF R, Q
<1>7. R("okr") + R("task") + R("calendar") + R("doc") + R("minutes")
        = Q("okr") + Q("task") + Q("calendar") + Q("doc") + Q("minutes") + k
  <2>1. CASE source = "okr"
    BY <1>a, <1>3, <1>4, <2>1
  <2>2. CASE source = "task"
    BY <1>a, <1>3, <1>4, <2>2
  <2>3. CASE source = "calendar"
    BY <1>a, <1>3, <1>4, <2>3
  <2>4. CASE source = "doc"
    BY <1>a, <1>3, <1>4, <2>4
  <2>5. CASE source = "minutes"
    BY <1>a, <1>3, <1>4, <2>5
  <2> QED  BY <1>6, <2>1, <2>2, <2>3, <2>4, <2>5
<1> QED  BY <1>5, <1>7

(* What is shown more is to be read less.                                  *)
LEMMA SumsAgree ==
    ASSUME NEW a \in Nat, NEW d \in Nat, NEW e \in Nat, NEW k \in Nat, NEW b, NEW c,
           b = a + k, c = d + k, e <= a + c
    PROVE  e <= b + d
OBVIOUS

(* References that are read are shown, or a note says that they are not.   *)
LEMMA AnswersRefs ==
    ASSUME LiveShape(live), AnswersGiven(live), live.step = "read", NEW source \in Sources,
           NEW left, IsList(left), NEW n, IsList(n), live' = RefsDone(source, left, n),
           \A i \in DOMAIN n : n[i].tool = "",
           \/ \E i \in DOMAIN n : n[i].tool = "" /\ n[i].state = "degraded"
           \/ AllShown(n) /\ Len(live.refs[source]) = Len(left) + Len(n)
    PROVE  AnswersGiven(live')
<1>1. /\ LiveShape(live') /\ Same(live, live', {"refs", "statuses"})
      /\ live'.statuses = live.statuses \o n
      /\ live'.refs[source] = left /\ \A s \in Sources \ {source} : live'.refs[s] = live.refs[s]
  <2>1. RefsTaken(source, left, n, live')
    BY RefsDoneFacts
  <2> QED  BY <2>1 DEF RefsTaken
<1>2. /\ live'.step = "read" /\ live'.asked = live.asked /\ live'.given = live.given
      /\ live'.tools = live.tools /\ live'.degraded = live.degraded
  BY <1>1 DEF Same, LiveFields
<1>3. Answered(live)
  BY DEF AnswersGiven
<1>4. ToolsAnswered(live')
  <2>1. ToolsAnswered(live)
    BY <1>3 DEF Answered
  <2> QED  BY <1>1, <1>2, <2>1, ToolsStayAnswered
<1>5. RefsAnswered(live')
  <2>1. ASSUME live'.degraded = <<>>, ~NotedIn(live'.statuses)
        PROVE  Len(live'.given) <= Cardinality(ReadyIn(live'.statuses)) + RefCount(live'.refs)
    <3> DEFINE s == live.statuses
    <3>1. IsList(s) /\ live'.statuses = s \o n
      BY <1>1 DEF LiveShape
    <3>a. \/ \E i \in DOMAIN n : n[i].tool = "" /\ n[i].state = "degraded"
          \/ AllShown(n) /\ Len(live.refs[source]) = Len(left) + Len(n)
      OBVIOUS
    <3> HIDE DEF s
    <3>2. ~NotedIn(s) /\ ~ \E i \in DOMAIN n : n[i].tool = "" /\ n[i].state = "degraded"
      BY <2>1, <3>1, NotesStay
    <3>3. AllShown(n) /\ Len(live.refs[source]) = Len(left) + Len(n)
      BY <3>a, <3>2
    <3>4. /\ Cardinality(ReadyIn(s)) \in Nat
          /\ Cardinality(ReadyIn(s \o n)) = Cardinality(ReadyIn(s)) + Len(n)
      BY <3>1, <3>3, MoreShown
    <3>5. Len(n) \in Nat
      BY ListFacts
    <3>6. RefCount(live.refs) = RefCount(live'.refs) + Len(n)
      <4> DEFINE r == live.refs
                 q == live'.refs
                 k == Len(n)
      <4>a. \A x \in Sources : IsList(r[x]) /\ IsList(q[x])
        BY <1>1 DEF LiveShape
      <4>b. \A x \in Sources \ {source} : q[x] = r[x]
        BY <1>1
      <4>c. Len(r[source]) = Len(q[source]) + k /\ k \in Nat
        <5>1. q[source] = left
          BY <1>1
        <5>2. Len(r[source]) = Len(left) + k
          BY <3>3
        <5> QED  BY <3>5, <5>1, <5>2
      <4>d. Fewer(r, q, source, k)
        BY <4>a, <4>b, <4>c DEF Fewer
      <4> HIDE DEF r, q, k
      <4>2. RefCount(r) = RefCount(q) + k
        BY ZenonT(60), <4>d, RefCountLess
      <4> QED  BY <4>2 DEF r, q, k
    <3>7. RefCount(live'.refs) \in Nat
      BY <1>1, RefCountType DEF LiveShape
    <3>8. Len(live.given) <= Cardinality(ReadyIn(s)) + RefCount(live.refs)
      BY <1>2, <1>3, <2>1, <3>2 DEF Answered, RefsAnswered, s
    <3>9. Len(live.given) \in Nat
      BY ListFacts DEF LiveShape
    <3> DEFINE a == Cardinality(ReadyIn(s))
               b == Cardinality(ReadyIn(s \o n))
               c == RefCount(live.refs)
               d == RefCount(live'.refs)
               e == Len(live.given)
               k == Len(n)
    <3>10. a \in Nat /\ d \in Nat /\ e \in Nat /\ k \in Nat /\ b = a + k /\ c = d + k /\ e <= a + c
      BY <3>4, <3>5, <3>6, <3>7, <3>8, <3>9
    <3>11. live'.given = live.given /\ live'.statuses = s \o n
      BY <1>2, <3>1
    <3>12. e <= b + d
      <4> HIDE DEF a, b, c, d, e, k
      <4> QED  BY <3>10, SumsAgree
    <3> QED  BY <3>11, <3>12
  <2> QED  BY <2>1 DEF RefsAnswered
<1> QED  BY <1>2, <1>4, <1>5 DEF AnswersGiven, Answered

(* What the status of a reference says.                                    *)
LEMMA StatusFields ==
    /\ Ready("").tool = "" /\ Ready("").state = "ready"
    /\ \A why : DegradedForTool("", why).tool = "" /\ DegradedForTool("", why).state = "degraded"
BY DEF Ready, DegradedForTool

(* One reference is read.                                                  *)
LEMMA AnswersEvidence ==
    ASSUME LiveShape(live), AnswersGiven(live), NEW source \in Sources, AppendEvidence(source)
    PROVE  AnswersGiven(live')
<1> DEFINE refs == live.refs[source]
<1>1. /\ live.step = "read" /\ refs # <<>>
      /\ \E st : /\ st = Ready("") \/ \E why : st = DegradedForTool("", why)
                 /\ live' = RefsDone(source, Tail(refs), <<st>>)
  BY EvidenceEffect, EndpointLists
<1>2. PICK st : /\ st = Ready("") \/ \E why : st = DegradedForTool("", why)
                /\ live' = RefsDone(source, Tail(refs), <<st>>)
  BY <1>1
<1>3. st.tool = "" /\ (st.state = "ready" \/ st.state = "degraded")
  BY <1>2, StatusFields
<1> DEFINE n == <<st>>
           left == Tail(refs)
<1>4. IsList(n) /\ Len(n) = 1 /\ n[1] = st /\ DOMAIN n = 1 .. 1
  BY OneMore
<1>5. IsList(refs)
  BY DEF LiveShape
<1>6. live' = RefsDone(source, left, n)
  BY <1>2
<1> HIDE DEF n
<1>b. \A i \in 1 .. 1 : i = 1
  OBVIOUS
<1>c. 1 \in 1 .. 1
  OBVIOUS
<1>7. \A i \in DOMAIN n : n[i].tool = ""
  BY <1>3, <1>4, <1>b
<1>8. IsList(left) /\ Len(refs) = Len(left) + Len(n)
  <2> HIDE DEF refs
  <2>1. Len(refs) \in Nat /\ IsList(left) /\ Len(left) = Len(refs) - 1
    BY <1>1, <1>5, ListFacts
  <2> HIDE DEF left
  <2> QED  BY <2>1, <1>4
<1>9. \/ \E i \in DOMAIN n : n[i].tool = "" /\ n[i].state = "degraded"
      \/ AllShown(n)
  <2>1. CASE st.state = "degraded"
    BY <1>3, <1>4, <1>c, <2>1
  <2>2. CASE st.state = "ready"
    BY <1>3, <1>4, <1>b, <2>2 DEF AllShown
  <2> QED  BY <1>3, <2>1, <2>2
<1>10. \/ \E i \in DOMAIN n : n[i].tool = "" /\ n[i].state = "degraded"
       \/ AllShown(n) /\ Len(live.refs[source]) = Len(left) + Len(n)
  BY <1>8, <1>9
<1> HIDE DEF left
<1> QED  BY <1>1, <1>4, <1>6, <1>7, <1>8, <1>10, AnswersRefs

(* The OKR references are read.                                            *)
LEMMA AnswersOkrEvidence ==
    ASSUME LiveShape(live), AnswersGiven(live), AppendOkrEvidence
    PROVE  AnswersGiven(live')
<1> DEFINE refs == live.refs["okr"]
           shown == [i \in DOMAIN refs |-> Ready("")]
<1>1. "okr" \in Sources
  BY DEF Sources
<1>2. IsList(refs) /\ Len(refs) \in Nat /\ DOMAIN refs = 1 .. Len(refs)
  BY <1>1, ListFacts DEF LiveShape
<1>3. /\ live.step = "read"
      /\ \/ live' = RefsDone("okr", <<>>, shown)
         \/ \E why : live' = RefsDone("okr", <<>>, <<DegradedForTool("", why)>>)
  BY OkrEvidenceEffect
<1>4. DOMAIN shown = 1 .. Len(refs) /\ shown = [i \in 1 .. Len(refs) |-> shown[i]]
  BY <1>2
<1>5. \A i \in DOMAIN shown : shown[i] = Ready("")
  OBVIOUS
<1> HIDE DEF shown, refs
<1>6. IsList(shown) /\ Len(shown) = Len(refs)
  BY <1>2, <1>4, ListOnInterval
<1>7. AllShown(shown) /\ \A i \in DOMAIN shown : shown[i].tool = ""
  BY <1>5, StatusFields DEF AllShown
<1> DEFINE none == <<>>
<1>8. IsList(none) /\ Len(none) = 0
  BY NoList
<1>9. CASE live' = RefsDone("okr", <<>>, shown)
  <2>1. live' = RefsDone("okr", none, shown)
    BY <1>9
  <2> HIDE DEF none
  <2>2. Len(live.refs["okr"]) = Len(none) + Len(shown)
    <3>1. Len(refs) = Len(none) + Len(shown)
      BY <1>2, <1>6, <1>8
    <3> QED  BY <3>1 DEF refs
  <2> QED  BY <1>1, <1>3, <1>6, <1>7, <1>8, <2>1, <2>2, AnswersRefs
<1>10. ASSUME NEW why, live' = RefsDone("okr", <<>>, <<DegradedForTool("", why)>>) PROVE AnswersGiven(live')
  <2> DEFINE st == DegradedForTool("", why)
             n == <<st>>
  <2>1. st.tool = "" /\ st.state = "degraded"
    BY StatusFields
  <2>a. live' = RefsDone("okr", none, n)
    BY <1>10
  <2> HIDE DEF st
  <2>2. IsList(n) /\ n[1] = st /\ DOMAIN n = 1 .. 1
    BY OneMore
  <2>b. 1 \in 1 .. 1 /\ \A i \in 1 .. 1 : i = 1
    OBVIOUS
  <2> HIDE DEF n, none
  <2>3. \A i \in DOMAIN n : n[i].tool = ""
    BY <2>1, <2>2, <2>b
  <2>4. \E i \in DOMAIN n : n[i].tool = "" /\ n[i].state = "degraded"
    BY <2>1, <2>2, <2>b
  <2> QED  BY <1>1, <1>3, <1>8, <2>2, <2>3, <2>4, <2>a, AnswersRefs
<1> QED  BY <1>3, <1>9, <1>10

(* The OKR tools are read.                                                 *)
LEMMA AnswersOkrSummaries ==
    ASSUME LiveShape(live), AnswersGiven(live), AppendOkrSummaries
    PROVE  AnswersGiven(live')
<1>1. /\ live.step = "read"
      /\ Same(live, live', {"tools", "statuses", "okr", "progress"})
      /\ live'.tools = live.tools \ OkrTools
      /\ \E new : /\ IsList(new) /\ live'.statuses = live.statuses \o new
                  /\ DOMAIN new = DOMAIN OkrToolsAsked
                  /\ \A i \in DOMAIN new : new[i].tool = OkrToolsAsked[i]
  BY OkrSummariesEffect
<1>2. PICK new : /\ IsList(new) /\ live'.statuses = live.statuses \o new
                 /\ DOMAIN new = DOMAIN OkrToolsAsked
                 /\ \A i \in DOMAIN new : new[i].tool = OkrToolsAsked[i]
  BY <1>1
<1>3. /\ ToSet(OkrToolsAsked) = live.tools \cap OkrTools
      /\ \A i, j \in DOMAIN OkrToolsAsked : i # j => OkrToolsAsked[i] # OkrToolsAsked[j]
  <2>1. live.tools \cap OkrTools \in SUBSET ToolNames
    BY NamesDiffer
  <2> QED  BY <2>1, InOrderFacts DEF OkrToolsAsked
<1>4. OneEach(new, OkrToolsAsked, live.tools \cap OkrTools)
  BY <1>2, <1>3 DEF OneEach
<1>5. Answered(live)
  BY <1>1 DEF AnswersGiven
<1>6. Same(live, live', {"tools", "statuses", "tasks", "minutes", "okr", "progress"})
  BY <1>1 DEF Same
<1>7. live'.statuses = live.statuses \o new
  BY <1>2
<1> QED  BY <1>1, <1>4, <1>5, <1>6, <1>7, AnswersTools

(* All steps of a read.                                                    *)
LEMMA AnswersSteps ==
    ASSUME LiveShape(live), AnswersGiven(live), NEW request, IsList(request.refs), ReadSteps(request)
    PROVE  AnswersGiven(live')
<1>1. CASE StartLiveRead(request)
  BY <1>1, AnswersStart
<1>2. CASE ResolveGrant \/ LoadGrant \/ RefreshGrantBeforeLiveRead \/ ReloadGrant \/ ResolveLarkOpenIdForGrant
  BY <1>2, AnswersBeforeReading
<1>3. CASE ReadMyTaskSummary \/ ReadMyMinutesSummary \/ ReadMyCalendarFreeBusy \/ ReadMyCalendarEvents
  BY <1>3, AnswersOneTool
<1>4. ASSUME NEW source \in Sources \ {"okr"}, AppendEvidence(source) PROVE AnswersGiven(live')
  BY <1>4, AnswersEvidence
<1>5. CASE FinishLiveRead
  <2>1. live.step = "read" /\ NothingToRead(live) /\ live' = Close(live, "")
    BY <1>5 DEF FinishLiveRead
  <2>2. Answered(live)
    BY <2>1 DEF AnswersGiven
  <2> QED  BY <2>1, <2>2, AnswersClosed
<1> QED  BY <1>1, <1>2, <1>3, <1>4, <1>5, AnswersOkrEvidence, AnswersOkrSummaries DEF ReadSteps

(* A read that has not started has nothing to answer.                      *)
LEMMA AnswersNotStarted == AnswersGiven(NotStarted)
<1>1. /\ NotStarted.step = "idle" /\ NotStarted.asked = {} /\ NotStarted.given = <<>>
      /\ NotStarted.statuses = <<>>
  BY DEF NotStarted
<1>2. ToolsAnswered(NotStarted)
  BY <1>1 DEF ToolsAnswered
<1>3. Len(<<>>) = 0 /\ RefCount(NotStarted.refs) \in Nat
  BY NotStartedShape, RefCountType DEF LiveShape
<1>4. ReadyIn(<<>>) = {}
  BY DEF ReadyIn, Of
<1>5. Cardinality(ReadyIn(NotStarted.statuses)) = 0
  BY <1>1, <1>4, FS_EmptySet
<1>6. RefsAnswered(NotStarted)
  BY <1>1, <1>3, <1>5 DEF RefsAnswered
<1> QED  BY <1>1, <1>2, <1>6 DEF AnswersGiven, Answered

(* When the read of a turn is over, every tool that was planned has one    *)
(* status or a general note says why there is none, and references that    *)
(* are not shown are noted, whichever grant rows, refusals, failures and   *)
(* gates came in between.                                                  *)
THEOREM LiveReadsAreAnswered == Spec => []EveryReadIsAnswered
<1> DEFINE Inv == ReadInv /\ TurnShape /\ AnswersGiven(live)
<1>1. Init => Inv
  <2>1. Init => live = NotStarted
    BY DEF Init, ReadInit
  <2> QED  BY <2>1, ReadInvInit, TurnShapeInit, AnswersNotStarted
<1>2. Inv /\ [Next]_vars => Inv'
  <2> SUFFICES ASSUME ReadInv, TurnShape, AnswersGiven(live), [Next]_vars
               PROVE  ReadInv' /\ TurnShape' /\ AnswersGiven(live')
    BY DEF AnswersGiven, Accounted, Answered, ToolsAnswered, RefsAnswered, RefCount
  <2>1. ReadInv' /\ TurnShape'
    BY TurnStep
  <2>2. LiveShape(live) /\ IsList(turn.request.refs)
    BY DEF ReadInv, TurnShape
  <2>3. CASE ReadSteps(turn.request)
    <3> DEFINE request == turn.request
    <3>1. IsList(request.refs) /\ ReadSteps(request)
      BY <2>2, <2>3
    <3> HIDE DEF request
    <3>2. AnswersGiven(live')
      BY <2>2, <3>1, AnswersSteps
    <3> QED  BY <2>1, <3>2
  <2>4. CASE live' = NotStarted
    BY <2>1, <2>4, AnswersNotStarted
  <2>5. CASE live' = live
    BY <2>1, <2>5
  <2>6. OtherSteps \/ UNCHANGED readVars => live' = live
    BY DEF OtherSteps, LoginAgain, LogoutElsewhere, GrantAges, RotatedElsewhere, Others, readVars
  <2> QED  BY <2>3, <2>4, <2>5, <2>6, ReadSide
<1>3. Inv => EveryReadIsAnswered
  <2>1. ReadInv => LiveShape(live)
    BY DEF ReadInv
  <2>2. AnswersGiven(live) => (live.step = "done" => Accounted(live))
    BY DEF AnswersGiven
  <2> QED  BY <2>1, <2>2, AccountedIsAnswered
<1> QED  BY <1>1, <1>2, <1>3, PTL DEF Spec

-----------------------------------------------------------------------------
(* The progress summary covers every target, or a part of it says more *)

(* Places are triples of numbers; a set of them that is not empty has a    *)
(* first one in reading order.                                             *)
LEMMA FirstPlace ==
    ASSUME NEW S \in SUBSET (Nat \X Nat \X Nat), S # {}
    PROVE  \E p \in S : \A q \in S : ~Before(q, p)
<1> DEFINE A == {p[1] : p \in S}
<1>1. A \in SUBSET Nat /\ A # {}
  OBVIOUS
<1>2. PICK a \in A : \A y \in A : a <= y
  <2> HIDE DEF A
  <2> QED  BY <1>1, LeastOf
<1> DEFINE SA == {p \in S : p[1] = a}
           B == {p[2] : p \in SA}
<1>3. B \in SUBSET Nat /\ B # {}
  OBVIOUS
<1>4. PICK b \in B : \A y \in B : b <= y
  <2> HIDE DEF B
  <2> QED  BY <1>3, LeastOf
<1> DEFINE SB == {p \in SA : p[2] = b}
           C == {p[3] : p \in SB}
<1>5. C \in SUBSET Nat /\ C # {}
  OBVIOUS
<1>6. PICK c \in C : \A y \in C : c <= y
  <2> HIDE DEF C
  <2> QED  BY <1>5, LeastOf
<1>7. PICK p \in SB : p[3] = c
  OBVIOUS
<1>8. p \in S /\ p[1] = a /\ p[2] = b /\ a \in Nat /\ b \in Nat /\ c \in Nat
  BY <1>1, <1>3, <1>5, <1>7
<1>9. ASSUME NEW q \in S, Before(q, p) PROVE FALSE
  <2>0. q[1] \in Nat /\ q[2] \in Nat /\ q[3] \in Nat
    OBVIOUS
  <2>1. a <= q[1]
    BY <1>2
  <2>2. q[1] = a => b <= q[2]
    BY <1>4
  <2>3. q[1] = a /\ q[2] = b => c <= q[3]
    BY <1>6
  <2> HIDE DEF A, B, C, SA, SB
  <2> QED  BY <2>0, <2>1, <2>2, <2>3, <1>7, <1>8, <1>9 DEF Before
<1> QED  BY <1>8, <1>9

(* Targets that are discovered twice are read once: their keys stay.       *)
LEMMA DistinctKeys ==
    ASSUME NEW cycles, NEW places \in SUBSET (Nat \X Nat \X Nat)
    PROVE  \A p \in places : \E q \in DistinctTargets(cycles, places) :
              TargetAt(cycles, q).key = TargetAt(cycles, p).key
<1> SUFFICES ASSUME NEW p \in places
             PROVE  \E q \in DistinctTargets(cycles, places) : TargetAt(cycles, q).key = TargetAt(cycles, p).key
  OBVIOUS
<1> DEFINE S == {r \in places : TargetAt(cycles, r).key = TargetAt(cycles, p).key}
<1>1. S \in SUBSET (Nat \X Nat \X Nat) /\ S # {}
  BY Zenon
<1>2. PICK q \in S : \A r \in S : ~Before(r, q)
  <2> HIDE DEF S
  <2> QED  BY <1>1, FirstPlace
<1>3. q \in DistinctTargets(cycles, places)
  BY <1>2 DEF DistinctTargets
<1> QED  BY <1>2, <1>3

(* The options of a read that asks for progress.                           *)
LEMMA ProgressOptions ==
    ASSUME NEW summary \in BOOLEAN
    PROVE  LET o == OptionsForRequestedTools(summary, TRUE)
           IN  o.page \in Nat /\ o.krs \in Nat /\ o.krs >= ObjectiveDiscoveryLimit
<1>1. /\ SummaryPageSize \in Nat /\ ProgressPageSize \in Nat /\ ProgressKeyResultLimit \in Nat
      /\ ProgressKeyResultLimit >= ObjectiveDiscoveryLimit /\ ObjectiveDiscoveryLimit \in Nat
  BY OkrLimits
<1> QED  BY <1>1 DEF OptionsForRequestedTools

(* Of two numbers, one that is not more than the other is at most it.      *)
LEMMA NotMore == ASSUME NEW a \in Nat, NEW b \in Nat, ~(a > b) PROVE a <= b
OBVIOUS

(* A list of a cycle, read without being cut, holds its objectives.        *)
LEMMA WholeCycle ==
    ASSUME NEW c \in HeldCycle, c.id # "", NEW options, options.page \in Nat, NEW r,
           r = ReadCycle(c, TRUE, options), ~r.more
    PROVE  /\ r.id = c.id
           /\ c.hollow => r.objectives = <<>>
           /\ ~c.hollow => /\ DOMAIN r.objectives = DOMAIN c.objectives
                           /\ \A j \in DOMAIN c.objectives :
                                 r.objectives[j] = ReadObjective(c.objectives[j], j <= options.krs, options.page)
<1> DEFINE objectives == Take(c.objectives, options.page)
           listed == ~c.hollow
           read == [i \in DOMAIN objectives |-> ReadObjective(objectives[i], i <= options.krs, options.page)]
<1>1. r.id = c.id /\ r.more = (listed /\ Len(c.objectives) > options.page)
      /\ r.objectives = IF ~listed THEN <<>> ELSE read
  BY DEF ReadCycle
<1>2. IsList(c.objectives)
  <2>1. c.objectives \in Seq(HeldObjective)
    BY DEF HeldCycle
  <2> QED  BY <2>1, ListOf
<1>3. ASSUME ~c.hollow PROVE objectives = c.objectives
  <2>1. Len(c.objectives) \in Nat /\ options.page \in Nat /\ ~(Len(c.objectives) > options.page)
    BY <1>1, <1>2, <1>3, ListFacts
  <2>2. Len(c.objectives) <= options.page
    BY <2>1, NotMore
  <2> QED  BY <1>2, <2>2, TakeFacts
<1> HIDE DEF objectives
<1>4. ~c.hollow => r.objectives = read
  BY <1>1
<1> QED  BY <1>1, <1>3, <1>4

(* So with the key results of an objective that are asked for.             *)
LEMMA WholeObjective ==
    ASSUME NEW o \in HeldObjective, o.id # "", NEW page \in Nat, NEW r,
           r = ReadObjective(o, TRUE, page), ~r.more
    PROVE  r.id = o.id /\ (o.hollow => r.krs = <<>>) /\ (~o.hollow => r.krs = o.krs)
<1>1. /\ r.id = o.id /\ r.more = (~o.hollow /\ Len(o.krs) > page)
      /\ r.krs = IF ~o.hollow THEN Take(o.krs, page) ELSE <<>>
  BY DEF ReadObjective
<1>2. IsList(o.krs)
  <2>1. o.krs \in Seq(HeldKeyResult)
    BY DEF HeldObjective
  <2> QED  BY <2>1, ListOf
<1>3. ASSUME ~o.hollow PROVE Take(o.krs, page) = o.krs
  <2>1. Len(o.krs) \in Nat /\ ~(Len(o.krs) > page)
    BY <1>1, <1>2, <1>3, ListFacts
  <2>2. Len(o.krs) <= page
    BY <2>1, NotMore
  <2> QED  BY <1>2, <2>2, TakeFacts
<1> QED  BY <1>1, <1>3

(* A list of cycles that is not cut and no longer than what is looked into *)
(* has been read cycle by cycle.                                           *)
LEMMA WholePage ==
    ASSUME NEW cycles, IsList(cycles), NEW options, options.page \in Nat, NEW t,
           t = ReadMyOkrTopology(cycles, options), ~t.more, ~(Len(t.cycles) > CycleExpandLimit)
    PROVE  /\ DOMAIN t.cycles = DOMAIN cycles
           /\ \A i \in DOMAIN cycles : /\ t.cycles[i] = ReadCycle(cycles[i], TRUE, options)
                                       /\ i <= CycleExpandLimit
<1> DEFINE page == Take(cycles, options.page)
           read == [i \in DOMAIN page |-> ReadCycle(page[i], i <= CycleExpandLimit, options)]
<1>1. t.cycles = read /\ t.more = (Len(cycles) > options.page)
  BY DEF ReadMyOkrTopology
<1>2. Len(cycles) \in Nat /\ DOMAIN cycles = 1 .. Len(cycles)
  BY ListFacts
<1>3. Len(cycles) <= options.page
  BY <1>1, <1>2, NotMore
<1>4. page = cycles
  BY <1>3, TakeFacts
<1> HIDE DEF page
<1>5. DOMAIN read = 1 .. Len(cycles) /\ read = [i \in 1 .. Len(cycles) |-> read[i]]
  BY <1>2, <1>4
<1>6. \A i \in DOMAIN cycles : read[i] = ReadCycle(cycles[i], i <= CycleExpandLimit, options)
  BY <1>4
<1> HIDE DEF read
<1>7. Len(read) = Len(cycles)
  BY <1>2, <1>5, ListOnInterval
<1>8. CycleExpandLimit \in Nat
  BY OkrLimits
<1>9. \A i \in DOMAIN cycles : (i <= CycleExpandLimit) = TRUE
  BY <1>1, <1>2, <1>7, <1>8
<1> QED  BY <1>1, <1>2, <1>5, <1>6, <1>9

(* The values of a function on a finite set are finitely many.             *)
LEMMA ValuesFinite ==
    ASSUME NEW f, IsFiniteSet(DOMAIN f)
    PROVE  IsFiniteSet({f[x] : x \in DOMAIN f})
<1> DEFINE T == {f[x] : x \in DOMAIN f}
           g == [x \in DOMAIN f |-> f[x]]
<1>1. g \in Surjection(DOMAIN f, T)
  BY DEF Surjection
<1> HIDE DEF g, T
<1>2. IsFiniteSet(T)
  BY <1>1, FS_Surjection
<1> QED  BY <1>2 DEF T

(* There are finitely many places of objectives.                           *)
LEMMA ObjectivePlacesFinite ==
    ASSUME NEW cycles, IsFiniteSet(DOMAIN cycles),
           \A i \in DOMAIN cycles : IsFiniteSet(DOMAIN cycles[i].objectives)
    PROVE  IsFiniteSet(ObjectivePlaces(cycles))
<1> DEFINE E == Expanded(cycles)
           In(i) == [j \in DOMAIN cycles[i].objectives |-> <<i, j, 0>>]
           F == [i \in E |-> {<<i, j, 0>> : j \in DOMAIN cycles[i].objectives}]
<1>1. E \in SUBSET DOMAIN cycles
  BY DEF Expanded
<1>2. IsFiniteSet(E)
  BY <1>1, FS_Subset
<1>3. ASSUME NEW i \in E PROVE IsFiniteSet(F[i])
  <2> DEFINE f == In(i)
  <2>1. DOMAIN f = DOMAIN cycles[i].objectives /\ F[i] = {f[x] : x \in DOMAIN f}
    OBVIOUS
  <2>2. IsFiniteSet(DOMAIN f)
    BY <1>1, <2>1
  <2> HIDE DEF f, F
  <2> QED  BY <2>1, <2>2, ValuesFinite
<1>4. DOMAIN F = E /\ ObjectivePlaces(cycles) = UNION {F[i] : i \in DOMAIN F}
  BY DEF ObjectivePlaces
<1> HIDE DEF F, E
<1>5. IsFiniteSet({F[i] : i \in DOMAIN F})
  BY <1>2, <1>4, ValuesFinite
<1>6. \A T \in {F[i] : i \in DOMAIN F} : IsFiniteSet(T)
  BY <1>3, <1>4
<1> DEFINE S == {F[i] : i \in DOMAIN F}
<1>7. IsFiniteSet(S) /\ \A T \in S : IsFiniteSet(T)
  BY <1>5, <1>6
<1>8. ObjectivePlaces(cycles) = UNION S
  BY <1>4
<1> HIDE DEF S
<1> QED  BY <1>7, <1>8, FS_UNION

(* An objective that is among the first n places is among the first n of   *)
(* its cycle.                                                              *)
LEMMA DiscoveredEarly ==
    ASSUME NEW cycles, IsFiniteSet(ObjectivePlaces(cycles)), NEW i \in Expanded(cycles), NEW len \in Nat,
           DOMAIN cycles[i].objectives = 1 .. len, NEW j \in 1 .. len, NEW n \in Nat,
           <<i, j, 0>> \in FirstPlaces(ObjectivePlaces(cycles), n)
    PROVE  j <= n
<1> DEFINE P == ObjectivePlaces(cycles)
           B == {q \in P : Before(q, <<i, j, 0>>)}
           f == [m \in 1 .. j - 1 |-> <<i, m, 0>>]
<1>1. IsFiniteSet(P) /\ B \in SUBSET P /\ Cardinality(B) < n
  BY DEF FirstPlaces
<1>2. IsFiniteSet(B)
  <2> HIDE DEF B, P
  <2> QED  BY <1>1, FS_Subset
<1>3. \A m \in 1 .. j - 1 : f[m] \in B
  <2> SUFFICES ASSUME NEW m \in 1 .. j - 1 PROVE <<i, m, 0>> \in B
    OBVIOUS
  <2>1. m \in 1 .. len /\ m < j
    OBVIOUS
  <2>2. <<i, m, 0>> \in P
    BY <2>1 DEF ObjectivePlaces
  <2>3. Before(<<i, m, 0>>, <<i, j, 0>>)
    BY <2>1 DEF Before
  <2> QED  BY <2>2, <2>3
<1>4. \A m, k \in 1 .. j - 1 : f[m] = f[k] => m = k
  OBVIOUS
<1>5. f \in [1 .. j - 1 -> B]
  BY <1>3
<1> HIDE DEF f, B
<1>6. f \in Injection(1 .. j - 1, B)
  BY <1>4, <1>5 DEF Injection, IsInjective
<1>7. j - 1 \in Nat
  OBVIOUS
<1>8. IsFiniteSet(1 .. j - 1) /\ Cardinality(1 .. j - 1) = j - 1
  BY <1>7, PlacesCounted
<1>9. Cardinality(1 .. j - 1) <= Cardinality(B)
  BY <1>2, <1>6, FS_Injection
<1>10. Cardinality(B) \in Nat
  BY <1>2, FS_CardinalityType
<1> QED  BY <1>1, <1>8, <1>9, <1>10

(* The cycles read are the cycles held, each with its objectives and these *)
(* with their key results, as far as Feishu answers for them.              *)
WholeObjectives(held, read) ==
    /\ DOMAIN read = DOMAIN held
    /\ \A j \in DOMAIN held : /\ read[j].id = held[j].id
                              /\ held[j].hollow => read[j].krs = <<>>
                              /\ ~held[j].hollow => read[j].krs = held[j].krs
Whole(held, read) ==
    /\ DOMAIN read = DOMAIN held
    /\ \A i \in DOMAIN held : /\ held[i].hollow => read[i].objectives = <<>>
                              /\ ~held[i].hollow => WholeObjectives(held[i].objectives, read[i].objectives)

(* The places of all objectives and key results.                           *)
AllPlaces(cycles) == ObjectivePlaces(cycles) \cup KeyResultPlaces(cycles, ObjectivePlaces(cycles))

(* Every target of the places is held.                                     *)
LEMMA PlacesAreHeld ==
    ASSUME NEW held, NEW read, Whole(held, read), Expanded(read) = DOMAIN read, NEW p \in AllPlaces(read)
    PROVE  TargetAt(read, p).key \in TargetsHeld(held)
<1>1. ASSUME NEW i \in DOMAIN held, NEW j \in DOMAIN read[i].objectives
      PROVE  /\ ~held[i].hollow /\ j \in DOMAIN held[i].objectives
             /\ WholeObjectives(held[i].objectives, read[i].objectives)
             /\ held[i] \in {d \in ToSet(held) : ~d.hollow} /\ held[i].objectives[j] \in ToSet(held[i].objectives)
  <2>1. ~held[i].hollow
    BY <1>1 DEF Whole
  <2>2. WholeObjectives(held[i].objectives, read[i].objectives)
    BY <1>1, <2>1 DEF Whole
  <2>3. j \in DOMAIN held[i].objectives
    BY <1>1, <2>2 DEF WholeObjectives
  <2> QED  BY <1>1, <2>1, <2>2, <2>3 DEF ToSet
<1>2. CASE p \in ObjectivePlaces(read)
  <2>1. PICK i \in DOMAIN held : p \in {<<i, j, 0>> : j \in DOMAIN read[i].objectives}
    BY <1>2 DEF ObjectivePlaces, Whole
  <2>2. PICK j \in DOMAIN read[i].objectives : p = <<i, j, 0>>
    BY <2>1
  <2>3. TargetAt(read, p).key = <<"o", read[i].objectives[j].id>>
    BY <2>2 DEF TargetAt, ObjectiveAt
  <2>4. read[i].objectives[j].id = held[i].objectives[j].id
    BY <1>1 DEF WholeObjectives
  <2> QED  BY <1>1, <2>3, <2>4 DEF TargetsHeld
<1>3. CASE p \in KeyResultPlaces(read, ObjectivePlaces(read))
  <2>1. PICK q \in ObjectivePlaces(read) : p \in {<<q[1], q[2], k>> : k \in DOMAIN ObjectiveAt(read, q).krs}
    BY <1>3 DEF KeyResultPlaces
  <2>2. PICK i \in DOMAIN held : q \in {<<i, j, 0>> : j \in DOMAIN read[i].objectives}
    BY <2>1 DEF ObjectivePlaces, Whole
  <2>3. PICK j \in DOMAIN read[i].objectives : q = <<i, j, 0>>
    BY <2>2
  <2> DEFINE o == held[i].objectives[j]
             r == read[i].objectives[j]
  <2>4. PICK k \in DOMAIN r.krs : p = <<i, j, k>>
    BY <2>1, <2>3 DEF ObjectiveAt
  <2>5. r.id = o.id /\ (o.hollow => r.krs = <<>>) /\ (~o.hollow => r.krs = o.krs)
    BY <1>1 DEF WholeObjectives
  <2>6. ~o.hollow /\ r.krs = o.krs /\ k \in DOMAIN o.krs
    BY <2>4, <2>5
  <2>7. TargetAt(read, p).key = <<"o", o.id>> \/ TargetAt(read, p).key = <<"kr", o.krs[k].id>>
    BY <2>4, <2>5, <2>6 DEF TargetAt, ObjectiveAt
  <2>8. o \in ToSet(held[i].objectives) /\ o.krs[k] \in ToSet(o.krs)
    BY <1>1, <2>6 DEF ToSet
  <2>9. held[i] \in {d \in ToSet(held) : ~d.hollow}
    BY <1>1
  <2>10. TargetAt(read, p).key
          \in {<<"o", o.id>>} \cup (IF o.hollow THEN {} ELSE {<<"kr", m.id>> : m \in ToSet(o.krs)})
    BY <2>6, <2>7, <2>8
  <2> HIDE DEF o, r
  <2> DEFINE c == held[i]
  <2>11. TargetAt(read, p).key
          \in UNION {{<<"o", q1.id>>} \cup (IF q1.hollow THEN {} ELSE {<<"kr", m.id>> : m \in ToSet(q1.krs)})
                     : q1 \in ToSet(c.objectives)}
    BY <2>8, <2>10
  <2> QED  BY <2>9, <2>11 DEF TargetsHeld
<1> QED  BY <1>2, <1>3 DEF AllPlaces

(* Every target that is held has a place.                                  *)
LEMMA HeldHasPlace ==
    ASSUME NEW held, NEW read, Whole(held, read), Expanded(read) = DOMAIN read,
           \A i \in DOMAIN held : ~held[i].hollow =>
              \A j \in DOMAIN held[i].objectives : 0 \notin DOMAIN held[i].objectives[j].krs,
           NEW x \in TargetsHeld(held)
    PROVE  \E p \in AllPlaces(read) : TargetAt(read, p).key = x
<1>1. PICK c \in {d \in ToSet(held) : ~d.hollow} :
         x \in UNION {{<<"o", o.id>>} \cup (IF o.hollow THEN {} ELSE {<<"kr", k.id>> : k \in ToSet(o.krs)})
                      : o \in ToSet(c.objectives)}
  BY DEF TargetsHeld
<1>2. PICK o \in ToSet(c.objectives) :
         x \in {<<"o", o.id>>} \cup (IF o.hollow THEN {} ELSE {<<"kr", k.id>> : k \in ToSet(o.krs)})
  BY <1>1
<1>3. PICK i \in DOMAIN held : held[i] = c
  BY DEF ToSet
<1>4. PICK j \in DOMAIN c.objectives : c.objectives[j] = o
  BY DEF ToSet
<1> DEFINE r == read[i].objectives[j]
<1>5. WholeObjectives(c.objectives, read[i].objectives)
  BY <1>3 DEF Whole
<1>6. /\ j \in DOMAIN read[i].objectives /\ r.id = o.id
  BY <1>4, <1>5 DEF WholeObjectives
<1>a. ~o.hollow => r.krs = o.krs
  BY <1>4, <1>5 DEF WholeObjectives
<1>7. i \in Expanded(read)
  BY DEF Whole
<1>8. <<i, j, 0>> \in ObjectivePlaces(read)
  BY <1>6, <1>7 DEF ObjectivePlaces
<1>9. CASE x = <<"o", o.id>>
  <2>1. TargetAt(read, <<i, j, 0>>).key = x
    BY <1>6, <1>9 DEF TargetAt, ObjectiveAt
  <2> QED  BY <1>8, <2>1 DEF AllPlaces
<1>10. CASE ~o.hollow /\ \E k \in ToSet(o.krs) : x = <<"kr", k.id>>
  <2>1. PICK n \in DOMAIN o.krs : x = <<"kr", o.krs[n].id>>
    BY <1>10 DEF ToSet
  <2>2. n \in DOMAIN r.krs /\ r.krs[n] = o.krs[n] /\ n # 0
    BY <1>10, <1>3, <1>4, <1>a
  <2>3. <<i, j, n>> \in {<<(<<i, j, 0>>)[1], (<<i, j, 0>>)[2], k>> : k \in DOMAIN ObjectiveAt(read, <<i, j, 0>>).krs}
    BY <2>2 DEF ObjectiveAt
  <2>4. <<i, j, n>> \in KeyResultPlaces(read, ObjectivePlaces(read))
    BY <1>8, <2>3 DEF KeyResultPlaces
  <2>5. TargetAt(read, <<i, j, n>>).key = x
    BY <2>1, <2>2 DEF TargetAt, ObjectiveAt
  <2> QED  BY <2>4, <2>5 DEF AllPlaces
<1> QED  BY <1>2, <1>9, <1>10

(* Nothing was cut, nothing lacks an id and nobody came after the limits.  *)
NothingSkipped(t) ==
    LET D == t.cycles
    IN  /\ ~(Len(D) > CycleExpandLimit) /\ ~t.more
        /\ \A i \in DOMAIN D : i <= CycleExpandLimit => D[i].id # ""
        /\ FirstPlaces(ObjectivePlaces(D), ObjectiveDiscoveryLimit) = ObjectivePlaces(D)
        /\ \A p \in ObjectivePlaces(D) : TargetAt(D, p).key[2] # ""
        /\ \A i \in Expanded(D) : ~D[i].more
        /\ \A p \in ObjectivePlaces(D) : ~ObjectiveAt(D, p).more

(* A progress summary with an empty note says all that, and reads the      *)
(* distinct targets of all places.                                         *)
LEMMA EmptyNote ==
    ASSUME NEW t, NEW words, NEW s, s = ReadMyOkrProgressSummaryFromTopology(t, words), SkipSuffix(t) = {}
    PROVE  /\ NothingSkipped(t)
           /\ s.read = {TargetAt(t.cycles, p).key : p \in DistinctTargets(t.cycles, AllPlaces(t.cycles))}
<1> DEFINE D == t.cycles
           objectives == ObjectivePlaces(D)
           found == FirstPlaces(objectives, ObjectiveDiscoveryLimit)
           named == Identified(D, found)
           krs == KeyResultPlaces(D, named)
           within == FirstPlaces(krs, KeyResultDiscoveryLimit)
           distinct == DistinctTargets(D, named \cup Identified(D, within))
           targets == FirstPlaces(distinct, ProgressTargetLimit)
           f == DiscoverProgressTargets(t)
           Note(when, text) == IF when THEN {text} ELSE {}
<1>1. /\ s.read = {x.key : x \in f.targets}
      /\ SkipSuffix(t) = f.skipped \cup Note(Len(t.cycles) > CycleExpandLimit, "cycles")
                     \cup Note(t.more, "list_pages")
                     \cup Note(\E x \in f.targets : x.records > ProgressRecordPageSize, "progress_pages")
  BY DEF ReadMyOkrProgressSummaryFromTopology, SkipSuffix
<1>2. /\ f.targets = {TargetAt(D, p) : p \in targets}
      /\ f.skipped = Note(found # objectives, "objectives")
                     \cup Note(within # krs, "key_results")
                     \cup Note(targets # distinct, "targets")
                     \cup Note(\/ \E i \in DOMAIN D : i <= CycleExpandLimit /\ D[i].id = ""
                               \/ named # found
                               \/ Identified(D, within) # within, "missing_ids")
                     \cup Note(\/ \E i \in Expanded(D) : D[i].more
                               \/ \E p \in named : ObjectiveAt(D, p).more, "list_pages")
  BY DEF DiscoverProgressTargets
<1>3. \A when, text : Note(when, text) = {} => ~when
  OBVIOUS
<1> HIDE DEF f, Note, targets, distinct, within, krs, named, found, objectives, D
<1>4. /\ f.skipped = {} /\ Note(Len(t.cycles) > CycleExpandLimit, "cycles") = {} /\ Note(t.more, "list_pages") = {}
  BY <1>1
<1>5. /\ Note(found # objectives, "objectives") = {} /\ Note(within # krs, "key_results") = {}
      /\ Note(targets # distinct, "targets") = {}
      /\ Note(\/ \E i \in DOMAIN D : i <= CycleExpandLimit /\ D[i].id = ""
              \/ named # found
              \/ Identified(D, within) # within, "missing_ids") = {}
      /\ Note(\/ \E i \in Expanded(D) : D[i].more
              \/ \E p \in named : ObjectiveAt(D, p).more, "list_pages") = {}
  BY <1>2, <1>4
<1>6. ~(Len(t.cycles) > CycleExpandLimit) /\ ~t.more
  BY <1>3, <1>4
<1>7. found = objectives /\ within = krs /\ targets = distinct
  BY <1>3, <1>5
<1>8. ~ (\/ \E i \in DOMAIN D : i <= CycleExpandLimit /\ D[i].id = ""
         \/ named # found
         \/ Identified(D, within) # within)
  BY <1>3, <1>5
<1>9. ~ (\/ \E i \in Expanded(D) : D[i].more
         \/ \E p \in named : ObjectiveAt(D, p).more)
  BY <1>3, <1>5
<1>10. named = objectives /\ Identified(D, within) = krs
  BY <1>7, <1>8
<1>11. krs = KeyResultPlaces(D, objectives) /\ distinct = DistinctTargets(D, objectives \cup krs)
  BY <1>10 DEF krs, distinct
<1>12. \A p \in objectives : TargetAt(D, p).key[2] # ""
  BY <1>7, <1>10 DEF named, Identified
<1>13. NothingSkipped(t)
  BY <1>6, <1>7, <1>8, <1>9, <1>10, <1>12 DEF NothingSkipped, D, objectives, found
<1>14. distinct = DistinctTargets(D, AllPlaces(D))
  BY <1>11 DEF AllPlaces, objectives
<1>15. s.read = {TargetAt(D, p).key : p \in distinct}
  <2>1. f.targets = {TargetAt(D, p) : p \in distinct}
    BY <1>2, <1>7
  <2>2. ASSUME NEW p \in distinct PROVE TargetAt(D, p).key \in s.read
    BY <1>1, <2>1
  <2>3. ASSUME NEW y \in s.read PROVE \E p \in distinct : y = TargetAt(D, p).key
    <3>1. PICK x \in f.targets : y = x.key
      BY <1>1
    <3>2. PICK p \in distinct : x = TargetAt(D, p)
      BY <2>1
    <3> QED  BY <3>1, <3>2
  <2> QED  BY <2>2, <2>3
<1> QED  BY <1>13, <1>14, <1>15 DEF D

(* What is read keeps its id.                                              *)
LEMMA ReadKeepsId ==
    ASSUME NEW x, NEW options
    PROVE  ReadCycle(x, TRUE, options).id = x.id /\ ReadObjective(x, TRUE, options).id = x.id
BY DEF ReadCycle, ReadObjective

(* The topology is then the whole of what is held.                         *)
LEMMA NothingSkippedIsWhole ==
    ASSUME NEW cycles \in Seq(HeldCycle), NEW options, options.page \in Nat, options.krs \in Nat,
           options.krs >= ObjectiveDiscoveryLimit, NEW t, t = ReadMyOkrTopology(cycles, options),
           NothingSkipped(t)
    PROVE  Whole(cycles, t.cycles) /\ Expanded(t.cycles) = DOMAIN t.cycles
<1> DEFINE D == t.cycles
<1>1. /\ ~(Len(D) > CycleExpandLimit) /\ ~t.more
      /\ \A i \in DOMAIN D : i <= CycleExpandLimit => D[i].id # ""
      /\ FirstPlaces(ObjectivePlaces(D), ObjectiveDiscoveryLimit) = ObjectivePlaces(D)
      /\ \A p \in ObjectivePlaces(D) : TargetAt(D, p).key[2] # ""
      /\ \A i \in Expanded(D) : ~D[i].more
      /\ \A p \in ObjectivePlaces(D) : ~ObjectiveAt(D, p).more
  BY DEF NothingSkipped
<1>2. IsList(cycles) /\ Len(cycles) \in Nat /\ DOMAIN cycles = 1 .. Len(cycles)
      /\ \A i \in DOMAIN cycles : cycles[i] \in HeldCycle
  <2>1. IsList(cycles)
    BY ListOf
  <2>2. Len(cycles) \in Nat /\ DOMAIN cycles = 1 .. Len(cycles)
    BY <2>1, ListFacts
  <2>3. \A i \in 1 .. Len(cycles) : cycles[i] \in HeldCycle
    BY ElementOfSeq
  <2> QED  BY <2>1, <2>2, <2>3
<1>3. /\ DOMAIN D = DOMAIN cycles
      /\ \A i \in DOMAIN cycles : D[i] = ReadCycle(cycles[i], TRUE, options) /\ i <= CycleExpandLimit
  BY <1>1, <1>2, WholePage
<1> HIDE DEF D
<1>4. Expanded(D) = DOMAIN D /\ \A i \in DOMAIN cycles : D[i].id # ""
  BY <1>1, <1>3 DEF Expanded
<1>5. ASSUME NEW i \in DOMAIN cycles
      PROVE  /\ cycles[i].hollow => D[i].objectives = <<>>
             /\ ~cycles[i].hollow =>
                   /\ DOMAIN D[i].objectives = DOMAIN cycles[i].objectives
                   /\ \A j \in DOMAIN cycles[i].objectives :
                         D[i].objectives[j] = ReadObjective(cycles[i].objectives[j], j <= options.krs, options.page)
  <2>1. cycles[i].id # ""
    <3>1. D[i].id = cycles[i].id
      <4>1. ReadCycle(cycles[i], TRUE, options).id = cycles[i].id
        BY ReadKeepsId
      <4> QED  BY <1>3, <4>1
    <3> QED  BY <1>4, <3>1
  <2>2. ~D[i].more
    BY <1>1, <1>3, <1>4
  <2>3. cycles[i] \in HeldCycle /\ D[i] = ReadCycle(cycles[i], TRUE, options)
    BY <1>2, <1>3
  <2> DEFINE c == cycles[i]
             r == D[i]
  <2>4. c \in HeldCycle /\ c.id # "" /\ r = ReadCycle(c, TRUE, options) /\ ~r.more
    BY <2>1, <2>2, <2>3
  <2> HIDE DEF c, r
  <2>5. /\ c.hollow => r.objectives = <<>>
        /\ ~c.hollow => /\ DOMAIN r.objectives = DOMAIN c.objectives
                        /\ \A j \in DOMAIN c.objectives :
                              r.objectives[j] = ReadObjective(c.objectives[j], j <= options.krs, options.page)
    BY <2>4, WholeCycle
  <2> QED  BY <2>5 DEF c, r
<1>6. ASSUME NEW i \in DOMAIN cycles
      PROVE  /\ IsList(cycles[i].objectives)
             /\ \A j \in DOMAIN cycles[i].objectives : cycles[i].objectives[j] \in HeldObjective
  <2>1. cycles[i].objectives \in Seq(HeldObjective)
    BY <1>2 DEF HeldCycle
  <2>2. IsList(cycles[i].objectives)
    BY <2>1, ListOf
  <2>3. \A j \in 1 .. Len(cycles[i].objectives) : cycles[i].objectives[j] \in HeldObjective
    BY <2>1, ElementOfSeq
  <2>4. DOMAIN cycles[i].objectives = 1 .. Len(cycles[i].objectives)
    BY <2>2, ListFacts
  <2> QED  BY <2>2, <2>3, <2>4
<1>7. IsFiniteSet(ObjectivePlaces(D))
  <2>1. IsFiniteSet(DOMAIN D)
    BY <1>2, <1>3, PlacesCounted
  <2>2. ASSUME NEW i \in DOMAIN D PROVE IsFiniteSet(DOMAIN D[i].objectives)
    <3>1. CASE cycles[i].hollow
      <4>1. DOMAIN D[i].objectives = {}
        BY <1>3, <1>5, <3>1
      <4> QED  BY <4>1, FS_EmptySet
    <3>2. CASE ~cycles[i].hollow
      <4>1. Len(cycles[i].objectives) \in Nat /\ DOMAIN D[i].objectives = 1 .. Len(cycles[i].objectives)
        BY <1>3, <1>5, <1>6, <3>2, ListFacts
      <4> QED  BY <4>1, PlacesCounted
    <3> QED  BY <3>1, <3>2
  <2> QED  BY <2>1, <2>2, ObjectivePlacesFinite
<1>8. ASSUME NEW i \in DOMAIN cycles, ~cycles[i].hollow, NEW j \in DOMAIN cycles[i].objectives
      PROVE  LET o == cycles[i].objectives[j]
                 r == D[i].objectives[j]
             IN  r.id = o.id /\ (o.hollow => r.krs = <<>>) /\ (~o.hollow => r.krs = o.krs)
  <2> DEFINE o == cycles[i].objectives[j]
             r == D[i].objectives[j]
             len == Len(cycles[i].objectives)
  <2>1. len \in Nat /\ DOMAIN D[i].objectives = 1 .. len /\ j \in 1 .. len
    BY <1>5, <1>6, <1>8, ListFacts
  <2>2. <<i, j, 0>> \in ObjectivePlaces(D) /\ i \in Expanded(D)
    <3>1. i \in Expanded(D)
      BY <1>3, <1>4
    <3>2. <<i, j, 0>> \in {<<i, m, 0>> : m \in DOMAIN D[i].objectives}
      BY <2>1
    <3> QED  BY <3>1, <3>2 DEF ObjectivePlaces
  <2>3. ObjectiveDiscoveryLimit \in Nat
    BY OkrLimits
  <2> HIDE DEF len
  <2>4. j <= ObjectiveDiscoveryLimit
    BY <1>1, <1>7, <2>1, <2>2, <2>3, DiscoveredEarly
  <2>5. (j <= options.krs) = TRUE
    <3>1. j \in Nat
      BY <2>1
    <3> QED  BY <2>3, <2>4, <3>1
  <2>6. r = ReadObjective(o, TRUE, options.page)
    BY <1>5, <1>8, <2>5
  <2>7. r.id # "" /\ ~r.more
    <3>1. TargetAt(D, <<i, j, 0>>).key[2] = r.id /\ ObjectiveAt(D, <<i, j, 0>>) = r
      BY DEF TargetAt, ObjectiveAt
    <3> QED  BY <1>1, <2>2, <3>1
  <2>8. r.id = o.id
    <3>1. ReadObjective(o, TRUE, options.page).id = o.id
      BY ReadKeepsId
    <3> QED  BY <2>6, <3>1
  <2>9. o \in HeldObjective
    BY <1>6
  <2> HIDE DEF o, r
  <2>10. r.id = o.id /\ (o.hollow => r.krs = <<>>) /\ (~o.hollow => r.krs = o.krs)
    BY <2>6, <2>7, <2>8, <2>9, WholeObjective
  <2> QED  BY <2>10 DEF o, r
<1>9. Whole(cycles, D)
  BY <1>3, <1>5, <1>8 DEF Whole, WholeObjectives
<1> QED  BY <1>4, <1>9 DEF D

(* What a text that is not cut is made of is what it says.                 *)
LEMMA UncutSaysAll ==
    ASSUME NEW parts, ~FinalizeSummary(parts).cut, NEW i \in DOMAIN parts
    PROVE  parts[i].says \in FinalizeSummary(parts).said
<1>1. Chars(parts) <= SummaryCharLimit
  BY DEF FinalizeSummary
<1> QED  BY <1>1 DEF FinalizeSummary

(* An element that is joined to a list is at its end.                      *)
LEMMA Joined ==
    ASSUME NEW s, IsList(s), NEW x, NEW p, p = s \o <<x>>
    PROVE  /\ IsList(p) /\ Len(p) = Len(s) + 1 /\ DOMAIN p = 1 .. Len(s) + 1 /\ p[Len(s) + 1] = x
           /\ \A i \in 1 .. Len(s) : p[i] = s[i]
<1>1. IsList(p) /\ Len(p) = Len(s) + 1 /\ p[Len(s) + 1] = x /\ \A i \in 1 .. Len(s) : p[i] = s[i]
  BY OneMore, ListConcat
<1>2. DOMAIN p = 1 .. Len(s) + 1
  BY <1>1, ListFacts
<1> QED  BY <1>1, <1>2

(* Two parts and a third.                                                  *)
LEMMA PartsJoined ==
    ASSUME NEW a, NEW b, NEW c
    PROVE  LET two == <<a>> \o <<b>>
               three == two \o <<c>>
           IN  /\ 2 \in DOMAIN two /\ two[2] = b
               /\ 2 \in DOMAIN three /\ three[2] = b
<1> DEFINE one == <<a>>
           two == one \o <<b>>
           three == two \o <<c>>
<1>1. IsList(one) /\ Len(one) = 1
  BY OneMore
<1>a. two = one \o <<b>> /\ three = two \o <<c>>
  OBVIOUS
<1> HIDE DEF one, two, three
<1>2. IsList(two) /\ Len(two) = 2 /\ DOMAIN two = 1 .. 2 /\ two[2] = b
  <2>1. IsList(two) /\ Len(two) = Len(one) + 1 /\ DOMAIN two = 1 .. Len(one) + 1 /\ two[Len(one) + 1] = b
    BY <1>1, <1>a, Joined
  <2> QED  BY <1>1, <2>1
<1>3. DOMAIN three = 1 .. 3 /\ three[2] = two[2]
  <2>1. DOMAIN three = 1 .. Len(two) + 1 /\ \A i \in 1 .. Len(two) : three[i] = two[i]
    BY <1>2, <1>a, Joined
  <2> QED  BY <1>2, <2>1
<1>4. 2 \in 1 .. 2 /\ 2 \in 1 .. 3
  OBVIOUS
<1>5. /\ 2 \in DOMAIN two /\ two[2] = b
      /\ 2 \in DOMAIN three /\ three[2] = b
  BY <1>2, <1>3, <1>4
<1> QED  BY <1>5 DEF three, two, one

(* A third part after two.                                                 *)
LEMMA ThirdJoined ==
    ASSUME NEW a, NEW b, NEW c
    PROVE  LET three == <<a, b>> \o <<c>> IN 3 \in DOMAIN three /\ three[3] = c
<1> DEFINE two == <<a, b>>
           three == two \o <<c>>
<1>1. two \in Seq({a, b}) /\ Len(two) = 2
  OBVIOUS
<1>2. IsList(two)
  BY <1>1, ListOf
<1>a. three = two \o <<c>>
  OBVIOUS
<1> HIDE DEF two, three
<1>3. DOMAIN three = 1 .. 3 /\ three[3] = c
  <2>1. DOMAIN three = 1 .. Len(two) + 1 /\ three[Len(two) + 1] = c
    BY <1>2, <1>a, Joined
  <2> QED  BY <1>1, <2>1
<1>4. 3 \in DOMAIN three
  BY <1>3
<1> QED  BY <1>3, <1>4 DEF three, two

(* A note is written whenever something was skipped.                       *)
LEMMA UnqualifiedSkipsNothing ==
    ASSUME NEW t, NEW words, NEW s, s = ReadMyOkrProgressSummaryFromTopology(t, words), Unqualified(s)
    PROVE  SkipSuffix(t) = {}
<1> SUFFICES ASSUME SkipSuffix(t) # {} PROVE FALSE
  OBVIOUS
<1> DEFINE targets == DiscoverProgressTargets(t).targets
           a == Part("read", words.counts)
           b == Part("skipped", words.note)
           c == Part("examples", words.examples)
<1>1. \/ s.said = NothingFound.said
      \/ s.said = FinalizeSummary(<<a>> \o <<b>>).said /\ s.cut = FinalizeSummary(<<a>> \o <<b>>).cut
      \/ /\ s.said = FinalizeSummary(<<a>> \o <<b>> \o <<c>>).said
         /\ s.cut = FinalizeSummary(<<a>> \o <<b>> \o <<c>>).cut
  BY DEF ReadMyOkrProgressSummaryFromTopology
<1>2. b.says = "skipped"
  BY DEF Part
<1> HIDE DEF a, b, c
<1> DEFINE two == <<a>> \o <<b>>
           three == <<a>> \o <<b>> \o <<c>>
<1>3. /\ 2 \in DOMAIN two /\ two[2] = b
      /\ 2 \in DOMAIN three /\ three[2] = b
  BY PartsJoined
<1>4. ~s.cut /\ "skipped" \notin s.said /\ "nothing" \notin s.said
  BY DEF Unqualified
<1>5. CASE s.said = NothingFound.said
  BY <1>4, <1>5 DEF NothingFound
<1>6. ASSUME NEW parts, 2 \in DOMAIN parts, parts[2] = b,
             s.said = FinalizeSummary(parts).said, s.cut = FinalizeSummary(parts).cut
      PROVE  FALSE
  <2>1. parts[2].says \in FinalizeSummary(parts).said
    BY <1>4, <1>6, UncutSaysAll
  <2> QED  BY <1>2, <1>4, <1>6, <2>1
<1>7. CASE s.said = FinalizeSummary(two).said /\ s.cut = FinalizeSummary(two).cut
  <2> HIDE DEF two, three
  <2> QED  BY <1>3, <1>6, <1>7
<1>8. CASE s.said = FinalizeSummary(three).said /\ s.cut = FinalizeSummary(three).cut
  <2> HIDE DEF two, three
  <2> QED  BY <1>3, <1>6, <1>8
<1> QED  BY <1>1, <1>5, <1>7, <1>8

(* A progress summary without ellipsis and note covers every target held.  *)
LEMMA ProgressCovers ==
    ASSUME NEW cycles \in Seq(HeldCycle), NEW summary \in BOOLEAN, NEW words, NEW s, Unqualified(s),
           s = ReadMyOkrProgressSummaryFromTopology(
                  ReadMyOkrTopology(cycles, OptionsForRequestedTools(summary, TRUE)), words)
    PROVE  s.read = TargetsHeld(cycles)
<1> DEFINE options == OptionsForRequestedTools(summary, TRUE)
           t == ReadMyOkrTopology(cycles, options)
           D == t.cycles
<1>1. options.page \in Nat /\ options.krs \in Nat /\ options.krs >= ObjectiveDiscoveryLimit
  BY ProgressOptions
<1>2. s = ReadMyOkrProgressSummaryFromTopology(t, words)
  OBVIOUS
<1>3. t = ReadMyOkrTopology(cycles, options)
  OBVIOUS
<1> HIDE DEF options, t
<1>4. NothingSkipped(t) /\ s.read = {TargetAt(D, p).key : p \in DistinctTargets(D, AllPlaces(D))}
  BY <1>2, UnqualifiedSkipsNothing, EmptyNote
<1>5. Whole(cycles, D) /\ Expanded(D) = DOMAIN D
  BY <1>1, <1>3, <1>4, NothingSkippedIsWhole
<1>6. /\ IsList(cycles) /\ \A i \in DOMAIN cycles : cycles[i] \in HeldCycle
  <2>1. IsList(cycles)
    BY ListOf
  <2>2. DOMAIN cycles = 1 .. Len(cycles)
    BY <2>1, ListFacts
  <2>3. \A i \in 1 .. Len(cycles) : cycles[i] \in HeldCycle
    BY ElementOfSeq
  <2> QED  BY <2>1, <2>2, <2>3
<1>7. ASSUME NEW i \in DOMAIN cycles
      PROVE  /\ DOMAIN cycles[i].objectives \subseteq Nat
             /\ \A j \in DOMAIN cycles[i].objectives : DOMAIN cycles[i].objectives[j].krs \subseteq Nat \ {0}
  <2>1. cycles[i].objectives \in Seq(HeldObjective)
    BY <1>6 DEF HeldCycle
  <2>2. DOMAIN cycles[i].objectives = 1 .. Len(cycles[i].objectives) /\ Len(cycles[i].objectives) \in Nat
    BY <2>1, LenProperties
  <2>3. ASSUME NEW j \in DOMAIN cycles[i].objectives PROVE DOMAIN cycles[i].objectives[j].krs \subseteq Nat \ {0}
    <3>1. cycles[i].objectives[j] \in HeldObjective
      BY <2>1, <2>2, ElementOfSeq
    <3>2. cycles[i].objectives[j].krs \in Seq(HeldKeyResult)
      BY <3>1 DEF HeldObjective
    <3> DEFINE krs == cycles[i].objectives[j].krs
    <3>3. DOMAIN krs = 1 .. Len(krs) /\ Len(krs) \in Nat
      BY <3>2, LenProperties
    <3> HIDE DEF krs
    <3>4. DOMAIN krs \subseteq Nat \ {0}
      BY <3>3
    <3> QED  BY <3>4 DEF krs
  <2>4. DOMAIN cycles[i].objectives \subseteq Nat
    BY <2>2
  <2> QED  BY <2>3, <2>4
<1> HIDE DEF D
<1>8. AllPlaces(D) \in SUBSET (Nat \X Nat \X Nat)
  <2>1. ASSUME NEW i \in DOMAIN D, NEW j \in DOMAIN D[i].objectives
        PROVE  i \in Nat /\ j \in Nat /\ DOMAIN D[i].objectives[j].krs \subseteq Nat
    <3>1. i \in DOMAIN cycles /\ i \in Nat
      <4>1. DOMAIN cycles = 1 .. Len(cycles) /\ Len(cycles) \in Nat
        BY LenProperties
      <4> QED  BY <1>5, <4>1 DEF Whole
    <3>2. ~cycles[i].hollow /\ WholeObjectives(cycles[i].objectives, D[i].objectives)
      BY <1>5, <2>1, <3>1 DEF Whole
    <3>3. j \in DOMAIN cycles[i].objectives
      BY <2>1, <3>2 DEF WholeObjectives
    <3>4. D[i].objectives[j].krs = <<>> \/ D[i].objectives[j].krs = cycles[i].objectives[j].krs
      BY <3>2, <3>3 DEF WholeObjectives
    <3> QED  BY <1>7, <3>1, <3>3, <3>4
  <2>2. ASSUME NEW p \in ObjectivePlaces(D)
        PROVE  /\ p \in Nat \X Nat \X Nat
               /\ \A k \in DOMAIN ObjectiveAt(D, p).krs : <<p[1], p[2], k>> \in Nat \X Nat \X Nat
    <3>1. PICK i \in DOMAIN D : \E j \in DOMAIN D[i].objectives : p = <<i, j, 0>>
      BY <1>5 DEF ObjectivePlaces
    <3>2. PICK j \in DOMAIN D[i].objectives : p = <<i, j, 0>>
      BY <3>1
    <3>3. i \in Nat /\ j \in Nat /\ DOMAIN D[i].objectives[j].krs \subseteq Nat
      BY <2>1
    <3> QED  BY <3>2, <3>3 DEF ObjectiveAt
  <2> QED  BY <2>2 DEF AllPlaces, KeyResultPlaces
<1>9. ASSUME NEW x \in s.read PROVE x \in TargetsHeld(cycles)
  <2>1. PICK p \in DistinctTargets(D, AllPlaces(D)) : x = TargetAt(D, p).key
    BY <1>4
  <2>2. p \in AllPlaces(D)
    BY DEF DistinctTargets
  <2> QED  BY <1>5, <2>1, <2>2, PlacesAreHeld
<1>10. ASSUME NEW x \in TargetsHeld(cycles) PROVE x \in s.read
  <2>1. \A i \in DOMAIN cycles : ~cycles[i].hollow =>
           \A j \in DOMAIN cycles[i].objectives : 0 \notin DOMAIN cycles[i].objectives[j].krs
    BY <1>7
  <2>2. PICK p \in AllPlaces(D) : TargetAt(D, p).key = x
    BY <1>5, <2>1, HeldHasPlace
  <2>3. PICK q \in DistinctTargets(D, AllPlaces(D)) : TargetAt(D, q).key = TargetAt(D, p).key
    BY <1>8, DistinctKeys
  <2> QED  BY <1>4, <2>2, <2>3
<1> QED  BY <1>9, <1>10

-----------------------------------------------------------------------------
(* A summary in full and without a note is complete *)

(* A tool is shown by a status; what is shown was read from the data.      *)
ShownIn(l, tool) == \E i \in DOMAIN l.statuses : l.statuses[i] = Ready(tool)
ProgressRead(data, x) ==
    \E summary \in BOOLEAN : x = ReadMyOkrProgressSummaryFromTopology(
        ReadMyOkrTopology(data.cycles, OptionsForRequestedTools(summary, TRUE)), data.wording)
Says(data, l) ==
    /\ ShownIn(l, "OkrProgress") => ProgressRead(data, l.progress)
    /\ ShownIn(l, "TaskSummary") => l.tasks = ReadPages(data.tasks, TaskPageLimit, data.wording)
    /\ ShownIn(l, "MinutesSummary") => l.minutes = ReadPages(data.minutes, MinutesPageLimit, data.wording)

(* Statuses that show none of the three summaries.                         *)
Summaries == {"OkrProgress", "TaskSummary", "MinutesSummary"}
ShowsNone(n) == \A i \in DOMAIN n : n[i].state = "degraded" \/ n[i].tool \notin Summaries

(* What a continued list shows, it showed or the new part shows.           *)
LEMMA ShownBefore ==
    ASSUME NEW l, NEW m, NEW n, IsList(l.statuses), IsList(n), m.statuses = l.statuses \o n,
           NEW tool, ShownIn(m, tool)
    PROVE  ShownIn(l, tool) \/ \E i \in DOMAIN n : n[i] = Ready(tool)
<1> DEFINE s == l.statuses
<1>1. IsList(s) /\ m.statuses = s \o n
  OBVIOUS
<1>2. PICK i \in DOMAIN m.statuses : m.statuses[i] = Ready(tool)
  BY DEF ShownIn
<1> HIDE DEF s
<1>3. /\ \A k \in DOMAIN s : k \in DOMAIN (s \o n) /\ (s \o n)[k] = s[k]
      /\ \A k \in DOMAIN n : Len(s) + k \in DOMAIN (s \o n) /\ (s \o n)[Len(s) + k] = n[k]
      /\ \A k \in DOMAIN (s \o n) : k \in DOMAIN s \/ \E j \in DOMAIN n : k = Len(s) + j
  BY <1>1, Continued
<1>4. CASE i \in DOMAIN s
  <2>1. s[i] = Ready(tool)
    BY <1>1, <1>2, <1>3, <1>4
  <2> QED  BY <1>4, <2>1 DEF ShownIn, s
<1>5. ASSUME NEW j \in DOMAIN n, i = Len(s) + j PROVE n[j] = Ready(tool)
  BY <1>1, <1>2, <1>3, <1>5
<1> QED  BY <1>1, <1>3, <1>4, <1>5

(* A step that shows none of the summaries and changes none of them.       *)
LEMMA SaysKept ==
    ASSUME NEW data, NEW l, Says(data, l), NEW m, NEW n, IsList(l.statuses), IsList(n), ShowsNone(n),
           m.statuses = l.statuses \o n,
           m.progress = l.progress, m.tasks = l.tasks, m.minutes = l.minutes
    PROVE  Says(data, m)
<1>1. ASSUME NEW tool \in Summaries, ShownIn(m, tool) PROVE ShownIn(l, tool)
  <2>1. ASSUME NEW i \in DOMAIN n, n[i] = Ready(tool) PROVE FALSE
    <3>1. Ready(tool).state = "ready" /\ Ready(tool).tool = tool
      BY DEF Ready
    <3> QED  BY <2>1, <3>1 DEF ShowsNone
  <2> QED  BY <1>1, <2>1, ShownBefore
<1>2. "OkrProgress" \in Summaries /\ "TaskSummary" \in Summaries /\ "MinutesSummary" \in Summaries
  BY DEF Summaries
<1> QED  BY <1>1, <1>2 DEF Says

(* A step that leaves statuses and summaries alone.                        *)
LEMMA SaysSame ==
    ASSUME NEW data, NEW l, Says(data, l), NEW m, m.statuses = l.statuses,
           m.progress = l.progress, m.tasks = l.tasks, m.minutes = l.minutes
    PROVE  Says(data, m)
BY DEF Says, ShownIn

(* A read that is closed, or goes on with another step.                    *)
LEMMA SaysClosed ==
    ASSUME NEW data, NEW l, LiveShape(l), Says(data, l), NEW why, NEW c, c = Close(l, why)
    PROVE  Says(data, c)
<1> DEFINE whys == IF why = "" THEN l.degraded ELSE Append(l.degraded, why)
           n == DegradedStatuses(whys)
<1>1. /\ IsList(whys) /\ c.statuses = l.statuses \o n
      /\ \A f \in LiveFields \ {"step", "statuses"} : c[f] = l[f]
  BY CloseFacts
<1>2. c.progress = l.progress /\ c.tasks = l.tasks /\ c.minutes = l.minutes
  BY <1>1 DEF LiveFields
<1> HIDE DEF whys
<1>3. /\ IsList(n) /\ Len(n) = Len(whys)
      /\ \A i \in 1 .. Len(whys) : n[i] = DegradedForTool("", whys[i])
  BY <1>1, DegradedStatusesFacts
<1> HIDE DEF n
<1>4. DOMAIN n = 1 .. Len(whys)
  BY <1>3, ListFacts
<1>5. \A w : DegradedForTool("", w).state = "degraded"
  BY DEF DegradedForTool
<1>6. ShowsNone(n)
  BY <1>3, <1>4, <1>5 DEF ShowsNone
<1>7. IsList(l.statuses)
  BY DEF LiveShape
<1> QED  BY <1>1, <1>2, <1>3, <1>6, <1>7, SaysKept

(* Setting the step of a read shows nothing.                               *)
LEMMA SaysGoesOn ==
    ASSUME NEW data, NEW l, LiveShape(l), Says(data, l), NEW step, NEW m, m = [l EXCEPT !.step = step]
    PROVE  Says(data, m)
<1>1. Same(l, m, {"step"})
  BY SetStep
<1>2. m.statuses = l.statuses /\ m.progress = l.progress /\ m.tasks = l.tasks /\ m.minutes = l.minutes
  BY <1>1 DEF Same, LiveFields
<1> QED  BY <1>2, SaysSame

(* A read without statuses says nothing.                                   *)
LEMMA SaysNothing == ASSUME NEW data, NEW l, l.statuses = <<>> PROVE Says(data, l)
BY DEF Says, ShownIn

(* The gate only refuses.                                                  *)
LEMMA SaysAdmitted ==
    ASSUME NEW data, LiveShape(live), Says(data, live), NEW fresh, live' = AdmitGrant(grant, live, fresh)
    PROVE  Says(data, live')
<1> DEFINE G == Gated(grant, live)
           n == Refusals(grant.scopes, live.tools)
<1>1. /\ LiveShape(G) /\ Same(live, G, {"tools", "statuses", "refs", "degraded", "held"})
      /\ G.statuses = live.statuses \o n
  <2>1. Admitted(grant, live, G)
    BY AdmitFacts
  <2> HIDE DEF G
  <2> QED  BY <2>1 DEF Admitted
<1>2. \/ live' = Close(live, "login_again")
      \/ \E why : live' = Close(G, why)
      \/ \E step : live' = [G EXCEPT !.step = step]
  <2>1. \/ AdmitGrant(grant, live, fresh) = Close(live, "login_again")
        \/ AdmitGrant(grant, live, fresh) = Close(G, "")
        \/ AdmitGrant(grant, live, fresh) = Close(G, "no_refresh")
        \/ AdmitGrant(grant, live, fresh) = [G EXCEPT !.step = "refresh"]
        \/ AdmitGrant(grant, live, fresh) = [G EXCEPT !.step = "identity"]
    BY DEF AdmitGrant, Gated
  <2> HIDE DEF G
  <2> QED  BY <2>1, Zenon
<1>3. IsList(n) /\ ShowsNone(n)
  <2>1. live.tools \in SUBSET ToolNames
    BY DEF LiveShape
  <2>2. /\ IsList(n)
        /\ \A i \in DOMAIN n : n[i] = DegradedForTool(InOrder(Uncovered(grant.scopes, live.tools))[i], "missing_permission")
    BY <2>1, RefusalsShape
  <2>3. \A t, w : DegradedForTool(t, w).state = "degraded"
    BY DEF DegradedForTool
  <2> QED  BY <2>2, <2>3 DEF ShowsNone
<1> HIDE DEF G, n
<1>4. G.progress = live.progress /\ G.tasks = live.tasks /\ G.minutes = live.minutes /\ IsList(live.statuses)
  BY <1>1 DEF Same, LiveFields, LiveShape
<1>5. Says(data, G)
  BY <1>1, <1>3, <1>4, SaysKept
<1>6. CASE live' = Close(live, "login_again")
  BY <1>6, SaysClosed
<1>7. ASSUME NEW why, live' = Close(G, why) PROVE Says(data, live')
  BY <1>1, <1>5, <1>7, SaysClosed
<1>8. ASSUME NEW step, live' = [G EXCEPT !.step = step] PROVE Says(data, live')
  BY <1>1, <1>5, <1>8, SaysGoesOn
<1> QED  BY <1>2, <1>6, <1>7, <1>8

(* The steps before the first call, after the demand.                      *)
LEMMA SaysBeforeReading ==
    ASSUME NEW data, LiveShape(live), Says(data, live),
           ResolveGrant \/ LoadGrant \/ RefreshGrantBeforeLiveRead \/ ReloadGrant \/ ResolveLarkOpenIdForGrant
    PROVE  Says(data, live')
<1>1. \/ \E why : live' = Close(live, why)
      \/ \E step : live' = [live EXCEPT !.step = step]
      \/ \E fresh : live' = AdmitGrant(grant, live, fresh)
      \/ \E id : live' = [[live EXCEPT !.step = "read"] EXCEPT !.openId = id]
  <2>1. CASE ResolveGrant
    BY <2>1 DEF ResolveGrant
  <2>2. CASE LoadGrant
    BY <2>2 DEF LoadGrant
  <2>3. CASE RefreshGrantBeforeLiveRead
    BY <2>3 DEF RefreshGrantBeforeLiveRead
  <2>4. CASE ReloadGrant
    BY <2>4 DEF ReloadGrant
  <2>5. CASE ResolveLarkOpenIdForGrant
    BY <2>5 DEF ResolveLarkOpenIdForGrant
  <2> QED  BY <2>1, <2>2, <2>3, <2>4, <2>5
<1>2. ASSUME NEW id, live' = [[live EXCEPT !.step = "read"] EXCEPT !.openId = id] PROVE Says(data, live')
  <2>1. DOMAIN live = LiveFields
    BY DEF LiveShape
  <2>2. /\ live'.statuses = live.statuses /\ live'.progress = live.progress
        /\ live'.tasks = live.tasks /\ live'.minutes = live.minutes
    BY <1>2, <2>1 DEF LiveFields
  <2> QED  BY <2>2, SaysSame
<1>3. ASSUME NEW why, live' = Close(live, why) PROVE Says(data, live')
  BY <1>3, SaysClosed
<1>4. ASSUME NEW step, live' = [live EXCEPT !.step = step] PROVE Says(data, live')
  BY <1>4, SaysGoesOn
<1>5. ASSUME NEW fresh, live' = AdmitGrant(grant, live, fresh) PROVE Says(data, live')
  BY <1>5, SaysAdmitted
<1> QED  BY <1>1, <1>2, <1>3, <1>4, <1>5

(* A tool that makes one operation: its summary comes with its status.     *)
LEMMA SaysTool ==
    ASSUME NEW data, LiveShape(live), Says(data, live), NEW tool \in ToolNames, tool # "OkrProgress",
           NEW source, NEW endpoints, IsList(endpoints), NEW needsId, NEW summarised, LiveShape(summarised),
           Same(live, summarised, {"tasks", "minutes"}),
           tool # "TaskSummary" => summarised.tasks = live.tasks,
           tool = "TaskSummary" => summarised.tasks = ReadPages(data.tasks, TaskPageLimit, data.wording),
           tool # "MinutesSummary" => summarised.minutes = live.minutes,
           tool = "MinutesSummary" => summarised.minutes = ReadPages(data.minutes, MinutesPageLimit, data.wording),
           AppendToolSummary(tool, source, endpoints, needsId, summarised)
    PROVE  Says(data, live')
<1>1. /\ Same(live, live', {"tools", "statuses", "tasks", "minutes"})
      /\ \E st : st.tool = tool /\ live'.statuses = live.statuses \o <<st>>
      /\ \/ \E why : live' = ToolsDone({tool}, <<DegradedForTool(tool, why)>>)
         \/ live' = [summarised EXCEPT !.tools = @ \ {tool}, !.statuses = Append(@, Ready(tool))]
  BY ZenonT(60), ToolReadEffect
<1>2. IsList(live.statuses) /\ live'.progress = live.progress
  BY <1>1 DEF LiveShape, Same, LiveFields
<1>3. ASSUME NEW why, live' = ToolsDone({tool}, <<DegradedForTool(tool, why)>>) PROVE Says(data, live')
  <2> DEFINE n == <<DegradedForTool(tool, why)>>
             done == {tool}
  <2>1. IsList(n) /\ DOMAIN n = 1 .. 1 /\ n[1] = DegradedForTool(tool, why)
    BY OneMore
  <2>a. live' = ToolsDone(done, n)
    BY <1>3
  <2> HIDE DEF n, done
  <2>2. Same(live, live', {"tools", "statuses"}) /\ live'.statuses = live.statuses \o n
    BY <2>1, <2>a, ToolsDoneFacts
  <2>3. live'.tasks = live.tasks /\ live'.minutes = live.minutes
    BY <2>2 DEF Same, LiveFields
  <2>4. \A i \in 1 .. 1 : i = 1
    OBVIOUS
  <2>5. DegradedForTool(tool, why).state = "degraded"
    BY DEF DegradedForTool
  <2>6. ShowsNone(n)
    BY <2>1, <2>4, <2>5 DEF ShowsNone
  <2> QED  BY <1>2, <2>1, <2>2, <2>3, <2>6, SaysKept
<1>4. CASE live' = [summarised EXCEPT !.tools = @ \ {tool}, !.statuses = Append(@, Ready(tool))]
  <2>1. PICK st : st.tool = tool /\ live'.statuses = live.statuses \o <<st>>
    BY <1>1
  <2>2. DOMAIN summarised = LiveFields
    BY DEF LiveShape
  <2>3. live'.tasks = summarised.tasks /\ live'.minutes = summarised.minutes
    BY <1>4, <2>2 DEF LiveFields
  <2> DEFINE n == <<st>>
  <2>4. IsList(n) /\ DOMAIN n = 1 .. 1 /\ n[1] = st
    BY OneMore
  <2>5. live'.statuses = live.statuses \o n
    BY <2>1
  <2> HIDE DEF n
  <2>6. \A i \in DOMAIN n : n[i].tool = tool
    <3>1. \A i \in 1 .. 1 : i = 1
      OBVIOUS
    <3> QED  BY <2>1, <2>4, <3>1
  <2>7. ASSUME NEW other, other # tool, ShownIn(live', other) PROVE ShownIn(live, other)
    <3>1. Ready(other).tool = other
      BY DEF Ready
    <3>2. ASSUME NEW i \in DOMAIN n, n[i] = Ready(other) PROVE FALSE
      BY <2>6, <2>7, <3>1, <3>2
    <3> QED  BY <1>2, <2>4, <2>5, <2>7, <3>2, ShownBefore
  <2>8. ShownIn(live', "OkrProgress") => ProgressRead(data, live'.progress)
    BY <1>2, <2>7 DEF Says
  <2>9. ShownIn(live', "TaskSummary") => live'.tasks = ReadPages(data.tasks, TaskPageLimit, data.wording)
    BY <2>3, <2>7 DEF Says
  <2>10. ShownIn(live', "MinutesSummary") => live'.minutes = ReadPages(data.minutes, MinutesPageLimit, data.wording)
    BY <2>3, <2>7 DEF Says
  <2> QED  BY <2>8, <2>9, <2>10 DEF Says
<1> QED  BY <1>1, <1>3, <1>4

(* The tools that make one operation of a client.                          *)
LEMMA SaysOneTool ==
    ASSUME LiveShape(live), Says(feishu, live),
           ReadMyTaskSummary \/ ReadMyMinutesSummary \/ ReadMyCalendarFreeBusy \/ ReadMyCalendarEvents
    PROVE  Says(feishu, live')
<1>1. DOMAIN live = LiveFields
  BY DEF LiveShape
<1>2. /\ "TaskSummary" \in ToolNames /\ "MinutesSummary" \in ToolNames
      /\ "CalendarFreeBusy" \in ToolNames /\ "CalendarEvents" \in ToolNames
  BY DEF ToolNames
<1>3. CASE ReadMyTaskSummary
  <2> DEFINE m == [live EXCEPT !.tasks = ReadPages(feishu.tasks, TaskPageLimit, feishu.wording)]
  <2>1. LiveShape(m) /\ Same(live, m, {"tasks", "minutes"})
    BY SummarisedShape
  <2>2. AppendToolSummary("TaskSummary", "task", TaskListEndpoints, FALSE, m)
    BY <1>3 DEF ReadMyTaskSummary
  <2>3. m.tasks = ReadPages(feishu.tasks, TaskPageLimit, feishu.wording) /\ m.minutes = live.minutes
    BY <1>1 DEF LiveFields
  <2> HIDE DEF m
  <2> QED  BY <1>2, <2>1, <2>2, <2>3, SaysTool, EndpointLists
<1>4. CASE ReadMyMinutesSummary
  <2> DEFINE m == [live EXCEPT !.minutes = ReadPages(feishu.minutes, MinutesPageLimit, feishu.wording)]
  <2>1. LiveShape(m) /\ Same(live, m, {"tasks", "minutes"})
    BY SummarisedShape
  <2>2. AppendToolSummary("MinutesSummary", "minutes", MinuteSearchEndpoints, TRUE, m)
    BY <1>4 DEF ReadMyMinutesSummary
  <2>3. m.minutes = ReadPages(feishu.minutes, MinutesPageLimit, feishu.wording) /\ m.tasks = live.tasks
    BY <1>1 DEF LiveFields
  <2> HIDE DEF m
  <2> QED  BY <1>2, <2>1, <2>2, <2>3, SaysTool, EndpointLists
<1>5. CASE ReadMyCalendarFreeBusy
  <2>1. AppendToolSummary("CalendarFreeBusy", "calendar", CalendarFreeBusyEndpoints, TRUE, live)
    BY <1>5 DEF ReadMyCalendarFreeBusy
  <2>2. Same(live, live, {"tasks", "minutes"})
    BY DEF Same
  <2> QED  BY <1>2, <2>1, <2>2, SaysTool, EndpointLists
<1>6. CASE ReadMyCalendarEvents
  <2>1. AppendToolSummary("CalendarEvents", "calendar", CalendarEventsEndpoints, FALSE, live)
    BY <1>6 DEF ReadMyCalendarEvents
  <2>2. Same(live, live, {"tasks", "minutes"})
    BY DEF Same
  <2> QED  BY <1>2, <2>1, <2>2, SaysTool, EndpointLists
<1> QED  BY <1>3, <1>4, <1>5, <1>6

(* References have statuses of no tool.                                    *)
LEMMA SaysRefs ==
    ASSUME NEW data, LiveShape(live), Says(data, live), NEW source \in Sources, NEW left, IsList(left),
           NEW n, IsList(n), \A i \in DOMAIN n : n[i].tool = "", live' = RefsDone(source, left, n)
    PROVE  Says(data, live')
<1>1. RefsTaken(source, left, n, live')
  BY RefsDoneFacts
<1>2. /\ live'.statuses = live.statuses \o n /\ IsList(live.statuses)
      /\ live'.progress = live.progress /\ live'.tasks = live.tasks /\ live'.minutes = live.minutes
  BY <1>1 DEF RefsTaken, Same, LiveFields, LiveShape
<1>3. ShowsNone(n)
  <2>1. "" \notin Summaries
    BY DEF Summaries
  <2> QED  BY <2>1 DEF ShowsNone
<1> QED  BY <1>2, <1>3, SaysKept

(* One reference, or the batch of the OKR references.                      *)
LEMMA SaysEvidence ==
    ASSUME NEW data, LiveShape(live), Says(data, live),
           AppendOkrEvidence \/ \E source \in Sources : AppendEvidence(source)
    PROVE  Says(data, live')
<1>1. Ready("").tool = "" /\ \A why : DegradedForTool("", why).tool = ""
  BY DEF Ready, DegradedForTool
<1>a. \A i \in 1 .. 1 : i = 1
  OBVIOUS
<1>2. ASSUME NEW source \in Sources, NEW left, IsList(left), NEW st, st.tool = "",
             live' = RefsDone(source, left, <<st>>)
      PROVE  Says(data, live')
  <2> DEFINE n == <<st>>
  <2>1. IsList(n) /\ DOMAIN n = 1 .. 1 /\ n[1] = st /\ live' = RefsDone(source, left, n)
    BY <1>2, OneMore
  <2> HIDE DEF n
  <2>2. \A i \in DOMAIN n : n[i].tool = ""
    BY <1>2, <1>a, <2>1
  <2> QED  BY <1>2, <2>1, <2>2, SaysRefs
<1>3. ASSUME NEW source \in Sources, AppendEvidence(source) PROVE Says(data, live')
  <2> DEFINE left == Tail(live.refs[source])
  <2>1. /\ live.refs[source] # <<>>
        /\ \E st : /\ st = Ready("") \/ \E why : st = DegradedForTool("", why)
                   /\ live' = RefsDone(source, left, <<st>>)
    BY <1>3, EvidenceEffect, EndpointLists
  <2>2. PICK st : st.tool = "" /\ live' = RefsDone(source, left, <<st>>)
    BY <1>1, <2>1
  <2>3. IsList(left)
    <3>1. IsList(live.refs[source])
      BY DEF LiveShape
    <3> QED  BY <2>1, <3>1, ListFacts
  <2> HIDE DEF left
  <2> QED  BY <1>2, <2>2, <2>3
<1>4. CASE AppendOkrEvidence
  <2> DEFINE refs == live.refs["okr"]
             n == [i \in DOMAIN refs |-> Ready("")]
  <2>1. "okr" \in Sources
    BY DEF Sources
  <2>2. \/ live' = RefsDone("okr", <<>>, n)
        \/ \E why : live' = RefsDone("okr", <<>>, <<DegradedForTool("", why)>>)
    BY <1>4, OkrEvidenceEffect
  <2>3. IsList(n) /\ \A i \in DOMAIN n : n[i].tool = ""
    <3>1. Len(refs) \in Nat /\ DOMAIN refs = 1 .. Len(refs)
      <4>1. IsList(refs)
        BY <2>1 DEF LiveShape
      <4> HIDE DEF refs
      <4> QED  BY <4>1, ListFacts
    <3>2. DOMAIN n = 1 .. Len(refs) /\ n = [i \in 1 .. Len(refs) |-> n[i]]
      BY <3>1
    <3>3. \A i \in DOMAIN n : n[i].tool = ""
      BY <1>1
    <3> HIDE DEF n, refs
    <3> QED  BY <3>1, <3>2, <3>3, ListOnInterval
  <2> HIDE DEF n
  <2>4. CASE live' = RefsDone("okr", <<>>, n)
    BY <2>1, <2>3, <2>4, NoList, SaysRefs
  <2>5. ASSUME NEW why, live' = RefsDone("okr", <<>>, <<DegradedForTool("", why)>>) PROVE Says(data, live')
    BY <1>1, <1>2, <2>1, <2>5, NoList
  <2> QED  BY <2>2, <2>4, <2>5
<1> QED  BY <1>3, <1>4

(* The progress of a read is what it was, or what the topology gives.      *)
LEMMA ProgressStays ==
    ASSUME LiveShape(live), AppendOkrSummaries
    PROVE  \/ live'.progress = live.progress
           \/ live'.progress = ReadMyOkrProgressSummaryFromTopology(
                 ReadMyOkrTopology(feishu.cycles, OptionsForRequestedTools("OkrSummary" \in live.tools, TRUE)),
                 feishu.wording)
<1> DEFINE summary == "OkrSummary" \in live.tools
           progress == "OkrProgress" \in live.tools
           topology == ReadMyOkrTopology(feishu.cycles, OptionsForRequestedTools(summary, progress))
           P == ReadMyOkrProgressSummaryFromTopology(
                   ReadMyOkrTopology(feishu.cycles, OptionsForRequestedTools(summary, TRUE)), feishu.wording)
           Q == ReadMyOkrProgressSummaryFromTopology(topology, feishu.wording)
           O == BuildMyOkrSummaryFromTopology(topology)
           Shows(answer) == [i \in DOMAIN OkrToolsAsked |->
                                  IF OkrToolsAsked[i] = "OkrProgress" /\ answer # "2xx"
                                  THEN DegradedForTool("OkrProgress", ReadErrorReason("okr", answer))
                                  ELSE Ready(OkrToolsAsked[i])]
<1>1. \A new : DOMAIN ToolsDone(OkrTools, new) = LiveFields /\ ToolsDone(OkrTools, new).progress = live.progress
  BY DEF ToolsDone, LiveShape, LiveFields
<1>2. progress => Q = P
  <2>1. progress => progress = TRUE
    OBVIOUS
  <2> QED  BY <2>1
<1>3. \/ \E new : live' = ToolsDone(OkrTools, new)
      \/ \E answer : live' = [ToolsDone(OkrTools, Shows(answer))
                EXCEPT !.okr = IF summary THEN O ELSE @,
                       !.progress = IF progress /\ answer = "2xx" THEN Q ELSE @]
  BY Zenon DEF AppendOkrSummaries
<1> HIDE DEF Shows, P, Q, O, summary, progress
<1>4. ASSUME NEW answer, live' = [ToolsDone(OkrTools, Shows(answer))
                EXCEPT !.okr = IF summary THEN O ELSE @,
                       !.progress = IF progress /\ answer = "2xx" THEN Q ELSE @]
      PROVE  live'.progress = live.progress \/ live'.progress = P
  <2> DEFINE m == ToolsDone(OkrTools, Shows(answer))
  <2>1. DOMAIN m = LiveFields /\ m.progress = live.progress
    BY <1>1
  <2>2. live' = [m EXCEPT !.okr = IF summary THEN O ELSE @,
                          !.progress = IF progress /\ answer = "2xx" THEN Q ELSE @]
    BY <1>4
  <2> HIDE DEF m
  <2>3. live'.progress = m.progress \/ (progress /\ live'.progress = Q)
    BY <2>1, <2>2 DEF LiveFields
  <2> QED  BY <1>2, <2>1, <2>3
<1>5. live'.progress = live.progress \/ live'.progress = P
  BY <1>1, <1>3, <1>4
<1> QED  BY <1>5 DEF P, summary

(* The OKR tools: progress is shown only with what was discovered.         *)
LEMMA SaysOkrSummaries ==
    ASSUME LiveShape(live), Says(feishu, live), AppendOkrSummaries
    PROVE  Says(feishu, live')
<1> DEFINE summary == "OkrSummary" \in live.tools
           P == ReadMyOkrProgressSummaryFromTopology(
                   ReadMyOkrTopology(feishu.cycles, OptionsForRequestedTools(summary, TRUE)), feishu.wording)
<1>1. /\ Same(live, live', {"tools", "statuses", "okr", "progress"})
      /\ \E new : /\ IsList(new) /\ live'.statuses = live.statuses \o new
                  /\ DOMAIN new = DOMAIN OkrToolsAsked
                  /\ \A i \in DOMAIN new : new[i].tool = OkrToolsAsked[i]
                  /\ (\E i \in DOMAIN new : new[i] = Ready("OkrProgress")) => live'.progress = P
  BY OkrSummariesEffect
<1>2. PICK new : /\ IsList(new) /\ live'.statuses = live.statuses \o new
                 /\ DOMAIN new = DOMAIN OkrToolsAsked
                 /\ \A i \in DOMAIN new : new[i].tool = OkrToolsAsked[i]
                 /\ (\E i \in DOMAIN new : new[i] = Ready("OkrProgress")) => live'.progress = P
  BY <1>1
<1>3. ProgressRead(feishu, P)
  <2>1. summary \in BOOLEAN
    OBVIOUS
  <2> QED  BY <2>1 DEF ProgressRead
<1> HIDE DEF P
<1>4. live'.tasks = live.tasks /\ live'.minutes = live.minutes /\ IsList(live.statuses)
  BY <1>1 DEF Same, LiveFields, LiveShape
<1>5. \A i \in DOMAIN new : new[i].tool \in OkrTools
  <2>1. live.tools \cap OkrTools \in SUBSET ToolNames
    BY NamesDiffer
  <2>2. ToSet(OkrToolsAsked) = live.tools \cap OkrTools
    BY <2>1, InOrderFacts DEF OkrToolsAsked
  <2> QED  BY <1>2, <2>2 DEF ToSet
<1>6. ASSUME NEW tool, tool \notin OkrTools, ShownIn(live', tool) PROVE ShownIn(live, tool)
  <2>1. Ready(tool).tool = tool
    BY DEF Ready
  <2>2. ASSUME NEW i \in DOMAIN new, new[i] = Ready(tool) PROVE FALSE
    BY <1>5, <1>6, <2>1, <2>2
  <2> QED  BY <1>2, <1>4, <1>6, <2>2, ShownBefore
<1>7. "TaskSummary" \notin OkrTools /\ "MinutesSummary" \notin OkrTools
  BY DEF OkrTools
<1>8. ASSUME ShownIn(live', "OkrProgress") PROVE ProgressRead(feishu, live'.progress)
  <2>1. CASE \E i \in DOMAIN new : new[i] = Ready("OkrProgress")
    BY <1>2, <1>3, <2>1
  <2>2. CASE ShownIn(live, "OkrProgress")
    <3>1. ProgressRead(feishu, live.progress)
      BY <2>2 DEF Says
    <3>2. live'.progress = live.progress \/ live'.progress = P
      BY ProgressStays DEF P
    <3> QED  BY <1>3, <3>1, <3>2
  <2>3. ShownIn(live, "OkrProgress") \/ \E i \in DOMAIN new : new[i] = Ready("OkrProgress")
    <3>1. IsList(new) /\ live'.statuses = live.statuses \o new
      BY <1>2
    <3> QED  BY <1>4, <1>8, <3>1, ShownBefore
  <2> QED  BY <2>1, <2>2, <2>3
<1> QED  BY <1>4, <1>6, <1>7, <1>8 DEF Says

(* All steps of a read.                                                    *)
LEMMA SaysSteps ==
    ASSUME LiveShape(live), Says(feishu, live), NEW request, IsList(request.refs), ReadSteps(request)
    PROVE  Says(feishu, live')
<1>1. CASE StartLiveRead(request)
  <2> DEFINE l == Asked(request)
  <2>1. live' = Close(l, "") \/ live' = [l EXCEPT !.step = "resolve"]
    BY <1>1, StartEffect
  <2>2. LiveShape(l) /\ l.statuses = <<>>
    BY AskedFacts
  <2> HIDE DEF l
  <2>3. Says(feishu, l)
    BY <2>2, SaysNothing
  <2> QED  BY <2>1, <2>2, <2>3, SaysClosed, SaysGoesOn
<1>2. CASE ResolveGrant \/ LoadGrant \/ RefreshGrantBeforeLiveRead \/ ReloadGrant \/ ResolveLarkOpenIdForGrant
  BY <1>2, SaysBeforeReading
<1>3. CASE ReadMyTaskSummary \/ ReadMyMinutesSummary \/ ReadMyCalendarFreeBusy \/ ReadMyCalendarEvents
  BY <1>3, SaysOneTool
<1>4. CASE AppendOkrEvidence \/ \E source \in Sources \ {"okr"} : AppendEvidence(source)
  BY <1>4, SaysEvidence
<1>5. CASE FinishLiveRead
  BY <1>5, SaysClosed DEF FinishLiveRead
<1> QED  BY <1>1, <1>2, <1>3, <1>4, <1>5, SaysOkrSummaries DEF ReadSteps

(* At most all pages are read, and a list whose summary has neither        *)
(* ellipsis nor note has been read in full.                                *)
LEMMA PagesCover ==
    ASSUME NEW sizes \in Seq(Page), NEW limit, NEW words, NEW pages, Unqualified(pages),
           pages = ReadPages(sizes, limit, words)
    PROVE  pages.count = Total(sizes)
<1> DEFINE n == PagesRead(sizes, limit)
           m == Len(sizes)
           a == Part("read", words.counts)
           b == Part("examples", words.examples)
           c == Part("more", words.note)
<1>1. IsList(sizes) /\ m \in Nat /\ DOMAIN sizes = 1 .. m
  BY ListOf, LenProperties
<1>2. n \in Nat /\ n <= m
  <2> DEFINE S == {i \in DOMAIN sizes : i <= limit /\ \A j \in 1 .. i - 1 : sizes[j].token}
  <2>1. IsFiniteSet(1 .. m) /\ Cardinality(1 .. m) = m
    BY <1>1, PlacesCounted
  <2>2. S \subseteq 1 .. m
    BY <1>1
  <2>3. n = Cardinality(S)
    BY DEF PagesRead
  <2> HIDE DEF S, m, n
  <2>4. Cardinality(S) \in Nat /\ Cardinality(S) <= Cardinality(1 .. m)
    BY <2>1, <2>2, FS_Subset, FS_CardinalityType
  <2> QED  BY <2>1, <2>3, <2>4
<1>3. pages.count = Total(Take(sizes, n))
  BY DEF ReadPages
<1>4. ASSUME n < m PROVE FALSE
  <2>1. \/ pages.said = NothingFound.said
        \/ /\ pages.said = FinalizeSummary(<<a, b>> \o <<c>>).said
           /\ pages.cut = FinalizeSummary(<<a, b>> \o <<c>>).cut
    BY <1>4 DEF ReadPages
  <2>2. c.says = "more"
    BY DEF Part
  <2> HIDE DEF a, b, c
  <2> DEFINE three == <<a, b>> \o <<c>>
  <2>3. 3 \in DOMAIN three /\ three[3] = c
    BY ThirdJoined
  <2>4. ~pages.cut /\ "more" \notin pages.said /\ "nothing" \notin pages.said
    BY DEF Unqualified
  <2>5. CASE pages.said = NothingFound.said
    BY <2>4, <2>5 DEF NothingFound
  <2>6. CASE pages.said = FinalizeSummary(three).said /\ pages.cut = FinalizeSummary(three).cut
    <3> HIDE DEF three
    <3>1. three[3].says \in FinalizeSummary(three).said
      BY <2>3, <2>4, <2>6, UncutSaysAll
    <3> QED  BY <2>2, <2>3, <2>4, <2>6, <3>1
  <2> QED  BY <2>1, <2>5, <2>6
<1> HIDE DEF n, m
<1>5. n = m
  BY <1>1, <1>2, <1>4
<1>6. Take(sizes, m) = sizes
  <2>1. m <= m /\ Len(sizes) = m
    BY <1>1 DEF m
  <2> QED  BY <1>1, <2>1, TakeFacts
<1> QED  BY <1>3, <1>5, <1>6

(* What the invariant says of the summaries is what the property asks.     *)
LEMMA SaysIsEnough ==
    ASSUME feishu \in FeishuData, Says(feishu, live)
    PROVE  UnqualifiedSummaryIsComplete
<1>1. feishu.cycles \in Seq(HeldCycle) /\ feishu.tasks \in Seq(Page) /\ feishu.minutes \in Seq(Page)
  BY DEF FeishuData
<1>3. \A tool : Shown(tool) <=> ShownIn(live, tool)
  BY DEF Shown, ShownIn
<1>4. ASSUME Shown("OkrProgress"), Unqualified(live.progress)
      PROVE  live.progress.read = TargetsHeld(feishu.cycles)
  <2> DEFINE s == live.progress
             cycles == feishu.cycles
             words == feishu.wording
  <2>1. ProgressRead(feishu, s)
    BY <1>3, <1>4 DEF Says
  <2>2. PICK summary \in BOOLEAN : s = ReadMyOkrProgressSummaryFromTopology(
                  ReadMyOkrTopology(cycles, OptionsForRequestedTools(summary, TRUE)), words)
    BY <2>1 DEF ProgressRead
  <2>3. cycles \in Seq(HeldCycle) /\ Unqualified(s)
    BY <1>1, <1>4
  <2> HIDE DEF s, cycles, words
  <2>4. s.read = TargetsHeld(cycles)
    BY <2>2, <2>3, ProgressCovers
  <2> QED  BY <2>4 DEF s, cycles
<1>5. ASSUME Shown("TaskSummary"), Unqualified(live.tasks) PROVE live.tasks.count = Total(feishu.tasks)
  <2>1. live.tasks = ReadPages(feishu.tasks, TaskPageLimit, feishu.wording)
    BY <1>3, <1>5 DEF Says
  <2> QED  BY <1>1, <1>5, <2>1, PagesCover
<1>6. ASSUME Shown("MinutesSummary"), Unqualified(live.minutes) PROVE live.minutes.count = Total(feishu.minutes)
  <2>1. live.minutes = ReadPages(feishu.minutes, MinutesPageLimit, feishu.wording)
    BY <1>3, <1>6 DEF Says
  <2> QED  BY <1>1, <1>6, <2>1, PagesCover
<1> QED  BY <1>4, <1>5, <1>6 DEF UnqualifiedSummaryIsComplete

(* A summary shown in full that says neither that something was left out   *)
(* nor that nothing was found covers every target, task and meeting note   *)
(* Feishu holds, for all lengths of texts, all pages and all limits that   *)
(* are ordered as the code's constants are.                                *)
THEOREM UnqualifiedSummariesAreComplete == Spec => []UnqualifiedSummaryIsComplete
<1> DEFINE Inv == ReadInv /\ TurnShape /\ Says(feishu, live)
<1>1. Init => Inv
  <2>1. Init => live = NotStarted
    BY DEF Init, ReadInit
  <2>2. NotStarted.statuses = <<>>
    BY DEF NotStarted
  <2> QED  BY <2>1, <2>2, ReadInvInit, TurnShapeInit, SaysNothing
<1>2. Inv /\ [Next]_vars => Inv'
  <2> SUFFICES ASSUME ReadInv, TurnShape, Says(feishu, live), [Next]_vars
               PROVE  ReadInv' /\ TurnShape' /\ Says(feishu', live')
    BY DEF Says, ShownIn, ProgressRead
  <2>1. ReadInv' /\ TurnShape'
    BY TurnStep
  <2>2. LiveShape(live) /\ IsList(turn.request.refs)
    BY DEF ReadInv, TurnShape
  <2>a. feishu' = feishu
    BY FeishuStays
  <2>3. CASE ReadSteps(turn.request)
    <3> DEFINE request == turn.request
    <3>1. IsList(request.refs) /\ ReadSteps(request)
      BY <2>2, <2>3
    <3> HIDE DEF request
    <3>2. Says(feishu, live')
      BY <2>2, <3>1, SaysSteps
    <3> QED  BY <2>1, <2>a, <3>2
  <2>4. CASE live' = NotStarted
    <3>1. live'.statuses = <<>>
      BY <2>4 DEF NotStarted
    <3> QED  BY <2>1, <3>1, SaysNothing
  <2>5. CASE live' = live
    BY <2>1, <2>5, <2>a
  <2>6. OtherSteps \/ UNCHANGED readVars => live' = live
    BY DEF OtherSteps, LoginAgain, LogoutElsewhere, GrantAges, RotatedElsewhere, Others, readVars
  <2> QED  BY <2>3, <2>4, <2>5, <2>6, ReadSide
<1>3. Inv => UnqualifiedSummaryIsComplete
  BY SaysIsEnough DEF TurnShape
<1> QED  BY <1>1, <1>2, <1>3, PTL DEF Spec

-----------------------------------------------------------------------------
(* Pieces of an answer *)

(* A set of numbers moved by one.                                          *)
Moved(S) == {m + 1 : m \in S}

(* It has as many members.                                                 *)
LEMMA MovedCount ==
    ASSUME NEW n \in Nat, NEW S \in SUBSET (1 .. n)
    PROVE  Cardinality(Moved(S)) = Cardinality(S) /\ IsFiniteSet(Moved(S))
<1> DEFINE f == [m \in S |-> m + 1]
<1>a. \A m \in S : m \in 1 .. n  OBVIOUS
<1>1. \A m \in S : f[m] \in Moved(S)
  BY DEF Moved
<1>2. \A x, y \in S : f[x] = f[y] => x = y
  BY <1>a
<1>3. \A y \in Moved(S) : \E x \in S : f[x] = y
  BY DEF Moved
<1>4. f \in [S -> Moved(S)]
  BY <1>1
<1> HIDE DEF f
<1>5. f \in Bijection(S, Moved(S))
  BY <1>2, <1>3, <1>4 DEF Bijection, Injection, Surjection, IsInjective
<1>6. ExistsBijection(S, Moved(S)) /\ IsFiniteSet(S)
  BY <1>5, PlacesFinite DEF ExistsBijection
<1> QED  BY <1>6, FS_Bijection

(* A place moved by one keeps its rank, and has one more if 1 is a place.  *)
LEMMA MovedRank ==
    ASSUME NEW n \in Nat, NEW S \in SUBSET (1 .. n), NEW x \in S
    PROVE  Rank(Moved(S), x + 1) = Rank(S, x) /\ Rank(Moved(S) \cup {1}, x + 1) = Rank(S, x) + 1
<1> DEFINE A == {m \in S : m <= x}
<1>a. \A m \in S : m \in 1 .. n  OBVIOUS
<1>1. A \in SUBSET (1 .. n)
  BY <1>a
<1>2. {m \in Moved(S) : m <= x + 1} = Moved(A)
  <2>1. ASSUME NEW m \in Moved(S), m <= x + 1 PROVE m \in Moved(A)
    <3>1. PICK k \in S : m = k + 1
      BY DEF Moved
    <3>2. k <= x
      BY <2>1, <3>1, <1>a
    <3> QED  BY <3>1, <3>2 DEF Moved
  <2>2. ASSUME NEW m \in Moved(A) PROVE m \in Moved(S) /\ m <= x + 1
    <3>1. PICK k \in A : m = k + 1
      BY DEF Moved
    <3>2. k \in S /\ k <= x
      BY <3>1
    <3> QED  BY <3>1, <3>2, <1>a DEF Moved
  <2> QED  BY <2>1, <2>2
<1>3. 1 \notin Moved(A)
  BY <1>1 DEF Moved
<1>4. {m \in Moved(S) \cup {1} : m <= x + 1} = Moved(A) \cup {1}
  <2>1. 1 <= x + 1
    BY <1>a
  <2> HIDE DEF A
  <2> QED  BY <2>1, <1>2
<1> HIDE DEF A
<1>5. Cardinality(Moved(A)) = Cardinality(A) /\ IsFiniteSet(Moved(A))
  BY <1>1, MovedCount
<1>6. Cardinality(Moved(A) \cup {1}) = Cardinality(A) + 1
  BY <1>3, <1>5, FS_AddElement
<1> QED  BY <1>2, <1>4, <1>5, <1>6 DEF Rank, A

(* What is kept of a sequence is its first element, if that is kept, and   *)
(* what is kept of the rest.                                               *)
LEMMA KeptCons ==
    ASSUME NEW T, NEW seq \in Seq(T), seq # <<>>, NEW S \in SUBSET DOMAIN Tail(seq)
    PROVE  /\ Kept(seq, Moved(S)) = Kept(Tail(seq), S)
           /\ Kept(seq, Moved(S) \cup {1}) = <<seq[1]>> \o Kept(Tail(seq), S)
<1> DEFINE t == Tail(seq)
           n == Len(t)
           c == Cardinality(S)
           R == Moved(S)
           Q == Moved(S) \cup {1}
<1>1. t \in Seq(T) /\ n = Len(seq) - 1 /\ Len(seq) \in Nat /\ DOMAIN seq = 1 .. Len(seq)
      /\ \A i \in 1 .. n : t[i] = seq[i + 1]
  BY HeadTailProperties, LenProperties
<1>2. n \in Nat /\ DOMAIN t = 1 .. n
  BY <1>1, LenProperties
<1>b. Len(seq) = n + 1
  BY <1>1, <1>2
<1> HIDE DEF n, t
<1>3. S \in SUBSET (1 .. n)
  BY <1>2 DEF t
<1>a. \A m \in S : m \in 1 .. n
  BY <1>3
<1>4. R \in SUBSET DOMAIN seq /\ Q \in SUBSET DOMAIN seq /\ 1 \notin R
  <2>1. ASSUME NEW m \in R PROVE m \in 2 .. n + 1
    <3>1. PICK k \in S : m = k + 1
      BY DEF Moved
    <3> QED  BY <3>1, <1>a, <1>2
  <2>2. DOMAIN seq = 1 .. n + 1
    BY <1>1, <1>b
  <2> HIDE DEF R
  <2>3. \A m \in R : m \in 1 .. n + 1 /\ m # 1
    BY <2>1, <1>2
  <2>4. 1 \in 1 .. n + 1
    BY <1>2
  <2>5. R \in SUBSET (1 .. n + 1) /\ R \cup {1} \in SUBSET (1 .. n + 1) /\ 1 \notin R
    BY <2>3, <2>4
  <2>6. Q = R \cup {1}
    BY DEF R
  <2> HIDE DEF Q
  <2> QED  BY <2>2, <2>5, <2>6
<1>5. Cardinality(R) = c /\ IsFiniteSet(R)
  BY <1>2, <1>3, MovedCount
<1>6. Cardinality(Q) = c + 1
  <2> HIDE DEF c
  <2> QED  BY <1>4, <1>5, FS_AddElement
<1>7. /\ Kept(t, S) \in Seq(T) /\ Len(Kept(t, S)) = c /\ c \in Nat
      /\ \A k \in 1 .. c : Nth(S, k) \in S /\ Kept(t, S)[k] = t[Nth(S, k)]
  <2>1. t \in Seq(T) /\ S \in SUBSET DOMAIN t
    BY <1>1 DEF t
  <2> QED  BY <2>1, KeptFacts
<1>8. \A k \in 1 .. c : Nth(S, k) \in S /\ Rank(S, Nth(S, k)) = k
  BY <1>2, <1>3, NthIsRanked
<1>9. \A x \in S : Rank(R, x + 1) = Rank(S, x) /\ Rank(Q, x + 1) = Rank(S, x) + 1 /\ x + 1 \in R
  BY <1>2, <1>3, MovedRank DEF Moved
<1> HIDE DEF R, Q, c
<1>10. /\ Kept(seq, R) \in Seq(T) /\ Len(Kept(seq, R)) = c
       /\ \A x \in R : Kept(seq, R)[Rank(R, x)] = seq[x]
  BY <1>4, <1>5, KeptFacts
<1>11. /\ Kept(seq, Q) \in Seq(T) /\ Len(Kept(seq, Q)) = c + 1
       /\ \A x \in Q : Kept(seq, Q)[Rank(Q, x)] = seq[x]
  BY <1>4, <1>6, KeptFacts
<1>12. ASSUME NEW k \in 1 .. c
       PROVE  Kept(seq, R)[k] = Kept(t, S)[k] /\ Kept(seq, Q)[k + 1] = Kept(t, S)[k]
  <2>1. PICK x \in S : x = Nth(S, k) /\ Rank(S, x) = k
    BY <1>8
  <2>2. Rank(R, x + 1) = k /\ Rank(Q, x + 1) = k + 1 /\ x + 1 \in R /\ x + 1 \in Q
    BY <1>9, <2>1 DEF R, Q
  <2>3. seq[x + 1] = t[x]
    BY <1>1, <1>a
  <2>4. Kept(t, S)[k] = t[x]
    BY <1>7, <2>1
  <2> QED  BY <1>10, <1>11, <2>2, <2>3, <2>4
<1>13. Kept(seq, R) = Kept(t, S)
  BY <1>7, <1>10, <1>12, SeqEqual
<1>14. Kept(seq, Q)[1] = seq[1]
  <2>1. {m \in Q : m <= 1} = {1}
    <3>1. \A m \in R : m \in Nat /\ ~ (m <= 1)
      BY <1>a DEF R, Moved
    <3> QED  BY <3>1 DEF R, Q
  <2>2. Rank(Q, 1) = 1
    BY <2>1, FS_Singleton DEF Rank
  <2>3. 1 \in Q
    BY DEF Q
  <2> QED  BY <1>11, <2>2, <2>3
<1>15. seq[1] \in T
  BY <1>b, <1>2, ElementOfSeq
<1>16. <<seq[1]>> \in Seq(T) /\ Len(<<seq[1]>>) = 1 /\ <<seq[1]>>[1] = seq[1]
  BY <1>15
<1> DEFINE first == <<seq[1]>>
           all == first \o Kept(t, S)
<1> HIDE DEF first
<1>17. /\ all \in Seq(T) /\ Len(all) = c + 1
       /\ \A i \in 1 .. 1 + c : all[i] = IF i <= 1 THEN first[i] ELSE Kept(t, S)[i - 1]
  <2>1. /\ all \in Seq(T) /\ Len(all) = Len(first) + Len(Kept(t, S))
        /\ \A i \in 1 .. Len(first) + Len(Kept(t, S)) :
              all[i] = IF i <= Len(first) THEN first[i] ELSE Kept(t, S)[i - Len(first)]
    BY <1>7, <1>16, ConcatProperties DEF first
  <2>2. Len(first) = 1 /\ Len(Kept(t, S)) = c /\ c \in Nat
    BY <1>7, <1>16 DEF first
  <2> HIDE DEF all
  <2> QED  BY <2>1, <2>2
<1> HIDE DEF all
<1>18. ASSUME NEW i \in 1 .. c + 1 PROVE Kept(seq, Q)[i] = all[i]
  <2>1. CASE i = 1
    BY <2>1, <1>7, <1>14, <1>16, <1>17 DEF first
  <2>2. CASE i # 1
    <3>1. i - 1 \in 1 .. c /\ i - 1 + 1 = i /\ ~ (i <= 1) /\ i \in 1 .. 1 + c
      BY <2>2, <1>7
    <3>2. Kept(seq, Q)[i - 1 + 1] = Kept(t, S)[i - 1]
      BY <3>1, <1>12
    <3> QED  BY <3>1, <3>2, <1>17
  <2> QED  BY <2>1, <2>2
<1>19. Kept(seq, Q) = all
  BY <1>11, <1>17, <1>18, SeqEqual
<1> QED  BY <1>13, <1>19 DEF R, Q, t, all, first

(* Lists that agree in every place are equal.                              *)
LEMMA ListEqual ==
    ASSUME NEW s, NEW t, IsList(s), IsList(t), Len(s) = Len(t), \A i \in 1 .. Len(s) : s[i] = t[i]
    PROVE  s = t
<1> DEFINE T == ToSet(s) \cup ToSet(t)
<1>1. s \in Seq(T) /\ t \in Seq(T)
  BY SeqMonotonic DEF IsList
<1> HIDE DEF T
<1> QED  BY <1>1, SeqEqual

(* The pieces of a text that are not blank.                                *)
Worded(pieces) == {i \in DOMAIN pieces : pieces[i] # {}}
NonBlank(pieces) == Kept(pieces, Worded(pieces))

(* They are a list.                                                        *)
LEMMA NonBlankList == ASSUME NEW s, IsList(s) PROVE IsList(NonBlank(s))
<1>1. Worded(s) \in SUBSET DOMAIN s
  BY DEF Worded
<1> QED  BY <1>1, ListKept DEF NonBlank

(* One piece more adds itself, unless it is blank.                         *)
LEMMA NonBlankAppend ==
    ASSUME NEW s, IsList(s), NEW x
    PROVE  /\ x = {} => NonBlank(Append(s, x)) = NonBlank(s)
           /\ x # {} => NonBlank(Append(s, x)) = Append(NonBlank(s), x)
<1> DEFINE T == ToSet(s) \cup {x}
           more == Append(s, x)
           n == Len(s)
<1>1. s \in Seq(T) /\ x \in T
  BY SeqMonotonic DEF IsList
<1>2. /\ IsList(more) /\ Len(more) = n + 1 /\ \A i \in 1 .. n : more[i] = s[i]
      /\ more[n + 1] = x
  BY ListAppend
<1>3. n \in Nat /\ DOMAIN s = 1 .. n
  BY ListFacts
<1>4. DOMAIN more = 1 .. n + 1
  <2> HIDE DEF more
  <2> QED  BY <1>2, ListFacts
<1>5. Worded(s) \in SUBSET DOMAIN s
  BY DEF Worded
<1> HIDE DEF T
<1>6. /\ Kept(Append(s, x), Worded(s)) = NonBlank(s)
      /\ Kept(Append(s, x), Worded(s) \cup {Len(s) + 1}) = Append(NonBlank(s), x)
  BY <1>1, <1>5, KeptAppend DEF NonBlank
<1> HIDE DEF more, n
<1>7. \A i : i \in 1 .. n + 1 <=> i \in 1 .. n \/ i = n + 1
  BY <1>3
<1>8. n + 1 \notin 1 .. n
  BY <1>3
<1>9. x = {} => Worded(more) = Worded(s)
  BY <1>2, <1>3, <1>4, <1>7, <1>8 DEF Worded
<1>10. x # {} => Worded(more) = Worded(s) \cup {n + 1}
  BY <1>2, <1>3, <1>4, <1>7, <1>8 DEF Worded
<1> QED  BY <1>6, <1>9, <1>10 DEF more, n, NonBlank

(* The first piece comes first, unless it is blank.                        *)
LEMMA NonBlankTail ==
    ASSUME NEW s, IsList(s), s # <<>>
    PROVE  /\ s[1] = {} => NonBlank(s) = NonBlank(Tail(s))
           /\ s[1] # {} => NonBlank(s) = <<s[1]>> \o NonBlank(Tail(s))
<1> DEFINE t == Tail(s)
           n == Len(t)
           S == Worded(t)
<1>1. /\ Len(s) \in Nat /\ DOMAIN s = 1 .. Len(s) /\ Len(s) # 0 /\ IsList(t) /\ n = Len(s) - 1
      /\ \A i \in 1 .. Len(s) - 1 : t[i] = s[i + 1]
  BY ListFacts
<1>2. n \in Nat /\ DOMAIN t = 1 .. n /\ Len(s) = n + 1
  <2>1. n \in Nat /\ DOMAIN t = 1 .. n
    <3> HIDE DEF t
    <3> QED  BY <1>1, ListFacts
  <2> HIDE DEF t, n
  <2> QED  BY <2>1, <1>1
<1>3. S \in SUBSET DOMAIN t
  BY DEF Worded
<1>4. s \in Seq(ToSet(s))
  BY DEF IsList
<1>5. /\ Kept(s, Moved(S)) = NonBlank(t)
      /\ Kept(s, Moved(S) \cup {1}) = <<s[1]>> \o NonBlank(t)
  BY <1>3, <1>4, KeptCons DEF NonBlank
<1> HIDE DEF t, n
<1>6. DOMAIN s = 1 .. n + 1 /\ \A i \in 1 .. n : t[i] = s[i + 1]
  BY <1>1, <1>2
<1>7. ASSUME NEW i \in Worded(s) PROVE i = 1 \/ i \in Moved(S)
  <2>1. i \in 1 .. n + 1 /\ s[i] # {}
    BY <1>6 DEF Worded
  <2>2. CASE i # 1
    <3>1. i - 1 \in 1 .. n /\ i - 1 + 1 = i
      BY <2>1, <2>2, <1>2
    <3>2. i - 1 \in S
      BY <3>1, <2>1, <1>2, <1>6 DEF Worded
    <3> QED  BY <3>1, <3>2 DEF Moved
  <2> QED  BY <2>2
<1>8. ASSUME NEW i \in Moved(S) PROVE i \in Worded(s) /\ i # 1
  <2>1. PICK k \in S : i = k + 1
    BY DEF Moved
  <2>2. k \in 1 .. n /\ t[k] # {}
    BY <2>1, <1>2 DEF Worded
  <2>3. i \in 1 .. n + 1 /\ i # 1 /\ s[i] # {}
    BY <2>1, <2>2, <1>6, <1>2
  <2> QED  BY <2>3, <1>6 DEF Worded
<1>9. 1 \in DOMAIN s
  BY <1>2, <1>6
<1> HIDE DEF S
<1>10. s[1] = {} => Worded(s) = Moved(S)
  <2>1. s[1] = {} => 1 \notin Worded(s)
    BY DEF Worded
  <2> QED  BY <1>7, <1>8, <2>1
<1>11. s[1] # {} => Worded(s) = Moved(S) \cup {1}
  <2>1. s[1] # {} => 1 \in Worded(s)
    BY <1>9 DEF Worded
  <2> QED  BY <1>7, <1>8, <2>1
<1> QED  BY <1>5, <1>10, <1>11 DEF t, NonBlank

(* The pieces that are still on the wire.                                  *)
PiecesOn(frames) == [i \in DOMAIN frames |-> frames[i].piece]
Pending(frames) == NonBlank(PiecesOn(frames))

(* They are a list.                                                        *)
LEMMA PiecesList ==
    ASSUME NEW s, IsList(s)
    PROVE  IsList(PiecesOn(s)) /\ Len(PiecesOn(s)) = Len(s) /\ \A i \in 1 .. Len(s) : PiecesOn(s)[i] = s[i].piece
<1> DEFINE p == PiecesOn(s)
<1>1. Len(s) \in Nat /\ DOMAIN s = 1 .. Len(s)
  BY ListFacts
<1>2. DOMAIN p = 1 .. Len(s) /\ p = [i \in 1 .. Len(s) |-> p[i]] /\ \A i \in 1 .. Len(s) : p[i] = s[i].piece
  BY <1>1 DEF PiecesOn
<1> HIDE DEF p
<1>3. IsList(p) /\ Len(p) = Len(s)
  BY <1>1, <1>2, ListOnInterval
<1> QED  BY <1>2, <1>3 DEF p

(* A frame more adds its piece, unless it is blank.                        *)
LEMMA PendingAppend ==
    ASSUME NEW s, IsList(s), NEW f
    PROVE  /\ f.piece = {} => Pending(Append(s, f)) = Pending(s)
           /\ f.piece # {} => Pending(Append(s, f)) = Append(Pending(s), f.piece)
<1> DEFINE more == Append(s, f)
           p == PiecesOn(more)
           q == Append(PiecesOn(s), f.piece)
<1>1. /\ IsList(more) /\ Len(more) = Len(s) + 1
      /\ \A i \in 1 .. Len(s) : more[i] = s[i]
      /\ more[Len(s) + 1] = f
  BY ListAppend
<1>2. IsList(PiecesOn(s)) /\ Len(PiecesOn(s)) = Len(s) /\ \A i \in 1 .. Len(s) : PiecesOn(s)[i] = s[i].piece
  BY PiecesList
<1> HIDE DEF more
<1>3. IsList(p) /\ Len(p) = Len(more) /\ \A i \in 1 .. Len(more) : p[i] = more[i].piece
  BY <1>1, PiecesList
<1>4. /\ IsList(q) /\ Len(q) = Len(PiecesOn(s)) + 1
      /\ \A i \in 1 .. Len(PiecesOn(s)) : q[i] = PiecesOn(s)[i]
      /\ q[Len(PiecesOn(s)) + 1] = f.piece
  BY <1>2, ListAppend
<1> HIDE DEF p, q
<1>5. Len(s) \in Nat
  BY ListFacts
<1>6. ASSUME NEW i \in 1 .. Len(p) PROVE p[i] = q[i]
  <2>1. i \in 1 .. Len(s) \/ i = Len(s) + 1
    BY <1>1, <1>3, <1>5
  <2>2. p[i] = more[i].piece
    BY <1>3
  <2> QED  BY <1>1, <1>2, <1>4, <2>1, <2>2
<1>7. p = q
  BY <1>1, <1>2, <1>3, <1>4, <1>6, ListEqual
<1> QED  BY <1>2, <1>7, NonBlankAppend DEF Pending, p, q, more

(* The first frame's piece is the first pending, unless it is blank.       *)
LEMMA PendingTail ==
    ASSUME NEW s, IsList(s), s # <<>>
    PROVE  /\ s[1].piece = {} => Pending(s) = Pending(Tail(s))
           /\ s[1].piece # {} => Pending(s) = <<s[1].piece>> \o Pending(Tail(s))
<1> DEFINE t == Tail(s)
           p == PiecesOn(t)
           a == PiecesOn(s)
           q == Tail(a)
<1>1. /\ Len(s) \in Nat /\ Len(s) # 0 /\ IsList(t) /\ Len(t) = Len(s) - 1
      /\ \A i \in 1 .. Len(s) - 1 : t[i] = s[i + 1]
  BY ListFacts
<1>2. IsList(a) /\ Len(a) = Len(s) /\ \A i \in 1 .. Len(s) : a[i] = s[i].piece
  BY PiecesList
<1> HIDE DEF t
<1>3. IsList(p) /\ Len(p) = Len(t) /\ \A i \in 1 .. Len(t) : p[i] = t[i].piece
  BY <1>1, PiecesList
<1> HIDE DEF a
<1>4. /\ a # <<>> /\ IsList(q) /\ Len(q) = Len(a) - 1
      /\ \A i \in 1 .. Len(a) - 1 : q[i] = a[i + 1]
  BY <1>1, <1>2, ListFacts
<1> HIDE DEF p, q
<1>6. ASSUME NEW i \in 1 .. Len(p) PROVE p[i] = q[i]
  <2>1. i \in 1 .. Len(s) - 1 /\ i + 1 \in 1 .. Len(s)
    BY <1>1, <1>3
  <2>2. p[i] = t[i].piece
    BY <1>3
  <2> QED  BY <1>1, <1>2, <1>4, <2>1, <2>2
<1>7. p = q
  BY <1>1, <1>2, <1>3, <1>4, <1>6, ListEqual
<1>8. a[1] = s[1].piece
  BY <1>1, <1>2
<1>9. /\ a[1] = {} => NonBlank(a) = NonBlank(q)
      /\ a[1] # {} => NonBlank(a) = <<a[1]>> \o NonBlank(q)
  BY <1>2, <1>4, NonBlankTail DEF q
<1> QED  BY <1>7, <1>8, <1>9 DEF Pending, p, t, a

(* An element between two lists ends the first or starts the second.       *)
LEMMA Regroup ==
    ASSUME NEW s, IsList(s), NEW t, IsList(t), NEW x
    PROVE  /\ s \o (<<x>> \o t) = Append(s, x) \o t
           /\ s \o Append(t, x) = Append(s \o t, x)
           /\ s \o <<x>> = Append(s, x) /\ s \o <<>> = s /\ <<>> \o s = s
<1> DEFINE T == ToSet(s) \cup ToSet(t) \cup {x}
<1>1. s \in Seq(T) /\ t \in Seq(T) /\ x \in T
  BY SeqMonotonic DEF IsList
<1> HIDE DEF T
<1>2. <<x>> \in Seq(T)
  BY <1>1
<1>3. Append(s, x) = s \o <<x>> /\ Append(t, x) = t \o <<x>>
  BY <1>1, AppendIsConcat
<1>4. (s \o <<x>>) \o t = s \o (<<x>> \o t) /\ (s \o t) \o <<x>> = s \o (t \o <<x>>)
  BY SMTT(30), <1>1, <1>2, ConcatAssociative
<1>5. s \o t \in Seq(T)
  BY <1>1, ConcatProperties
<1>6. Append(s \o t, x) = (s \o t) \o <<x>>
  BY <1>1, <1>5, AppendIsConcat
<1>7. s \o <<>> = s /\ <<>> \o s = s
  BY <1>1, ConcatEmptySeq
<1> QED  BY <1>3, <1>4, <1>6, <1>7

(* What was sent is what the client has and what is on the wire.           *)
Carried(sent, gathered, frames) == NonBlank(sent) = gathered \o Pending(frames)

(* A piece that is sent goes on the wire.                                  *)
LEMMA CarriedMore ==
    ASSUME NEW sent, IsList(sent), NEW g, IsList(g), NEW frames, IsList(frames),
           Carried(sent, g, frames), NEW f
    PROVE  /\ Carried(Append(sent, f.piece), g, Append(frames, f))
           /\ f.piece = {} => Carried(sent, g, Append(frames, f))
<1> DEFINE p == Pending(frames)
           x == f.piece
<1>1. /\ x = {} => NonBlank(Append(sent, x)) = NonBlank(sent)
      /\ x # {} => NonBlank(Append(sent, x)) = Append(NonBlank(sent), x)
  BY NonBlankAppend
<1>2. /\ x = {} => Pending(Append(frames, f)) = p
      /\ x # {} => Pending(Append(frames, f)) = Append(p, x)
  BY PendingAppend
<1>3. IsList(p)
  BY PiecesList, NonBlankList DEF Pending
<1>4. NonBlank(sent) = g \o p
  BY DEF Carried
<1> HIDE DEF p, x
<1>5. g \o Append(p, x) = Append(g \o p, x)
  BY <1>3, Regroup
<1>6. CASE x = {}
  BY <1>1, <1>2, <1>4, <1>6 DEF Carried, x
<1>7. CASE x # {}
  BY <1>1, <1>2, <1>4, <1>5, <1>7 DEF Carried, x
<1> QED  BY <1>6, <1>7

(* A frame that is taken from the wire leaves its piece with the client.   *)
LEMMA CarriedTaken ==
    ASSUME NEW sent, NEW g, IsList(g), NEW frames, IsList(frames), frames # <<>>,
           Carried(sent, g, frames)
    PROVE  /\ frames[1].piece = {} => Carried(sent, g, Tail(frames))
           /\ frames[1].piece # {} => Carried(sent, Append(g, frames[1].piece), Tail(frames))
<1> DEFINE p == Pending(Tail(frames))
           x == frames[1].piece
<1>1. /\ x = {} => Pending(frames) = p
      /\ x # {} => Pending(frames) = <<x>> \o p
  BY PendingTail
<1>2. IsList(Tail(frames))
  BY ListFacts
<1>3. IsList(p)
  BY <1>2, PiecesList, NonBlankList DEF Pending
<1>4. NonBlank(sent) = g \o Pending(frames)
  BY DEF Carried
<1> HIDE DEF p, x
<1>5. g \o (<<x>> \o p) = Append(g, x) \o p
  BY <1>3, Regroup
<1> QED  BY <1>1, <1>4, <1>5 DEF Carried, p, x

(* Nothing is sent and nothing on its way.                                 *)
LEMMA NothingCarried ==
    /\ NonBlank(<<>>) = <<>> /\ Pending(<<>>) = <<>> /\ Carried(<<>>, <<>>, <<>>)
    /\ \A sent, g : IsList(g) /\ Carried(sent, g, <<>>) => NonBlank(sent) = g
<1>1. DOMAIN <<>> = {}
  OBVIOUS
<1>2. Worded(<<>>) = {}
  BY <1>1 DEF Worded
<1>3. NonBlank(<<>>) = <<>>
  BY <1>2, KeptNone DEF NonBlank
<1>4. Worded(PiecesOn(<<>>)) = {}
  BY <1>1 DEF PiecesOn, Worded
<1>5. Pending(<<>>) = <<>>
  BY <1>4, KeptNone DEF NonBlank, Pending
<1>6. IsList(<<>>)
  BY NoList
<1>7. ASSUME NEW g, IsList(g) PROVE g \o <<>> = g
  BY <1>6, <1>7, Regroup
<1> QED  BY <1>3, <1>5, <1>6, <1>7 DEF Carried

(* Frames on the wire: only deltas carry text, the status comes first and  *)
(* reports the reads of the turn, nothing follows a completion, and one is *)
(* sent only when the model service is done.                               *)
Events == {"context_status", "delta", "completed", "error"}
FrameWell(frames, i, done, reads) ==
    /\ frames[i].event \in Events
    /\ frames[i].event # "delta" => frames[i].piece = {}
    /\ frames[i].event = "completed" => i = Len(frames) /\ done = TRUE
    /\ frames[i].event = "context_status" => i = 1 /\ frames[i].reads = reads
WireWell(frames, done, reads) ==
    /\ IsList(frames) /\ \A i \in DOMAIN frames : FrameWell(frames, i, done, reads)
HasError(frames) == \E i \in DOMAIN frames : frames[i].event = "error"

(* A frame may be taken off the wire.                                      *)
LEMMA WireTaken ==
    ASSUME NEW frames, NEW done, NEW reads, WireWell(frames, done, reads), frames # <<>>
    PROVE  /\ WireWell(Tail(frames), done, reads)
           /\ HasError(frames) /\ frames[1].event # "error" => HasError(Tail(frames))
           /\ Tail(frames) # <<>> => Tail(frames)[1].event # "context_status"
           /\ FrameWell(frames, 1, done, reads)
           /\ frames[1].event = "completed" => Tail(frames) = <<>>
<1> DEFINE t == Tail(frames)
           n == Len(t)
<1>1. /\ Len(frames) \in Nat /\ Len(frames) # 0 /\ DOMAIN frames = 1 .. Len(frames)
      /\ IsList(t) /\ n = Len(frames) - 1
      /\ \A i \in 1 .. Len(frames) - 1 : t[i] = frames[i + 1]
      /\ \A i \in DOMAIN frames : FrameWell(frames, i, done, reads)
  BY ListFacts DEF WireWell
<1> HIDE DEF t
<1>2. n \in Nat /\ DOMAIN t = 1 .. n /\ (t = <<>> <=> n = 0)
  BY <1>1, ListFacts
<1> HIDE DEF n
<1>3. Len(frames) = n + 1
  BY <1>1, <1>2
<1>4. \A i \in 1 .. n : t[i] = frames[i + 1] /\ i + 1 \in 1 .. n + 1 /\ i + 1 # 1 /\ (i + 1 = n + 1 => i = n)
  <2>1. Len(frames) - 1 = n
    BY <1>2, <1>3
  <2>2. \A i \in 1 .. n : t[i] = frames[i + 1]
    BY <1>1, <2>1
  <2>3. \A i \in 1 .. n : i + 1 \in 1 .. n + 1 /\ i + 1 # 1 /\ (i + 1 = n + 1 => i = n)
    BY <1>2
  <2> QED  BY <2>2, <2>3
<1>5. \A i \in 1 .. n + 1 : FrameWell(frames, i, done, reads)
  BY <1>1, <1>3
<1>6. ASSUME NEW i \in 1 .. n PROVE FrameWell(t, i, done, reads) /\ t[i].event # "context_status"
  <2>1. FrameWell(frames, i + 1, done, reads) /\ t[i] = frames[i + 1] /\ i + 1 # 1
    BY <1>4, <1>5
  <2>2. t[i].event = "completed" => i = n /\ done = TRUE
    <3>1. i + 1 = n + 1 => i = n
      BY <1>4
    <3> QED  BY <2>1, <3>1, <1>3 DEF FrameWell
  <2> QED  BY <2>1, <2>2 DEF FrameWell, n
<1>7. WireWell(t, done, reads)
  BY <1>1, <1>2, <1>6 DEF WireWell
<1>8. ASSUME HasError(frames), frames[1].event # "error" PROVE HasError(t)
  <2>1. PICK i \in 1 .. n + 1 : frames[i].event = "error"
    BY <1>8, <1>1, <1>3 DEF HasError
  <2>2. i - 1 \in 1 .. n /\ i - 1 + 1 = i
    BY <2>1, <1>8, <1>2
  <2>3. t[i - 1] = frames[i]
    BY <2>2, <1>4
  <2> QED  BY <2>1, <2>2, <2>3, <1>2 DEF HasError
<1>9. 1 \in 1 .. n + 1 /\ (n # 0 => 1 \in 1 .. n)
  BY <1>2
<1>10. FrameWell(frames, 1, done, reads)
  BY <1>5, <1>9
<1>11. frames[1].event = "completed" => n = 0
  <2>1. frames[1].event = "completed" => 1 = n + 1
    BY <1>10, <1>3 DEF FrameWell
  <2> QED  BY <2>1, <1>2
<1>12. t # <<>> => t[1].event # "context_status"
  BY <1>2, <1>6, <1>9
<1> QED  BY <1>2, <1>7, <1>8, <1>10, <1>11, <1>12 DEF t

(* A frame that may follow others, and what the wire is with it.           *)
MayFollow(f, done) ==
    /\ f.event \in Events \ {"context_status"} /\ (f.event # "delta" => f.piece = {})
    /\ f.event = "completed" => done = TRUE
Extended(frames, f, done, reads, more) ==
    /\ WireWell(more, done, reads)
    /\ HasError(frames) \/ f.event = "error" => HasError(more)
    /\ more # <<>> /\ (frames # <<>> => more[1] = frames[1])

(* A frame may go on the wire until the model service is done.             *)
LEMMA WireMore ==
    ASSUME NEW frames, NEW reads, WireWell(frames, FALSE, reads), NEW f, NEW next, MayFollow(f, next)
    PROVE  Extended(frames, f, next, reads, Append(frames, f))
<1>0. /\ f.event \in Events \ {"context_status"} /\ (f.event # "delta" => f.piece = {})
      /\ f.event = "completed" => next = TRUE
  BY DEF MayFollow
<1> DEFINE m == Append(frames, f)
           n == Len(frames)
<1>1. /\ n \in Nat /\ DOMAIN frames = 1 .. n /\ (frames = <<>> <=> n = 0)
      /\ IsList(m) /\ Len(m) = n + 1
      /\ \A i \in 1 .. n : m[i] = frames[i]
      /\ m[n + 1] = f
      /\ \A i \in DOMAIN frames : FrameWell(frames, i, FALSE, reads)
  <2>1. IsList(frames) /\ \A i \in DOMAIN frames : FrameWell(frames, i, FALSE, reads)
    BY DEF WireWell
  <2>2. n \in Nat /\ DOMAIN frames = 1 .. n /\ (frames = <<>> <=> n = 0)
    BY <2>1, ListFacts
  <2>3. /\ IsList(m) /\ Len(m) = n + 1
        /\ \A i \in 1 .. n : m[i] = frames[i]
        /\ m[n + 1] = f
    BY <2>1, ListAppend
  <2> QED  BY <2>1, <2>2, <2>3
<1> HIDE DEF m
<1>2. DOMAIN m = 1 .. n + 1 /\ (m = <<>> <=> n + 1 = 0)
  BY <1>1, ListFacts
<1> HIDE DEF n
<1>3. \A i \in 1 .. n + 1 : i \in 1 .. n \/ i = n + 1
  BY <1>1
<1>4. ASSUME NEW i \in 1 .. n PROVE FrameWell(m, i, next, reads)
  <2>1. FrameWell(frames, i, FALSE, reads) /\ m[i] = frames[i]
    BY <1>1
  <2> QED  BY <2>1 DEF FrameWell
<1>5. FrameWell(m, n + 1, next, reads)
  BY <1>0, <1>1 DEF FrameWell
<1>6. WireWell(m, next, reads)
  BY <1>1, <1>2, <1>3, <1>4, <1>5 DEF WireWell
<1>7. HasError(frames) \/ f.event = "error" => HasError(m)
  <2>1. n + 1 \in 1 .. n + 1 /\ \A i \in 1 .. n : i \in 1 .. n + 1
    BY <1>1
  <2> QED  BY <1>1, <1>2, <2>1 DEF HasError
<1>8. m # <<>> /\ (frames # <<>> => 1 \in 1 .. n)
  BY <1>1, <1>2
<1> QED  BY <1>1, <1>6, <1>7, <1>8 DEF m, Extended

-----------------------------------------------------------------------------
(* The question *)

(* Messages that end with a question: a text of the user.                  *)
EndsWithQuestion(messages) ==
    /\ IsList(messages) /\ messages # <<>>
    /\ Last(messages).role = "user" /\ Last(messages).text # {}

(* A list that ends with an element ends with it after any others.         *)
LEMMA LastAppended ==
    ASSUME NEW s, IsList(s), NEW x
    PROVE  IsList(Append(s, x)) /\ Append(s, x) # <<>> /\ Last(Append(s, x)) = x
<1> DEFINE m == Append(s, x)
<1>1. IsList(m) /\ Len(m) = Len(s) + 1 /\ m[Len(s) + 1] = x /\ Len(s) \in Nat
  BY ListAppend, ListFacts
<1> HIDE DEF m
<1>2. m # <<>>
  BY <1>1, ListFacts
<1> QED  BY <1>1, <1>2 DEF Last, m

(* All but the last is a list.                                             *)
LEMMA FrontList == ASSUME NEW s, IsList(s), s # <<>> PROVE IsList(Front(s))
<1>1. Len(s) \in Nat /\ DOMAIN s = 1 .. Len(s)
  BY ListFacts
<1> DEFINE n == Len(s) - 1
<1>2. 1 \in Int /\ n \in Int /\ \A i \in 1 .. n : s[i] \in ToSet(s)
  BY <1>1 DEF ToSet
<1> HIDE DEF n
<1>3. SubSeq(s, 1, n) \in Seq(ToSet(s))
  BY <1>2, SubSeqProperties
<1> QED  BY <1>3, ListOf DEF Front, n

(* The recent messages of a list.                                          *)
Recent(msgs) == SubSeq(msgs, IF Len(msgs) > RecentLimit THEN Len(msgs) - RecentLimit + 1 ELSE 1, Len(msgs))

(* They end with the last one.                                             *)
LEMMA RecentLast ==
    ASSUME NEW msgs, IsList(msgs), msgs # <<>>
    PROVE  IsList(Recent(msgs)) /\ Recent(msgs) # <<>> /\ Last(Recent(msgs)) = Last(msgs)
<1> DEFINE n == Len(msgs)
           from == IF n > RecentLimit THEN n - RecentLimit + 1 ELSE 1
           r == Recent(msgs)
<1>1. n \in Nat /\ n # 0 /\ DOMAIN msgs = 1 .. n
  BY ListFacts
<1> HIDE DEF n
<1>2. from \in Int /\ from <= n /\ 1 <= from /\ n \in Int
  BY <1>1, PlanLimits
<1> HIDE DEF from
<1>3. \A i \in from .. n : i \in 1 .. n
  BY <1>2
<1>4. \A i \in from .. n : msgs[i] \in ToSet(msgs)
  BY <1>1, <1>3 DEF ToSet
<1>5. r = SubSeq(msgs, from, n)
  BY DEF Recent, n, from
<1>6. r \in Seq(ToSet(msgs)) /\ Len(r) = n - from + 1 /\ \A i \in 1 .. n - from + 1 : r[i] = msgs[from + i - 1]
  BY <1>2, <1>4, <1>5, SubSeqProperties
<1> HIDE DEF r
<1>7. IsList(r)
  BY <1>6, ListOf
<1>8. n - from + 1 \in 1 .. n - from + 1 /\ from + (n - from + 1) - 1 = n /\ n - from + 1 # 0
  BY <1>2
<1>9. r # <<>>
  BY <1>6, <1>7, <1>8, ListFacts
<1>10. r[Len(r)] = msgs[n]
  BY <1>6, <1>8
<1> QED  BY <1>7, <1>9, <1>10 DEF Last, r, n

(* The recent messages of a request that ends with a question end with it, *)
(* and it is the text a read is planned from.                              *)
LEMMA QuestionIsRecent ==
    ASSUME NEW request, EndsWithQuestion(request.messages)
    PROVE  /\ EndsWithQuestion(RecentMessages(request))
           /\ Last(RecentMessages(request)) = Last(request.messages)
           /\ LatestUserText(request) = Last(request.messages).text
<1> DEFINE msgs == RecentMessages(request)
           n == Len(msgs)
           said == {i \in DOMAIN msgs : msgs[i].role = "user" /\ msgs[i].text # {}}
<1>1. msgs = Recent(request.messages)
  BY DEF RecentMessages, Recent
<1>2. IsList(msgs) /\ msgs # <<>> /\ Last(msgs) = Last(request.messages)
  BY <1>1, RecentLast DEF EndsWithQuestion
<1>3. EndsWithQuestion(msgs)
  BY <1>2 DEF EndsWithQuestion
<1> HIDE DEF msgs
<1>4. n \in Nat /\ n # 0 /\ DOMAIN msgs = 1 .. n
  BY <1>2, ListFacts
<1>5. msgs[n].role = "user" /\ msgs[n].text # {}
  BY <1>3 DEF EndsWithQuestion, Last
<1> HIDE DEF n
<1>6. n \in said
  BY <1>4, <1>5
<1>7. \A y \in said : y \in 1 .. n
  BY <1>4
<1> HIDE DEF said
<1>8. \A y \in said : n >= y
  BY <1>4, <1>7
<1>9. Max(said) \in said /\ \A y \in said : Max(said) >= y
  BY <1>6, <1>8 DEF Max
<1>10. Max(said) = n
  <2>1. Max(said) >= n /\ n >= Max(said) /\ Max(said) \in 1 .. n
    BY <1>6, <1>7, <1>8, <1>9
  <2> QED  BY <2>1, <1>4
<1>11. LatestUserText(request) = IF said = {} THEN {} ELSE msgs[Max(said)].text
  BY DEF LatestUserText, msgs, said
<1>12. LatestUserText(request) = msgs[n].text
  BY <1>6, <1>10, <1>11
<1> QED  BY <1>2, <1>3, <1>12 DEF Last, msgs, n

(* What is asked of the model ends with the question.                      *)
LEMMA RequestAsks ==
    ASSUME NEW request, EndsWithQuestion(request.messages)
    PROVE  EndsWithQuestion(RequestMessages(request))
           /\ Last(RequestMessages(request)) = Last(request.messages)
<1> DEFINE msgs == RecentMessages(request)
           S == {i \in DOMAIN msgs : msgs[i].text # {}}
           r == Kept(msgs, S)
<1>1. EndsWithQuestion(msgs) /\ Last(msgs) = Last(request.messages)
  BY QuestionIsRecent
<1>2. RequestMessages(request) = r
  BY DEF RequestMessages
<1> HIDE DEF msgs
<1>3. IsList(msgs) /\ msgs # <<>> /\ msgs[Len(msgs)].text # {}
  BY <1>1 DEF EndsWithQuestion, Last
<1>4. Len(msgs) \in DOMAIN msgs
  BY <1>3, ListFacts
<1>5. Len(msgs) \in S /\ S \in SUBSET DOMAIN msgs
  BY <1>3, <1>4
<1> HIDE DEF S
<1>6. msgs \in Seq(ToSet(msgs))
  BY <1>3 DEF IsList
<1>7. Cardinality(S) # 0 /\ r[Cardinality(S)] = msgs[Len(msgs)]
  BY <1>5, <1>6, KeptLast
<1>8. IsList(r) /\ Len(r) = Cardinality(S)
  BY <1>3, <1>5, ListKept
<1> HIDE DEF r
<1>9. r # <<>>
  BY <1>7, <1>8, ListFacts
<1>10. Last(r) = Last(msgs)
  BY <1>7, <1>8 DEF Last
<1> QED  BY <1>1, <1>2, <1>8, <1>9, <1>10 DEF EndsWithQuestion

(* The last run of messages that end with a question starts with the user  *)
(* and holds the question.                                                 *)
LEMMA LastRun ==
    ASSUME NEW msgs, EndsWithQuestion(msgs)
    PROVE  \E j \in RunStarts(msgs) : /\ \A i \in RunStarts(msgs) : i <= j
                                      /\ msgs[j].role = "user" /\ Len(msgs) \in RunFrom(msgs, j)
<1> DEFINE n == Len(msgs)
           U == {j \in 1 .. n : \A m \in j .. n : msgs[m].role = "user"}
<1>1. n \in Nat /\ n # 0 /\ DOMAIN msgs = 1 .. n /\ msgs[n].role = "user"
  BY ListFacts DEF EndsWithQuestion, Last
<1> HIDE DEF n
<1>2. n \in U /\ U \in SUBSET Nat
  <2>1. \A m \in n .. n : m = n
    BY <1>1
  <2>2. n \in 1 .. n
    BY <1>1
  <2> QED  BY <1>1, <2>1, <2>2
<1>3. PICK j \in U : \A y \in U : j <= y
  <2> HIDE DEF U
  <2> QED  BY <1>2, LeastOf
<1>4. j \in 1 .. n /\ \A m \in j .. n : msgs[m].role = "user"
  BY <1>3
<1>5. j \in j .. n /\ j \in 1 .. j
  BY <1>4, <1>1
<1>6. msgs[j].role = "user"
  BY <1>4, <1>5
<1>7. ASSUME j # 1 PROVE msgs[j - 1].role # "user"
  <2>1. j - 1 \in 1 .. n /\ ~ (j <= j - 1) /\ \A m \in j - 1 .. n : m = j - 1 \/ m \in j .. n
    BY <1>4, <1>1, <1>7
  <2>2. j - 1 \notin U
    BY <2>1, <1>3
  <2>3. msgs[j - 1].role = "user" => j - 1 \in U
    BY <2>1, <1>4
  <2> QED  BY <2>2, <2>3
<1>8. j \in RunStarts(msgs)
  BY <1>1, <1>4, <1>5, <1>6, <1>7 DEF RunStarts
<1>9. ASSUME NEW i \in RunStarts(msgs) PROVE i <= j
  <2>1. i \in 1 .. n /\ (i = 1 \/ msgs[i - 1].role # msgs[i].role)
    BY <1>1 DEF RunStarts
  <2>2. ASSUME ~ (i <= j) PROVE FALSE
    <3>1. i \in j .. n /\ i - 1 \in j .. n /\ i # 1
      BY <2>1, <2>2, <1>4, <1>1
    <3> QED  BY <2>1, <3>1, <1>4
  <2> QED  BY <2>2
<1>10. n \in RunFrom(msgs, j)
  <2>1. n \in j .. n
    BY <1>1, <1>4
  <2> QED  BY <2>1, <1>4, <1>6 DEF RunFrom, n
<1> QED  BY <1>6, <1>8, <1>9, <1>10 DEF n

(* Anthropic is asked the last run, which holds the question.              *)
LEMMA AnthropicAsks ==
    ASSUME NEW request, EndsWithQuestion(request.messages)
    PROVE  /\ Last(AnthropicMessages(request)).role = "user"
           /\ Last(request.messages).text \subseteq Last(AnthropicMessages(request)).text
<1> DEFINE msgs == RequestMessages(request)
           n == Len(msgs)
           S == RunStarts(msgs)
           places == [i \in DOMAIN msgs |-> i]
           starts == Kept(places, S)
           c == Cardinality(S)
           Run(k) == [role |-> msgs[starts[k]].role,
                      text |-> UNION {msgs[j].text : j \in RunFrom(msgs, starts[k])}]
           a == [k \in DOMAIN starts |-> Run(k)]
<1>1. EndsWithQuestion(msgs) /\ Last(msgs) = Last(request.messages)
  BY RequestAsks
<1>2. AnthropicMessages(request) = a
  BY DEF AnthropicMessages
<1> HIDE DEF msgs
<1>3. n \in Nat /\ DOMAIN msgs = 1 .. n
  BY <1>1, ListFacts DEF EndsWithQuestion
<1>4. PICK j \in S : (\A i \in S : i <= j) /\ msgs[j].role = "user" /\ n \in RunFrom(msgs, j)
  BY <1>1, LastRun
<1> HIDE DEF n
<1>5. places \in Seq(Nat) /\ DOMAIN places = 1 .. n /\ \A i \in 1 .. n : places[i] = i
  <2>1. places = [i \in 1 .. n |-> i] /\ \A i \in 1 .. n : i \in Nat
    BY <1>3
  <2>2. [i \in 1 .. n |-> i] \in Seq(Nat)
    BY <2>1, <1>3, IsASeq
  <2> QED  BY <2>1, <2>2
<1> HIDE DEF places
<1>6. S \in SUBSET (1 .. n)
  BY <1>3 DEF RunStarts
<1> HIDE DEF S
<1>7. {m \in S : m <= j} = S
  BY <1>4
<1>8. Rank(S, j) = c
  BY <1>7 DEF Rank
<1>9. /\ c \in Nat /\ DOMAIN starts = 1 .. c
      /\ Rank(S, j) \in 1 .. c /\ starts[Rank(S, j)] = places[j]
  BY <1>4, <1>5, <1>6, KeptFacts
<1> HIDE DEF c, starts
<1>10. c \in 1 .. c /\ starts[c] = j
  BY <1>4, <1>5, <1>6, <1>8, <1>9
<1>11. DOMAIN a = 1 .. c /\ a = [i \in 1 .. c |-> a[i]]
  BY <1>9
<1>12. a[c] = Run(c)
  BY <1>9, <1>10
<1> HIDE DEF a
<1>13. Len(a) = c
  BY <1>9, <1>11, ListOnInterval
<1>14. Last(a) = Run(c)
  BY <1>12, <1>13 DEF Last
<1>15. Last(a).role = "user" /\ Last(a).text = UNION {msgs[x].text : x \in RunFrom(msgs, j)}
  BY <1>4, <1>10, <1>14
<1>16. msgs[n].text \in {msgs[x].text : x \in RunFrom(msgs, j)}
  BY <1>4
<1>17. msgs[n] = Last(request.messages)
  BY <1>1 DEF Last, n
<1> QED  BY <1>2, <1>15, <1>16, <1>17

(* Whatever the protocol, the question is asked.                           *)
LEMMA QuestionIsAsked ==
    ASSUME NEW request, EndsWithQuestion(request.messages), NEW protocol
    PROVE  /\ Last(AskedOf(protocol, request)).role = "user"
           /\ LatestUserText(request) \subseteq Last(AskedOf(protocol, request)).text
<1>1. LatestUserText(request) = Last(request.messages).text
  BY QuestionIsRecent
<1>2. /\ Last(AnthropicMessages(request)).role = "user"
      /\ Last(request.messages).text \subseteq Last(AnthropicMessages(request)).text
  BY AnthropicAsks
<1>3. /\ Last(RequestMessages(request)).role = "user"
      /\ Last(request.messages).text = Last(RequestMessages(request)).text
  BY RequestAsks DEF EndsWithQuestion
<1> QED  BY <1>1, <1>2, <1>3 DEF AskedOf

(* A read that is closed, admitted or goes on is about the same text.      *)
LEMMA TextBeforeReading ==
    ASSUME LiveShape(live),
           ResolveGrant \/ LoadGrant \/ RefreshGrantBeforeLiveRead \/ ReloadGrant \/ ResolveLarkOpenIdForGrant
    PROVE  live.step # "idle" /\ live'.text = live.text
<1>0. live.step # "idle" /\ DOMAIN live = LiveFields
  BY DEF ResolveGrant, LoadGrant, RefreshGrantBeforeLiveRead, ReloadGrant, ResolveLarkOpenIdForGrant, LiveShape
<1>1. \/ \E why : live' = Close(live, why)
      \/ \E step : live' = [live EXCEPT !.step = step]
      \/ \E fresh : live' = AdmitGrant(grant, live, fresh)
      \/ \E id : live' = [[live EXCEPT !.step = "read"] EXCEPT !.openId = id]
  <2>1. CASE ResolveGrant
    BY <2>1 DEF ResolveGrant
  <2>2. CASE LoadGrant
    BY <2>2 DEF LoadGrant
  <2>3. CASE RefreshGrantBeforeLiveRead
    BY <2>3 DEF RefreshGrantBeforeLiveRead
  <2>4. CASE ReloadGrant
    BY <2>4 DEF ReloadGrant
  <2>5. CASE ResolveLarkOpenIdForGrant
    BY <2>5 DEF ResolveLarkOpenIdForGrant
  <2> QED  BY <2>1, <2>2, <2>3, <2>4, <2>5
<1>2. ASSUME NEW l, DOMAIN l = LiveFields, NEW why, live' = Close(l, why) PROVE live'.text = l.text
  BY <1>2 DEF Close, LiveFields
<1>3. ASSUME NEW l, DOMAIN l = LiveFields, NEW step, live' = [l EXCEPT !.step = step] PROVE live'.text = l.text
  BY <1>3 DEF LiveFields
<1>4. ASSUME NEW id, live' = [[live EXCEPT !.step = "read"] EXCEPT !.openId = id] PROVE live'.text = live.text
  BY <1>0, <1>4 DEF LiveFields
<1>5. ASSUME NEW fresh, live' = AdmitGrant(grant, live, fresh) PROVE live'.text = live.text
  <2> DEFINE G == Gated(grant, live)
  <2>1. Admitted(grant, live, G)
    BY AdmitFacts
  <2>2. \/ live' = Close(live, "login_again") \/ live' = Close(G, "") \/ live' = Close(G, "no_refresh")
        \/ live' = [G EXCEPT !.step = "refresh"] \/ live' = [G EXCEPT !.step = "identity"]
    BY <1>5 DEF AdmitGrant, Gated
  <2> HIDE DEF G
  <2>3. DOMAIN G = LiveFields /\ G.text = live.text
    BY <2>1 DEF Admitted, LiveShape, Same, LiveFields
  <2>4. CASE live' = Close(live, "login_again")
    BY <1>0, <1>2, <2>4
  <2>5. CASE live' = Close(G, "") \/ live' = Close(G, "no_refresh")
    <3>1. live'.text = G.text
      BY <1>2, <2>3, <2>5
    <3> QED  BY <2>3, <3>1
  <2>6. CASE live' = [G EXCEPT !.step = "refresh"] \/ live' = [G EXCEPT !.step = "identity"]
    <3>1. live'.text = G.text
      BY <1>3, <2>3, <2>6
    <3> QED  BY <2>3, <3>1
  <2> QED  BY <2>2, <2>4, <2>5, <2>6
<1>6. ASSUME NEW why, live' = Close(live, why) PROVE live'.text = live.text
  BY <1>0, <1>2, <1>6
<1>7. ASSUME NEW step, live' = [live EXCEPT !.step = step] PROVE live'.text = live.text
  BY <1>0, <1>3, <1>7
<1> QED  BY <1>0, <1>1, <1>4, <1>5, <1>6, <1>7

(* The reads themselves are about the same text.                           *)
LEMMA TextWhileReading ==
    ASSUME LiveShape(live),
           \/ ReadMyTaskSummary \/ ReadMyMinutesSummary \/ ReadMyCalendarFreeBusy \/ ReadMyCalendarEvents
           \/ AppendOkrEvidence \/ AppendOkrSummaries \/ FinishLiveRead
           \/ \E source \in Sources \ {"okr"} : AppendEvidence(source)
    PROVE  live.step # "idle" /\ live'.text = live.text
<1>0. DOMAIN live = LiveFields
  BY DEF LiveShape
<1>1. ASSUME NEW tool, NEW source, NEW endpoints, NEW needsId, NEW summarised,
             AppendToolSummary(tool, source, endpoints, needsId, summarised),
             DOMAIN summarised = LiveFields, summarised.text = live.text
      PROVE  live.step # "idle" /\ live'.text = live.text
  BY <1>0, <1>1 DEF AppendToolSummary, NextJob, ToolsDone, LiveFields
<1>2. CASE ReadMyTaskSummary \/ ReadMyMinutesSummary \/ ReadMyCalendarFreeBusy \/ ReadMyCalendarEvents
  <2>1. /\ \A x : /\ DOMAIN [live EXCEPT !.tasks = x] = LiveFields /\ [live EXCEPT !.tasks = x].text = live.text
                  /\ DOMAIN [live EXCEPT !.minutes = x] = LiveFields /\ [live EXCEPT !.minutes = x].text = live.text
    BY <1>0 DEF LiveFields
  <2>2. CASE ReadMyTaskSummary
    BY <2>2, <2>1, <1>1 DEF ReadMyTaskSummary
  <2>3. CASE ReadMyMinutesSummary
    BY <2>3, <2>1, <1>1 DEF ReadMyMinutesSummary
  <2>4. CASE ReadMyCalendarFreeBusy
    BY <2>4, <1>0, <1>1 DEF ReadMyCalendarFreeBusy
  <2>5. CASE ReadMyCalendarEvents
    BY <2>5, <1>0, <1>1 DEF ReadMyCalendarEvents
  <2> QED  BY <1>2, <2>2, <2>3, <2>4, <2>5
<1>3. CASE AppendOkrEvidence
  BY <1>0, <1>3 DEF AppendOkrEvidence, NextJob, RefsDone, LiveFields
<1>4. CASE \E source \in Sources \ {"okr"} : AppendEvidence(source)
  BY <1>0, <1>4 DEF AppendEvidence, NextJob, RefsDone, LiveFields
<1>5. CASE AppendOkrSummaries
  BY <1>5, OkrSummariesEffect DEF Same, LiveFields
<1>6. CASE FinishLiveRead
  BY <1>0, <1>6 DEF FinishLiveRead, Close, LiveFields
<1> QED  BY <1>2, <1>3, <1>4, <1>5, <1>6

(* A read is about the text its request asks it for, from its start on.    *)
LEMMA TextStays ==
    ASSUME LiveShape(live), NEW request, IsList(request.refs), ReadSteps(request)
    PROVE  live'.text = LatestUserText(request) \/ (live.step # "idle" /\ live'.text = live.text)
<1>1. CASE StartLiveRead(request)
  <2> DEFINE l == Asked(request)
  <2>1. live' = Close(l, "") \/ live' = [l EXCEPT !.step = "resolve"]
    BY <1>1, StartEffect
  <2>2. DOMAIN l = LiveFields /\ l.text = LatestUserText(request)
    BY AskedFacts DEF LiveShape
  <2> HIDE DEF l
  <2> QED  BY <2>1, <2>2 DEF Close, LiveFields
<1> QED  BY <1>1, TextBeforeReading, TextWhileReading DEF ReadSteps

-----------------------------------------------------------------------------
(* What the model and the client are told of *)

(* The first place of every element of a list.                             *)
NewPlaces(seq) == {i \in DOMAIN seq : \A j \in 1 .. i - 1 : seq[j] # seq[i]}

(* The first m elements of a list at given places.                         *)
Picked(t, seq, S, m) ==
    /\ m \in Nat /\ m <= Cardinality(S) /\ IsList(t) /\ Len(t) = m /\ DOMAIN t = 1 .. m
    /\ \A k \in 1 .. m : Nth(S, k) \in S /\ Rank(S, Nth(S, k)) = k /\ t[k] = seq[Nth(S, k)]

(* The first n that differ are picked from the first places, and every     *)
(* first place of rank up to n is among them.                              *)
LEMMA FirstsPicked ==
    ASSUME NEW seq, IsList(seq), NEW n \in Nat
    PROVE  \E m \in Nat : /\ Picked(Take(Distinct(seq), n), seq, NewPlaces(seq), m) /\ m <= n
                          /\ m = n \/ m = Cardinality(NewPlaces(seq))
<1> DEFINE S == NewPlaces(seq)
           d == Kept(seq, S)
           c == Cardinality(S)
           m == IF c < n THEN c ELSE n
           t == Take(d, n)
<1>1. Len(seq) \in Nat /\ DOMAIN seq = 1 .. Len(seq)
  BY ListFacts
<1>2. S \in SUBSET DOMAIN seq /\ S \in SUBSET (1 .. Len(seq))
  BY <1>1 DEF NewPlaces
<1>3. Distinct(seq) = d
  BY DEF Distinct, NewPlaces
<1> HIDE DEF S
<1>4. IsList(d) /\ Len(d) = c /\ c \in Nat
  BY <1>2, ListKept
<1>5. \A k \in 1 .. c : Nth(S, k) \in S /\ Rank(S, Nth(S, k)) = k
  BY <1>1, <1>2, NthIsRanked
<1>6. \A k \in 1 .. c : d[k] = seq[Nth(S, k)]
  BY DEF Kept
<1> HIDE DEF d
<1>7. IsList(t) /\ Len(t) = m /\ \A k \in 1 .. Len(t) : t[k] = d[k]
  BY <1>4, TakeFacts
<1> HIDE DEF t
<1>8. DOMAIN t = 1 .. m
  BY <1>7, ListFacts
<1>9. m \in Nat /\ m <= c /\ m <= n /\ (m = n \/ m = c)
  BY <1>4
<1> HIDE DEF m, c
<1>10. \A k \in 1 .. m : k \in 1 .. c
  BY <1>9, <1>4
<1>11. \A k \in 1 .. m : t[k] = seq[Nth(S, k)]
  BY <1>6, <1>7, <1>10
<1>12. Picked(t, seq, S, m)
  BY <1>5, <1>7, <1>8, <1>9, <1>10, <1>11 DEF Picked, c
<1> QED  BY <1>3, <1>9, <1>12 DEF S, t, c

(* Every element of a list has a first place, no later than it.            *)
LEMMA FirstPlaceOf ==
    ASSUME NEW seq, IsList(seq), NEW p \in DOMAIN seq
    PROVE  \E q \in NewPlaces(seq) : q <= p /\ seq[q] = seq[p]
<1> DEFINE T == {i \in DOMAIN seq : seq[i] = seq[p]}
<1>1. Len(seq) \in Nat /\ DOMAIN seq = 1 .. Len(seq)
  BY ListFacts
<1>2. T \in SUBSET Nat /\ p \in T
  BY <1>1
<1>3. PICK q \in T : \A y \in T : q <= y
  <2> HIDE DEF T
  <2> QED  BY <1>2, LeastOf
<1>4. q \in DOMAIN seq /\ seq[q] = seq[p] /\ q <= p
  BY <1>2, <1>3
<1>5. \A j \in 1 .. q - 1 : seq[j] # seq[q]
  <2>1. ASSUME NEW j \in 1 .. q - 1, seq[j] = seq[q] PROVE FALSE
    <3>1. j \in T
      BY <1>1, <1>4, <2>1
    <3>2. q <= j /\ j <= q - 1 /\ q \in Nat /\ j \in Nat
      BY <1>1, <1>3, <1>4, <3>1
    <3> QED  BY <3>2
  <2> QED  BY <2>1
<1> QED  BY <1>4, <1>5 DEF NewPlaces

(* Keys that tell texts apart as texts do, and the texts of hidden reads   *)
(* as well as they can.                                                    *)
KeysOf(keys, texts, hidden) ==
    /\ IsList(keys) /\ IsList(texts) /\ DOMAIN keys = DOMAIN texts
    /\ \A i \in DOMAIN texts : keys[i].summary = texts[i]
    /\ \A i, j \in DOMAIN texts : texts[i] = texts[j] /\ texts[i] # hidden => keys[i] = keys[j]

(* The first place of a text is the first of its key, and, unless the text *)
(* is hidden, the other way round.                                         *)
LEMMA FirstsOfKeys ==
    ASSUME NEW keys, NEW texts, NEW hidden, KeysOf(keys, texts, hidden)
    PROVE  /\ NewPlaces(texts) \subseteq NewPlaces(keys)
           /\ \A p \in NewPlaces(keys) : texts[p] # hidden => p \in NewPlaces(texts)
<1>1. /\ DOMAIN keys = DOMAIN texts /\ Len(texts) \in Nat /\ DOMAIN texts = 1 .. Len(texts)
  BY ListFacts DEF KeysOf
<1>2. \A p \in DOMAIN texts : \A j \in 1 .. p - 1 : j \in DOMAIN texts
  BY <1>1
<1>3. ASSUME NEW p \in NewPlaces(texts) PROVE p \in NewPlaces(keys)
  <2>1. p \in DOMAIN texts /\ \A j \in 1 .. p - 1 : texts[j] # texts[p]
    BY DEF NewPlaces
  <2>2. \A j \in 1 .. p - 1 : keys[j] # keys[p]
    BY <1>2, <2>1 DEF KeysOf
  <2> QED  BY <1>1, <2>1, <2>2 DEF NewPlaces
<1>4. ASSUME NEW p \in NewPlaces(keys), texts[p] # hidden PROVE p \in NewPlaces(texts)
  <2>1. p \in DOMAIN texts /\ \A j \in 1 .. p - 1 : keys[j] # keys[p]
    BY <1>1 DEF NewPlaces
  <2>2. \A j \in 1 .. p - 1 : texts[j] # texts[p]
    BY <1>2, <1>4, <2>1 DEF KeysOf
  <2> QED  BY <2>1, <2>2 DEF NewPlaces
<1> QED  BY <1>3, <1>4

(* Of places, those of a part up to one are no more than all up to a later.*)
LEMMA RankOfPart ==
    ASSUME NEW n \in Nat, NEW B \in SUBSET (1 .. n), NEW A \in SUBSET B, NEW q \in A, NEW p \in B, q <= p
    PROVE  Rank(A, q) <= Rank(B, p)
<1> DEFINE a == {m \in A : m <= q}
           b == {m \in B : m <= p}
<1>1. IsFiniteSet(b) /\ Rank(A, q) = Cardinality(a) /\ Rank(B, p) = Cardinality(b)
  BY PlacesFinite DEF Rank
<1>2. a \in SUBSET b
  <2>1. \A m \in A : m \in Nat  OBVIOUS
  <2>2. \A m \in A : m <= q => m <= p
    BY <2>1
  <2> QED  BY <2>2
<1> HIDE DEF a, b
<1> QED  BY <1>1, <1>2, FS_Subset

(* The first texts that differ tell of every read that is among the first  *)
(* ones that differ, and if none of them is hidden, of exactly those.      *)
LEMMA DistinctTextsTell ==
    ASSUME NEW keys, NEW texts, KeysOf(keys, texts, HiddenSummary), NEW n \in Nat
    PROVE  ToldOfReads(Take(Distinct(keys), n), Take(Distinct(texts), n))
<1> DEFINE A == NewPlaces(texts)
           B == NewPlaces(keys)
           size == Len(texts)
           reads == Take(Distinct(keys), n)
           told == Take(Distinct(texts), n)
           text == [i \in DOMAIN reads |-> reads[i].summary]
<1>1. /\ IsList(keys) /\ IsList(texts) /\ size \in Nat /\ DOMAIN texts = 1 .. size
      /\ DOMAIN keys = DOMAIN texts /\ \A i \in DOMAIN texts : keys[i].summary = texts[i]
  BY ListFacts DEF KeysOf
<1>2. PICK r \in Nat : Picked(reads, keys, B, r) /\ (r = n \/ r = Cardinality(B)) /\ r <= n
  BY <1>1, FirstsPicked
<1>3. PICK t \in Nat : Picked(told, texts, A, t) /\ (t = n \/ t = Cardinality(A)) /\ t <= n
  BY <1>1, FirstsPicked
<1>4. A \subseteq B /\ \A p \in B : texts[p] # HiddenSummary => p \in A
  BY FirstsOfKeys
<1>5. B \in SUBSET (1 .. size) /\ A \in SUBSET (1 .. size)
  BY <1>1 DEF NewPlaces
<1>6. \A i \in 1 .. size : \E q \in A : q <= i /\ texts[q] = texts[i]
  BY <1>1, FirstPlaceOf
<1> HIDE DEF A, B, reads, told, size
<1>7. Cardinality(A) \in Nat /\ \A x : Rank(A, x) \in Nat /\ Rank(B, x) \in Nat
  BY <1>1, <1>5, PlacesFinite
<1>8. \A x \in A : Rank(A, x) \in 1 .. Cardinality(A) /\ Nth(A, Rank(A, x)) = x
  BY <1>1, <1>5, NthIsRanked
<1>9. ASSUME NEW x \in A, Rank(A, x) <= n PROVE Rank(A, x) \in 1 .. t /\ told[Rank(A, x)] = texts[x]
  <2>1. Rank(A, x) \in 1 .. t
    BY <1>3, <1>7, <1>8, <1>9
  <2> QED  BY <1>3, <1>8, <2>1 DEF Picked
<1>10. \A i \in 1 .. r : /\ Nth(B, i) \in B /\ Rank(B, Nth(B, i)) = i /\ i <= n
                         /\ reads[i].summary = texts[Nth(B, i)]
  <2>1. \A i \in 1 .. r : i <= n
    BY <1>2
  <2> QED  BY <1>1, <1>2, <1>5, <2>1 DEF Picked
<1>11. ASSUME NEW i \in 1 .. r PROVE \E k \in 1 .. t : told[k] = texts[Nth(B, i)]
  <2> DEFINE p == Nth(B, i)
  <2>1. p \in B /\ Rank(B, p) = i /\ i <= n
    BY <1>10
  <2> HIDE DEF p
  <2>0. p \in 1 .. size /\ i \in Nat
    <3>1. p \in 1 .. size
      BY <1>5, <2>1
    <3> QED  BY <3>1
  <2>2. PICK q \in A : q <= p /\ texts[q] = texts[p]
    BY <1>6, <2>0
  <2>3. Rank(A, q) <= Rank(B, p)
    BY <1>1, <1>4, <1>5, <2>1, <2>2, RankOfPart
  <2>4. Rank(A, q) <= n
    BY <1>7, <2>0, <2>1, <2>3
  <2> QED  BY <1>9, <2>2, <2>4 DEF p
<1>12. ASSUME \A k \in 1 .. t : told[k] # HiddenSummary PROVE text = told
  <2>1. \A i \in 1 .. r : Nth(B, i) \in A
    BY <1>4, <1>10, <1>11, <1>12
  <2>2. ASSUME NEW i \in 1 .. r PROVE i \in 1 .. t /\ told[i] = texts[Nth(B, i)]
    <3> DEFINE p == Nth(B, i)
    <3>1. p \in A /\ p \in B /\ Rank(B, p) = i /\ i <= n
      BY <1>10, <2>1
    <3> HIDE DEF p
    <3>0. i \in Nat /\ p \in Nat
      <4>1. p \in 1 .. size
        BY <1>5, <3>1
      <4> QED  BY <1>1, <4>1
    <3>2. ASSUME NEW m \in B, m <= p PROVE m \in A
      <4>1. Rank(B, m) <= Rank(B, p)
        BY <1>1, <1>5, <3>1, <3>2, RankOfPart
      <4>2. Rank(B, m) \in 1 .. Cardinality(B) /\ Nth(B, Rank(B, m)) = m
        BY <1>1, <1>5, NthIsRanked
      <4>3. Rank(B, m) \in 1 .. r
        BY <1>2, <1>7, <3>0, <3>1, <4>1, <4>2
      <4> QED  BY <2>1, <4>2, <4>3
    <3>3. {m \in A : m <= p} = {m \in B : m <= p}
      BY <1>4, <3>2
    <3>4. Rank(A, p) = i
      BY <3>1, <3>3 DEF Rank
    <3> QED  BY <1>9, <3>1, <3>4 DEF p
  <2>3. t <= r
    <3>1. IsFiniteSet(B) /\ Cardinality(B) \in Nat
      BY <1>1, <1>5, PlacesFinite
    <3>2. Cardinality(A) <= Cardinality(B)
      BY <1>4, <3>1, FS_Subset
    <3>3. t <= Cardinality(A)
      BY <1>3 DEF Picked
    <3> QED  BY <1>2, <1>3, <1>7, <3>1, <3>2, <3>3
  <2>4. r <= t
    <3>1. r # 0 => r \in 1 .. r
      BY <1>2
    <3>2. r # 0 => r \in 1 .. t
      BY <2>2, <3>1
    <3> QED  BY <1>2, <1>3, <3>2
  <2>5. r = t
    BY <1>2, <1>3, <2>3, <2>4
  <2>6. DOMAIN reads = 1 .. t /\ IsList(told) /\ Len(told) = t /\ DOMAIN told = 1 .. t
    BY <1>2, <1>3, <2>5 DEF Picked
  <2>7. \A i \in 1 .. t : reads[i].summary = told[i]
    BY <1>10, <2>2, <2>5
  <2>8. text = [i \in 1 .. t |-> told[i]]
    BY <2>6, <2>7 DEF text
  <2>9. told = [i \in 1 .. t |-> told[i]]
    <3>1. told \in [1 .. t -> ToSet(told)]
      BY <2>6, LenProperties DEF IsList
    <3> QED  BY <3>1
  <2> QED  BY <2>8, <2>9
<1>13. DOMAIN reads = 1 .. r /\ DOMAIN told = 1 .. t
  BY <1>2, <1>3 DEF Picked
<1>14. \A i \in 1 .. r : \E k \in 1 .. t : told[k] = reads[i].summary
  BY <1>10, <1>11
<1>15. (\A k \in 1 .. t : told[k] # HiddenSummary) => text = told
  BY <1>12
<1> QED  BY <1>13, <1>14, <1>15 DEF ToldOfReads, text, reads, told

(* A text that is not hidden names the tool and the state.                 *)
LEMMA SafeTextNames ==
    ASSUME NEW status, NEW i, NEW text, text = SafePromptContextText(status, i), text # HiddenSummary
    PROVE  text.tool = status.tool /\ text.state = status.state
BY DEF SafePromptContextText

(* Texts of reads tell apart what the client's keys do, unless hidden.     *)
LEMMA SummariesAreKeyed ==
    ASSUME NEW statuses, IsList(statuses)
    PROVE  KeysOf([i \in DOMAIN statuses |-> [tool |-> statuses[i].tool, state |-> statuses[i].state,
                                              summary |-> SafeTexts(statuses)[i]]],
                  SafeTexts(statuses), HiddenSummary)
<1> DEFINE n == Len(statuses)
           texts == SafeTexts(statuses)
           keys == [i \in DOMAIN statuses |-> [tool |-> statuses[i].tool, state |-> statuses[i].state,
                                               summary |-> texts[i]]]
<1>1. n \in Nat /\ DOMAIN statuses = 1 .. n
  BY ListFacts
<1>2. texts = [i \in 1 .. n |-> SafePromptContextText(statuses[i], i)]
  BY <1>1 DEF SafeTexts
<1> HIDE DEF texts, n
<1>3. /\ DOMAIN texts = 1 .. n /\ texts = [i \in 1 .. n |-> texts[i]]
      /\ \A i \in 1 .. n : texts[i] = SafePromptContextText(statuses[i], i)
  BY <1>2
<1>4. /\ DOMAIN keys = 1 .. n /\ keys = [i \in 1 .. n |-> keys[i]]
      /\ \A i \in 1 .. n : keys[i] = [tool |-> statuses[i].tool, state |-> statuses[i].state,
                                      summary |-> texts[i]]
  BY <1>1
<1> HIDE DEF keys
<1>5. IsList(keys) /\ IsList(texts)
  BY <1>1, <1>3, <1>4, ListOnInterval
<1>6. ASSUME NEW i \in 1 .. n, NEW j \in 1 .. n, texts[i] = texts[j], texts[i] # HiddenSummary
      PROVE  keys[i] = keys[j]
  <2>1. texts[i].tool = statuses[i].tool /\ texts[i].state = statuses[i].state
    BY <1>3, <1>6, SafeTextNames
  <2>2. texts[j].tool = statuses[j].tool /\ texts[j].state = statuses[j].state
    BY <1>3, <1>6, SafeTextNames
  <2> QED  BY <1>4, <1>6, <2>1, <2>2
<1>7. KeysOf(keys, texts, HiddenSummary)
  BY <1>3, <1>4, <1>5, <1>6 DEF KeysOf
<1> QED  BY <1>7 DEF keys, texts

(* The prompt tells of the reads the client is told of.                    *)
LEMMA PromptTells ==
    ASSUME NEW statuses, IsList(statuses)
    PROVE  ToldOfReads(AgentContextStatus(statuses, SafeTexts(statuses)), MakePrompt(SafeTexts(statuses)))
<1> DEFINE texts == SafeTexts(statuses)
           keys == [i \in DOMAIN statuses |-> [tool |-> statuses[i].tool, state |-> statuses[i].state,
                                               summary |-> texts[i]]]
<1>1. KeysOf(keys, texts, HiddenSummary)
  BY SummariesAreKeyed
<1>2. AgentContextStatus(statuses, texts) = Take(Distinct(keys), StatusLimit)
  BY DEF AgentContextStatus, SafeLiveReadStatuses
<1>3. MakePrompt(texts) = Take(Distinct(texts), StatusLimit)
  BY ConversationsAreTyped DEF MakePrompt, SafeContextSummaries
<1> HIDE DEF keys, texts
<1>4. ToldOfReads(Take(Distinct(keys), StatusLimit), Take(Distinct(texts), StatusLimit))
  BY <1>1, ConversationsAreTyped, DistinctTextsTell
<1>5. ToldOfReads(AgentContextStatus(statuses, texts), MakePrompt(texts))
  BY <1>2, <1>3, <1>4
<1> QED  BY <1>5 DEF texts

(* The model of every turn is told of the reads the turn reports.          *)
Told == ToldOfReads(turn.reads, turn.told)

(* No reads are told of by no texts.                                       *)
LEMMA NothingTold == ToldOfReads(<<>>, <<>>)
BY DEF ToldOfReads

(* At first.                                                               *)
LEMMA ToldInit == ASSUME Init PROVE Told
BY NothingTold DEF Init, NoTurn, Told

(* A turn whose model is chosen.                                           *)
Chosen(told, reads) ==
    turn' = [turn EXCEPT !.step = "opening", !.protocol = UserAgentRuntime,
                         !.asked = AskedOf(UserAgentRuntime, turn.request),
                         !.told = told, !.reads = reads]

(* The lists are made when the model is chosen and kept until a new turn.  *)
LEMMA ToldStep == ASSUME ReadInv, TurnShape, Told, [Next]_vars PROVE Told'
<1>1. DOMAIN turn = TurnFields /\ IsList(live.statuses)
  BY DEF TurnShape, ReadInv, LiveShape
<1>2. CASE turn'.told = turn.told /\ turn'.reads = turn.reads
  BY <1>2 DEF Told
<1>3. CASE Send
  <2>1. turn'.told = <<>> /\ turn'.reads = <<>>
    BY <1>3 DEF Send, NoTurn
  <2> QED  BY <2>1, NothingTold DEF Told
<1>4. CASE ChooseRuntime
  <2> DEFINE texts == SafeTexts(live.statuses)
             told == MakePrompt(texts)
             reads == AgentContextStatus(live.statuses, texts)
  <2>1. turn' = [turn EXCEPT !.step = "ended", !.http = "503"] \/ Chosen(told, reads)
    BY <1>4 DEF ChooseRuntime, Respond, Chosen
  <2>2. ToldOfReads(reads, told)
    BY <1>1, PromptTells
  <2> HIDE DEF told, reads
  <2>3. CASE Chosen(told, reads)
    <3>1. turn'.told = told /\ turn'.reads = reads
      BY <1>1, <2>3 DEF Chosen, TurnFields
    <3> QED  BY <2>2, <3>1 DEF Told
  <2>4. CASE turn' = [turn EXCEPT !.step = "ended", !.http = "503"]
    <3>1. turn'.told = turn.told /\ turn'.reads = turn.reads
      BY <1>1, <2>4 DEF TurnFields
    <3> QED  BY <1>2, <3>1
  <2> QED  BY <2>1, <2>3, <2>4
<1>5. ASSUME StreamResponse \/ OpenStream \/ StreamUpstreamEnds \/ ConnectionLost
      PROVE  turn'.told = turn.told /\ turn'.reads = turn.reads
  BY <1>1, <1>5 DEF StreamResponse, OpenStream, StreamUpstreamEnds, ConnectionLost, Respond, TurnFields
<1>6. ASSUME \/ InjectLiveFeishuContext \/ OthersAct \/ ReceiveResponse \/ ForwardSuccessfulStream
             \/ FlushScheduledText \/ StreamEnds \/ UNCHANGED vars
             \/ \E kind, piece : ForwardParsedSseFrame(kind, piece)
      PROVE  turn' = turn
  BY <1>6 DEF InjectLiveFeishuContext, OthersAct, ReceiveResponse, ForwardSuccessfulStream,
              FlushScheduledText, StreamEnds, vars, ForwardParsedSseFrame
<1> QED  BY <1>2, <1>3, <1>4, <1>5, <1>6 DEF Next, FacadeActs, ClientActs

-----------------------------------------------------------------------------
(* No reply is silently truncated *)

(* The shape of the client, of the answer and of the thread.               *)
ClientFields == {"sends", "stage", "error", "reads", "skills", "gathered", "shown", "scheduled"}
StreamShape ==
    /\ DOMAIN client = ClientFields /\ client.stage \in {"idle", "waiting", "receiving"}
    /\ IsList(client.gathered) /\ IsList(thread) /\ thread # <<>>
    /\ DOMAIN upstream = {"sent", "done", "broken", "left"} /\ IsList(upstream.sent)
    /\ upstream.done \in BOOLEAN /\ upstream.broken \in BOOLEAN

(* A client that has not ended its send has or will get every piece, and   *)
(* an error frame if the answer broke off.                                 *)
Delivered ==
    client.stage # "idle" => /\ Carried(upstream.sent, client.gathered, wire)
                             /\ upstream.broken = TRUE => HasError(wire)

(* The reply that is shown is the last message.                            *)
Reply(shown) == [role |-> "assistant", text |-> Flattened(shown)]
Replied == client.shown # <<>> => Last(thread) = Reply(client.shown)

(* Until the answer opens nothing is on its way.                           *)
Upfront == {"received", "reading", "opening"}
Unopened ==
    turn.step \in Upfront =>
        /\ client.stage = "waiting" /\ turn.http = "pending" /\ wire = <<>>
        /\ client.gathered = <<>> /\ client.reads = <<>>
        /\ upstream.sent = <<>> /\ upstream.done = FALSE /\ upstream.broken = FALSE

(* The client has, or gets first, the reads of the turn.                   *)
StatusFirst(frames) == frames # <<>> /\ frames[1].event = "context_status"
ReadsTold ==
    /\ client.stage = "receiving" => turn.http = "200"
    /\ client.stage # "idle" /\ turn.http = "200" => client.reads = turn.reads \/ StatusFirst(wire)

(* The request ends with a question, the read was made for it and the      *)
(* model is asked it.                                                      *)
Asks(asked, text) == Last(asked).role = "user" /\ text \subseteq Last(asked).text
Questioned ==
    /\ turn.step # "none" => EndsWithQuestion(turn.request.messages)
    /\ client.stage # "idle" => turn.step # "none"
    /\ live.step # "idle" => live.text = LatestUserText(turn.request)
    /\ turn.step = "opening" \/ turn.http = "200" => Asks(turn.asked, live.text)

(* The inductive invariant of the answer stream.                           *)
StreamInv ==
    /\ StreamShape /\ WireWell(wire, upstream.done, turn.reads) /\ Delivered /\ Replied
    /\ Unopened /\ ReadsTold /\ Questioned /\ NoSilentTruncation

(* An empty wire is well.                                                  *)
LEMMA EmptyWire == ASSUME NEW done, NEW told PROVE WireWell(<<>>, done, told)
BY NoList DEF WireWell

(* It holds at first.                                                      *)
LEMMA StreamInvInit == ASSUME Init PROVE StreamInv
<1>1. /\ thread = <<[role |-> "assistant", text |-> {"greeting"}]>>
      /\ client = NoClient /\ turn = NoTurn /\ wire = <<>> /\ upstream = NoAnswer /\ live = NotStarted
  BY DEF Init, ReadInit
<1>2. IsList(thread) /\ Len(thread) = 1 /\ IsList(<<>>)
  BY <1>1, OneMore, NoList
<1>3. thread # <<>>
  BY <1>2, ListFacts
<1>4. StreamShape
  BY <1>1, <1>2, <1>3 DEF StreamShape, NoClient, NoAnswer, ClientFields
<1>5. Delivered /\ Replied
  BY <1>1 DEF Delivered, Replied, NoClient
<1>6. Unopened /\ ReadsTold
  BY <1>1 DEF Unopened, ReadsTold, NoClient, NoTurn, Upfront
<1>7. Questioned
  BY <1>1 DEF Questioned, NoTurn, NoClient, NotStarted
<1>8. NoSilentTruncation
  <2>1. client.sends = 0
    BY <1>1 DEF NoClient
  <2>2. ~ (client.sends > 0)
    BY <2>1
  <2> QED  BY <2>2, Zenon DEF NoSilentTruncation
<1> QED  BY <1>1, <1>4, <1>5, <1>6, <1>7, <1>8, EmptyWire DEF StreamInv

(* Steps of others do not concern the stream.                              *)
LEMMA StreamStays ==
    ASSUME StreamInv, UNCHANGED <<thread, client, turn, wire, upstream, live>>
    PROVE  StreamInv'
BY DEF StreamInv, StreamShape, Delivered, Replied, Unopened, ReadsTold, Questioned, NoSilentTruncation

(* While the turn is before its answer only the turn and the read change.  *)
LEMMA StreamBefore ==
    ASSUME StreamInv, turn.step \in Upfront, UNCHANGED <<thread, client, wire, upstream>>,
           (turn'.step = "ended" /\ turn'.http # "200") \/ (turn'.step \in Upfront /\ turn'.http = turn.http),
           turn'.request = turn.request,
           live'.step # "idle" => live'.text = LatestUserText(turn.request),
           turn'.step = "opening" => Asks(turn'.asked, live'.text)
    PROVE  StreamInv'
<1>1. /\ client.stage = "waiting" /\ turn.http = "pending" /\ wire = <<>>
      /\ client.gathered = <<>> /\ client.reads = <<>>
      /\ upstream.sent = <<>> /\ upstream.done = FALSE /\ upstream.broken = FALSE
  BY DEF StreamInv, Unopened
<1>2. StreamShape' /\ Delivered' /\ Replied'
  BY DEF StreamInv, StreamShape, Delivered, Replied
<1>3. Unopened'
  BY <1>1 DEF Unopened, Upfront
<1>4. ReadsTold'
  BY <1>1 DEF ReadsTold, Upfront
<1>5. Questioned'
  <2>1. turn.step # "none"
    BY DEF Upfront
  <2>2. EndsWithQuestion(turn.request.messages)
    BY <2>1 DEF StreamInv, Questioned
  <2>3. turn'.step # "none" /\ turn'.http # "200"
    BY <1>1 DEF Upfront
  <2> QED  BY <1>1, <2>2, <2>3 DEF Questioned
<1>6. NoSilentTruncation'
  BY <1>1 DEF NoSilentTruncation
<1>7. WireWell(wire', upstream'.done, turn'.reads)
  BY <1>1, EmptyWire
<1> QED  BY <1>2, <1>3, <1>4, <1>5, <1>6, <1>7 DEF StreamInv

(* Authentication and the body.                                            *)
LEMMA StreamInvResponse ==
    ASSUME StreamInv, TurnShape, StreamResponse
    PROVE  StreamInv'
<1>1. DOMAIN turn = TurnFields /\ turn.step = "received"
  BY DEF TurnShape, StreamResponse
<1>2. /\ (turn'.step = "ended" /\ turn'.http # "200") \/ (turn'.step \in Upfront /\ turn'.http = turn.http)
      /\ turn'.request = turn.request /\ turn'.step # "opening"
  <2>1. (\E http \in {"503", "401", "400", "413"} : turn' = [turn EXCEPT !.step = "ended", !.http = http])
        \/ turn' = [turn EXCEPT !.step = "reading"]
    BY DEF StreamResponse, Respond
  <2> QED  BY <1>1, <2>1 DEF TurnFields, Upfront
<1>3. live' = live /\ UNCHANGED <<thread, client, wire, upstream>>
  BY DEF StreamResponse, readVars
<1>4. live.step # "idle" => live.text = LatestUserText(turn.request)
  BY DEF StreamInv, Questioned
<1>5. turn.step \in Upfront
  BY <1>1 DEF Upfront
<1> QED  BY <1>2, <1>3, <1>4, <1>5, StreamBefore

(* The live read.                                                          *)
LEMMA StreamInvRead ==
    ASSUME StreamInv, TurnShape, LiveShape(live), InjectLiveFeishuContext
    PROVE  StreamInv'
<1> DEFINE request == turn.request
<1>1. /\ turn.step = "reading" /\ ReadSteps(request)
      /\ UNCHANGED <<thread, client, turn, wire, upstream>>
  BY DEF InjectLiveFeishuContext
<1>2. IsList(request.refs)
  BY DEF TurnShape
<1>3. live.step # "idle" => live.text = LatestUserText(request)
  BY DEF StreamInv, Questioned
<1>4. turn.step \in Upfront /\ turn.step # "opening"
  BY <1>1 DEF Upfront
<1>5. live'.text = LatestUserText(request)
  <2> HIDE DEF request
  <2> QED  BY <1>1, <1>2, <1>3, TextStays
<1> QED  BY <1>1, <1>4, <1>5, StreamBefore

(* The model is asked the question.                                        *)
LEMMA StreamInvChoose ==
    ASSUME StreamInv, TurnShape, ChooseRuntime
    PROVE  StreamInv'
<1>1. DOMAIN turn = TurnFields /\ turn.step = "reading" /\ live.step = "done"
  BY DEF TurnShape, ChooseRuntime
<1>2. live' = live /\ UNCHANGED <<thread, client, wire, upstream>>
  BY DEF ChooseRuntime, readVars
<1>3. live.text = LatestUserText(turn.request) /\ EndsWithQuestion(turn.request.messages)
  BY <1>1 DEF StreamInv, Questioned
<1>4. /\ (turn'.step = "ended" /\ turn'.http # "200") \/ (turn'.step \in Upfront /\ turn'.http = turn.http)
      /\ turn'.request = turn.request
      /\ turn'.step = "opening" => turn'.asked = AskedOf(UserAgentRuntime, turn.request)
  <2>1. \/ turn' = [turn EXCEPT !.step = "ended", !.http = "503"]
        \/ \E told, reads : Chosen(told, reads)
    BY Zenon DEF ChooseRuntime, Respond, Chosen
  <2>2. CASE turn' = [turn EXCEPT !.step = "ended", !.http = "503"]
    BY <1>1, <2>2 DEF TurnFields
  <2>3. ASSUME NEW told, NEW reads, Chosen(told, reads)
        PROVE  /\ turn'.step = "opening" /\ turn'.http = turn.http /\ turn'.request = turn.request
               /\ turn'.asked = AskedOf(UserAgentRuntime, turn.request)
    BY <1>1, <2>3 DEF TurnFields, Chosen
  <2>4. "opening" \in Upfront
    BY DEF Upfront
  <2> QED  BY <2>1, <2>2, <2>3, <2>4
<1>5. Asks(AskedOf(UserAgentRuntime, turn.request), live.text)
  BY <1>3, QuestionIsAsked DEF Asks
<1>6. turn.step \in Upfront
  BY <1>1 DEF Upfront
<1> QED  BY <1>2, <1>3, <1>4, <1>5, <1>6, StreamBefore

(* What a frame is made of.                                                *)
LEMMA FrameFields ==
    ASSUME NEW event, NEW piece, NEW reads, NEW skills
    PROVE  LET f == Frame(event, piece, reads, skills)
           IN  f.event = event /\ f.piece = piece /\ f.reads = reads
BY DEF Frame

(* A wire with the status alone.                                           *)
LEMMA StatusWire ==
    ASSUME NEW f, f.event = "context_status", f.piece = {}, NEW done, NEW told, f.reads = told
    PROVE  /\ WireWell(<<f>>, done, told) /\ StatusFirst(<<f>>)
           /\ Carried(<<>>, <<>>, <<f>>)
<1> DEFINE w == <<f>>
<1>1. IsList(w) /\ Len(w) = 1 /\ w[1] = f /\ DOMAIN w = 1 .. 1
  BY OneMore
<1>2. IsList(<<>>)
  BY NoList
<1>3. w = Append(<<>>, f)
  <2>1. <<>> \o w = Append(<<>>, f) /\ <<>> \o w = w
    BY <1>1, <1>2, Regroup
  <2> QED  BY <2>1
<1> HIDE DEF w
<1>4. w # <<>>
  <2>1. w = <<>> <=> Len(w) = 0
    BY <1>1, ListFacts
  <2> QED  BY <1>1, <2>1
<1>5. \A i \in 1 .. 1 : i = 1
  OBVIOUS
<1>6. WireWell(w, done, told)
  BY <1>1, <1>5 DEF WireWell, FrameWell, Events
<1>7. Carried(<<>>, <<>>, w)
  BY <1>2, <1>3, NothingCarried, CarriedMore
<1> QED  BY <1>1, <1>4, <1>6, <1>7 DEF StatusFirst, w

(* The answer opens: what was read goes first.                             *)
LEMMA StreamInvOpen ==
    ASSUME StreamInv, TurnShape, OpenStream
    PROVE  StreamInv'
<1> DEFINE reads == turn.reads
           skills == ActivatedSkills(live.asked)
           f == Frame("context_status", {}, reads, skills)
<1>1. /\ turn.step = "opening" /\ DOMAIN turn = TurnFields
      /\ live' = live /\ UNCHANGED <<thread, client, upstream>>
  BY DEF OpenStream, TurnShape, readVars
<1>2. /\ client.stage = "waiting" /\ turn.http = "pending" /\ wire = <<>>
      /\ client.gathered = <<>> /\ client.reads = <<>>
      /\ upstream.sent = <<>> /\ upstream.done = FALSE /\ upstream.broken = FALSE
  BY <1>1 DEF StreamInv, Unopened, Upfront
<1>3. /\ Asks(turn.asked, live.text)
      /\ EndsWithQuestion(turn.request.messages)
      /\ live.step # "idle" => live.text = LatestUserText(turn.request)
  BY <1>1 DEF StreamInv, ReadsTold, Questioned
<1>4. reads = turn.reads
  OBVIOUS
<1>5. CASE (Respond("502") \/ Respond("503")) /\ UNCHANGED wire
  <2>1. turn'.step = "ended" /\ turn'.http # "200" /\ turn'.request = turn.request
    BY <1>1, <1>5 DEF Respond, TurnFields
  <2>2. turn.step \in Upfront
    BY <1>1 DEF Upfront
  <2> QED  BY <1>1, <1>3, <1>5, <2>1, <2>2, StreamBefore
<1>6. CASE /\ turn' = [turn EXCEPT !.step = "streaming", !.http = "200"]
           /\ wire' = IF reads = <<>> /\ skills = <<>> THEN <<>> ELSE <<f>>
  <2>1. /\ turn'.step = "streaming" /\ turn'.http = "200" /\ turn'.request = turn.request
        /\ turn'.asked = turn.asked /\ turn'.reads = turn.reads
    BY <1>1, <1>6 DEF TurnFields
  <2>2. /\ WireWell(wire', upstream.done, turn.reads)
        /\ Carried(<<>>, <<>>, wire')
        /\ turn.reads = <<>> \/ StatusFirst(wire')
    <3>1. f.event = "context_status" /\ f.piece = {} /\ f.reads = reads
      BY FrameFields
    <3> HIDE DEF f, reads, skills
    <3>2. WireWell(<<f>>, upstream.done, turn.reads) /\ StatusFirst(<<f>>) /\ Carried(<<>>, <<>>, <<f>>)
      BY <3>1, <1>4, StatusWire
    <3>3. (wire' = <<>> /\ reads = <<>>) \/ wire' = <<f>>
      BY <1>6
    <3> QED  BY <1>4, <3>2, <3>3, EmptyWire, NothingCarried
  <2>3. StreamShape' /\ Replied'
    BY <1>1 DEF StreamInv, StreamShape, Replied
  <2>4. Delivered'
    BY <1>1, <1>2, <2>2 DEF Delivered
  <2>5. Unopened'
    BY <2>1 DEF Unopened, Upfront
  <2>6. ReadsTold'
    BY <1>1, <1>2, <2>1, <2>2 DEF ReadsTold
  <2>7. Questioned'
    BY <1>1, <1>3, <2>1 DEF Questioned
  <2>8. NoSilentTruncation'
    BY <1>1, <1>2 DEF NoSilentTruncation
  <2> QED  BY <1>1, <2>1, <2>2, <2>3, <2>4, <2>5, <2>6, <2>7, <2>8 DEF StreamInv
<1> QED  BY <1>5, <1>6 DEF OpenStream

(* A frame is forwarded while the model service is not done: the wire      *)
(* stays well, and a client that waits for the answer will get it.         *)
LEMMA StreamInvForwarded ==
    ASSUME StreamInv, upstream.done = FALSE, turn.step = "streaming",
           UNCHANGED <<thread, client, live>>,
           turn'.step \in {"streaming", "ended"}, turn'.request = turn.request, turn'.http = turn.http,
           turn'.asked = turn.asked, turn'.reads = turn.reads,
           NEW f, f.event \in Events \ {"context_status"}, f.event # "delta" => f.piece = {},
           wire' = Append(wire, f),
           DOMAIN upstream' = {"sent", "done", "broken", "left"},
           upstream'.sent = Append(upstream.sent, f.piece)
             \/ (f.piece = {} /\ upstream'.sent = upstream.sent),
           upstream'.done \in BOOLEAN, f.event = "completed" => upstream'.done = TRUE,
           upstream'.broken \in BOOLEAN, upstream'.broken = TRUE => upstream.broken = TRUE \/ f.event = "error"
    PROVE  StreamInv'
<1>1. StreamShape /\ WireWell(wire, upstream.done, turn.reads) /\ IsList(wire) /\ IsList(upstream.sent)
  BY DEF StreamInv, WireWell, StreamShape
<1>2. /\ WireWell(wire', upstream'.done, turn.reads)
      /\ HasError(wire) \/ f.event = "error" => HasError(wire')
      /\ wire' # <<>> /\ (wire # <<>> => wire'[1] = wire[1])
  <2> DEFINE next == upstream'.done
             told == turn.reads
  <2>1. WireWell(wire, FALSE, told)
    BY <1>1
  <2>2. MayFollow(f, next)
    BY DEF MayFollow
  <2> HIDE DEF next, told
  <2>3. Extended(wire, f, next, told, Append(wire, f))
    BY <2>1, <2>2, WireMore
  <2>4. Extended(wire, f, next, told, wire')
    BY <2>3
  <2> QED  BY <2>4 DEF next, told, Extended
<1>3. StreamShape'
  <2>1. IsList(Append(upstream.sent, f.piece))
    BY <1>1, ListAppend
  <2> QED  BY <1>1, <2>1 DEF StreamShape
<1>4. Replied'
  BY DEF StreamInv, Replied
<1>5. Delivered'
  <2>1. ASSUME client.stage # "idle" PROVE Carried(upstream'.sent, client.gathered, wire')
    <3>1. Carried(upstream.sent, client.gathered, wire) /\ IsList(client.gathered)
      BY <1>1, <2>1 DEF StreamInv, Delivered, StreamShape
    <3>2. /\ Carried(Append(upstream.sent, f.piece), client.gathered, Append(wire, f))
          /\ f.piece = {} => Carried(upstream.sent, client.gathered, Append(wire, f))
      BY <1>1, <3>1, CarriedMore
    <3> QED  BY <3>2
  <2>2. ASSUME client.stage # "idle", upstream'.broken = TRUE PROVE HasError(wire')
    BY <1>2, <2>2 DEF StreamInv, Delivered
  <2> QED  BY <2>1, <2>2 DEF Delivered
<1>6. Unopened'
  BY DEF Unopened, Upfront
<1>7. ReadsTold'
  <2>1. StatusFirst(wire) => StatusFirst(wire')
    BY <1>2 DEF StatusFirst
  <2> QED  BY <2>1 DEF StreamInv, ReadsTold
<1>8. Questioned'
  BY DEF StreamInv, Questioned
<1>9. NoSilentTruncation'
  <2>1. ~ (client.sends > 0 /\ client.stage = "idle" /\ client.error = "")
    BY DEF StreamInv, NoSilentTruncation
  <2> QED  BY <2>1 DEF NoSilentTruncation
<1> QED  BY <1>2, <1>3, <1>4, <1>5, <1>6, <1>7, <1>8, <1>9 DEF StreamInv

(* An event of the model service: its frame, if it has one, is forwarded.  *)
LEMMA StreamInvEvent ==
    ASSUME StreamInv, NEW kind \in {"text", "done", "error", "ignored", "garbage"}, NEW piece,
           kind # "text" => piece = {}, ForwardParsedSseFrame(kind, piece)
    PROVE  StreamInv'
<1>1. /\ turn.step = "streaming" /\ ~upstream.done /\ wire' = wire \o FrameEvents(kind, piece)
      /\ live' = live /\ UNCHANGED <<thread, client, turn>>
  BY DEF ForwardParsedSseFrame, readVars
<1>2. /\ DOMAIN upstream' = {"sent", "done", "broken", "left"}
      /\ upstream'.sent = IF kind = "text" THEN Append(upstream.sent, piece) ELSE upstream.sent
      /\ upstream'.done \in BOOLEAN /\ (upstream'.done <=> kind = "done")
      /\ upstream'.broken \in BOOLEAN
      /\ (upstream'.broken <=> (upstream.broken \/ kind \in {"error", "garbage"}))
  BY DEF ForwardParsedSseFrame
<1>3. /\ StreamShape /\ WireWell(wire, upstream.done, turn.reads) /\ IsList(wire) /\ upstream.done = FALSE
      /\ upstream.broken \in BOOLEAN
  BY <1>1 DEF StreamInv, WireWell, StreamShape
<1>4. FrameEvents(kind, piece) = OpenaiFrameEvents(kind, piece)
  BY DEF FrameEvents, AnthropicFrameEvents
<1>5. ASSUME NEW f, wire' = wire \o <<f>>, f.event \in Events \ {"context_status"},
             f.event # "delta" => f.piece = {}, f.event = "completed" => kind = "done",
             kind = "text" => f.piece = piece, kind # "text" => f.piece = {},
             kind \in {"error", "garbage"} => f.event = "error"
      PROVE  StreamInv'
  <2>1. wire' = Append(wire, f)
    BY <1>3, <1>5, Regroup
  <2>2. upstream'.sent = Append(upstream.sent, f.piece) \/ (f.piece = {} /\ upstream'.sent = upstream.sent)
    BY <1>2, <1>5
  <2>3. f.event = "completed" => upstream'.done = TRUE
    BY <1>2, <1>5
  <2>4. upstream'.broken = TRUE => upstream.broken = TRUE \/ f.event = "error"
    BY <1>2, <1>3, <1>5
  <2>5. turn'.step \in {"streaming", "ended"}
    BY <1>1
  <2> QED  BY <1>1, <1>2, <1>3, <1>5, <2>1, <2>2, <2>3, <2>4, <2>5, StreamInvForwarded
<1>6. CASE kind = "text"
  <2> DEFINE f == Frame("delta", piece, <<>>, <<>>)
  <2>1. wire' = wire \o <<f>>
    BY <1>1, <1>4, <1>6 DEF OpenaiFrameEvents
  <2>2. f.event = "delta" /\ f.piece = piece
    BY FrameFields
  <2> HIDE DEF f
  <2>3. f.event \in Events \ {"context_status"}
    BY <2>2 DEF Events
  <2> QED  BY <1>5, <1>6, <2>1, <2>2, <2>3
<1>7. CASE kind = "done"
  <2> DEFINE f == Plain("completed")
  <2>1. wire' = wire \o <<f>>
    BY <1>1, <1>4, <1>7 DEF OpenaiFrameEvents
  <2>2. f.event = "completed" /\ f.piece = {}
    BY FrameFields DEF Plain
  <2> HIDE DEF f
  <2>3. f.event \in Events \ {"context_status"}
    BY <2>2 DEF Events
  <2> QED  BY <1>5, <1>7, <2>1, <2>2, <2>3
<1>8. CASE kind \in {"error", "garbage"}
  <2> DEFINE f == Plain("error")
  <2>1. wire' = wire \o <<f>>
    BY <1>1, <1>4, <1>8 DEF OpenaiFrameEvents
  <2>2. f.event = "error" /\ f.piece = {}
    BY FrameFields DEF Plain
  <2> HIDE DEF f
  <2>3. f.event \in Events \ {"context_status"}
    BY <2>2 DEF Events
  <2> QED  BY <1>5, <1>8, <2>1, <2>2, <2>3
<1>9. CASE kind = "ignored"
  <2>1. wire' = wire \o <<>>
    BY <1>1, <1>4, <1>9 DEF OpenaiFrameEvents
  <2>2. wire' = wire
    BY <1>3, <2>1, Regroup
  <2>3. upstream'.sent = upstream.sent /\ upstream'.done = upstream.done /\ upstream'.broken = upstream.broken
    BY <1>2, <1>3, <1>9
  <2>4. StreamShape'
    BY <1>1, <1>2, <1>3, <2>3 DEF StreamShape
  <2>5. Delivered' /\ Replied' /\ Unopened' /\ ReadsTold' /\ Questioned'
    BY <1>1, <2>2, <2>3 DEF StreamInv, Delivered, Replied, Unopened, ReadsTold, Questioned
  <2>6. NoSilentTruncation'
    <3>1. ~ (client.sends > 0 /\ client.stage = "idle" /\ client.error = "")
      BY <1>3 DEF StreamInv, NoSilentTruncation
    <3> QED  BY <1>1, <3>1 DEF NoSilentTruncation
  <2>7. WireWell(wire', upstream'.done, turn'.reads)
    BY <1>1, <1>3, <2>2, <2>3
  <2> QED  BY <2>4, <2>5, <2>6, <2>7 DEF StreamInv
<1> QED  BY <1>6, <1>7, <1>8, <1>9

(* The answer ends, or breaks off with an error frame.                     *)
LEMMA StreamInvUpstreamEnds ==
    ASSUME StreamInv, TurnShape, StreamUpstreamEnds
    PROVE  StreamInv'
<1>1. /\ turn.step = "streaming" /\ DOMAIN turn = TurnFields
      /\ live' = live /\ UNCHANGED <<thread, client>> /\ turn' = [turn EXCEPT !.step = "ended"]
  BY DEF StreamUpstreamEnds, readVars, TurnShape
<1>2. /\ turn'.step = "ended" /\ turn'.request = turn.request /\ turn'.http = turn.http
      /\ turn'.asked = turn.asked /\ turn'.reads = turn.reads /\ turn'.told = turn.told
  BY <1>1 DEF TurnFields
<1>3. CASE UNCHANGED <<wire, upstream>>
  <2>1. StreamShape' /\ Delivered' /\ Replied' /\ Unopened' /\ NoSilentTruncation'
    BY <1>1, <1>2, <1>3 DEF StreamInv, StreamShape, Delivered, Replied, Unopened, Upfront, NoSilentTruncation
  <2>2. ReadsTold' /\ Questioned'
    BY <1>1, <1>2, <1>3 DEF StreamInv, ReadsTold, Questioned
  <2>3. WireWell(wire', upstream'.done, turn'.reads)
    BY <1>2, <1>3 DEF StreamInv
  <2> QED  BY <2>1, <2>2, <2>3 DEF StreamInv
<1>4. CASE ~upstream.done /\ wire' = Append(wire, Plain("error")) /\ upstream' = [upstream EXCEPT !.broken = TRUE]
  <2> DEFINE f == Plain("error")
  <2>1. f.event = "error" /\ f.piece = {}
    BY FrameFields DEF Plain
  <2>2. wire' = Append(wire, f)
    BY <1>4
  <2> HIDE DEF f
  <2>3. DOMAIN upstream = {"sent", "done", "broken", "left"} /\ upstream.done = FALSE
    BY <1>4 DEF StreamInv, StreamShape
  <2>4. /\ DOMAIN upstream' = {"sent", "done", "broken", "left"} /\ upstream'.sent = upstream.sent
        /\ upstream'.done = FALSE /\ upstream'.broken = TRUE
    BY <1>4, <2>3
  <2>5. f.event \in Events \ {"context_status"} /\ turn'.step \in {"streaming", "ended"}
    BY <1>2, <2>1 DEF Events
  <2>6. /\ upstream'.done \in BOOLEAN /\ upstream'.broken \in BOOLEAN
        /\ (f.event = "completed" => upstream'.done = TRUE)
        /\ (upstream'.broken = TRUE => upstream.broken = TRUE \/ f.event = "error")
    BY <2>1, <2>4
  <2> QED  BY <1>1, <1>2, <2>1, <2>2, <2>3, <2>4, <2>5, <2>6, StreamInvForwarded
<1> QED  BY <1>3, <1>4 DEF StreamUpstreamEnds

(* A new send starts from nothing.                                         *)
LEMMA StreamInvSend ==
    ASSUME StreamInv, Send
    PROVE  StreamInv'
<1> DEFINE prompt == Head(prompts)
           question == [role |-> "user", text |-> prompt.text]
           msgs == Append(thread, question)
<1>1. /\ prompt.text # {} /\ thread' = msgs
      /\ client' = [NoClient EXCEPT !.sends = client.sends + 1, !.stage = "waiting"]
      /\ live' = NotStarted /\ wire' = <<>> /\ upstream' = [NoAnswer EXCEPT !.left = prompt.chunks]
  BY DEF Send
<1>2. turn' = [NoTurn EXCEPT !.step = "received",
                 !.request = [messages |-> Recent(msgs), context |-> prompt.context, refs |-> prompt.refs]]
  BY DEF Send, AgentStreamRequest, Recent
<1>3. IsList(thread)
  BY DEF StreamInv, StreamShape
<1>4. question.role = "user" /\ question.text = prompt.text
  OBVIOUS
<1> HIDE DEF prompt
<1>5. turn'.request.messages = Recent(msgs) /\ turn'.step = "received" /\ turn'.http = "pending"
  BY <1>2 DEF NoTurn
<1> HIDE DEF question
<1>6. IsList(msgs) /\ msgs # <<>> /\ Last(msgs) = question
  BY <1>3, LastAppended
<1> HIDE DEF msgs
<1>7. EndsWithQuestion(Recent(msgs))
  BY <1>1, <1>4, <1>6, RecentLast DEF EndsWithQuestion
<1>8. /\ client'.stage = "waiting" /\ client'.gathered = <<>> /\ client'.shown = <<>> /\ client'.reads = <<>>
      /\ DOMAIN client' = ClientFields
  BY <1>1 DEF NoClient, ClientFields
<1>9. /\ upstream'.sent = <<>> /\ upstream'.done = FALSE /\ upstream'.broken = FALSE
      /\ DOMAIN upstream' = {"sent", "done", "broken", "left"}
  BY <1>1 DEF NoAnswer
<1>10. live'.step = "idle"
  BY <1>1 DEF NotStarted
<1>11. StreamShape'
  BY <1>1, <1>6, <1>8, <1>9, NoList DEF StreamShape
<1>12. Delivered' /\ Replied'
  BY <1>1, <1>8, <1>9, NothingCarried DEF Delivered, Replied
<1>13. Unopened' /\ ReadsTold'
  BY <1>1, <1>5, <1>8, <1>9 DEF Unopened, ReadsTold
<1>14. Questioned'
  BY <1>5, <1>7, <1>10 DEF Questioned
<1>15. NoSilentTruncation'
  BY <1>8 DEF NoSilentTruncation
<1>16. WireWell(wire', upstream'.done, turn'.reads)
  BY <1>1, EmptyWire
<1> QED  BY <1>11, <1>12, <1>13, <1>14, <1>15, <1>16 DEF StreamInv

(* The reply that is shown ends the thread.                                *)
LEMMA ReplyIsLast ==
    ASSUME NEW msgs, IsList(msgs), msgs # <<>>, NEW before, NEW shown
    PROVE  /\ IsList(WithReply(msgs, before, shown)) /\ WithReply(msgs, before, shown) # <<>>
           /\ shown # <<>> => Last(WithReply(msgs, before, shown)) = Reply(shown)
<1> DEFINE r == Reply(shown)
           front == IF before = <<>> THEN msgs ELSE Front(msgs)
<1>1. IsList(front)
  BY FrontList
<1>2. WithReply(msgs, before, shown) = IF shown = <<>> THEN msgs ELSE Append(front, r)
  BY DEF WithReply, Reply
<1> HIDE DEF front, r
<1>3. IsList(Append(front, r)) /\ Append(front, r) # <<>> /\ Last(Append(front, r)) = r
  BY <1>1, LastAppended
<1> QED  BY <1>2, <1>3 DEF r

(* Showing what is gathered.                                               *)
LEMMA FlushFacts ==
    ASSUME NEW c, DOMAIN c = ClientFields, NEW f, f = FlushLatest(c)
    PROVE  /\ f.stage = c.stage /\ f.shown = c.gathered /\ f.gathered = c.gathered /\ f.reads = c.reads
           /\ DOMAIN f = ClientFields
BY DEF FlushLatest, ClientFields

(* A failure shows what is gathered, and keeps its error.                  *)
LEMMA FailFacts ==
    ASSUME NEW c, DOMAIN c = ClientFields, NEW error, NEW f, f = Fail(c, error)
    PROVE  f.stage = "idle" /\ f.error = error /\ f.gathered = c.gathered /\ DOMAIN f = ClientFields
<1> DEFINE g == FlushLatest(c)
<1>1. g.gathered = c.gathered /\ DOMAIN g = ClientFields
  BY FlushFacts
<1>2. f = [g EXCEPT !.stage = "idle", !.error = error]
  BY DEF Fail
<1> HIDE DEF g
<1> QED  BY <1>1, <1>2 DEF ClientFields

(* A send that is complete shows what is gathered; nothing is an error.    *)
LEMMA FinishFacts ==
    ASSUME NEW c, DOMAIN c = ClientFields, NEW f, f = Finish(c)
    PROVE  /\ f.stage = "idle" /\ f.shown = c.gathered /\ f.gathered = c.gathered
           /\ f.reads = c.reads /\ DOMAIN f = ClientFields
           /\ c.gathered = <<>> => f.error # ""
<1> DEFINE g == FlushLatest(c)
           error == IF c.gathered = <<>> THEN "invalidResponse" ELSE ""
<1>1. g.gathered = c.gathered /\ g.shown = c.gathered /\ g.reads = c.reads /\ DOMAIN g = ClientFields
  BY FlushFacts
<1>2. f = [g EXCEPT !.stage = "idle", !.error = error]
  BY DEF Finish
<1>3. c.gathered = <<>> => error # ""
  OBVIOUS
<1> HIDE DEF g, error
<1> QED  BY <1>1, <1>2, <1>3 DEF ClientFields

(* An error message.                                                       *)
IsError(error) == error # ""

(* A send that fails leaves one.                                           *)
LEMMA StreamInvFails ==
    ASSUME StreamInv, NEW error, IsError(error), Display(Fail(client, error)), client.stage # "idle",
           UNCHANGED <<upstream, live>>, WireWell(wire', upstream.done, turn.reads),
           turn'.step \notin Upfront, turn'.step # "none",
           turn'.http = turn.http, turn'.request = turn.request, turn'.asked = turn.asked, turn'.reads = turn.reads
    PROVE  StreamInv'
<1>1. StreamShape /\ DOMAIN client = ClientFields /\ IsList(thread) /\ thread # <<>>
  BY DEF StreamInv, StreamShape
<1>2. /\ client'.stage = "idle" /\ client'.error = error /\ client'.gathered = client.gathered
      /\ DOMAIN client' = ClientFields
  <2>1. client' = Fail(client, error)
    BY DEF Display
  <2> QED  BY <1>1, <2>1, FailFacts
<1>3. thread' = WithReply(thread, client.shown, client'.shown)
  BY DEF Display
<1>4. IsList(thread') /\ thread' # <<>> /\ (client'.shown # <<>> => Last(thread') = Reply(client'.shown))
  BY <1>1, <1>3, ReplyIsLast
<1>5. StreamShape'
  BY <1>1, <1>2, <1>4 DEF StreamShape
<1>6. Delivered' /\ Replied' /\ Unopened'
  BY <1>2, <1>4 DEF Delivered, Replied, Unopened
<1>7. ReadsTold'
  BY <1>2 DEF ReadsTold, Upfront
<1>8. Questioned'
  BY <1>2 DEF StreamInv, Questioned, Upfront
<1>9. NoSilentTruncation'
  <2>1. IsError(client'.error)
    BY <1>2
  <2> QED  BY <2>1 DEF NoSilentTruncation, IsError
<1>10. WireWell(wire', upstream'.done, turn'.reads)
  OBVIOUS
<1> QED  BY <1>5, <1>6, <1>7, <1>8, <1>9, <1>10 DEF StreamInv

(* A send that goes on.                                                    *)
LEMMA StreamInvGoesOn ==
    ASSUME StreamInv, NEW c, Display(c), client.stage # "idle", turn.step \notin Upfront,
           DOMAIN c = ClientFields, c.stage = "receiving", turn.http = "200", IsList(c.gathered),
           UNCHANGED <<upstream, live, turn>>, WireWell(wire', upstream.done, turn.reads),
           Carried(upstream.sent, c.gathered, wire'), upstream.broken = TRUE => HasError(wire'),
           c.reads = turn.reads \/ StatusFirst(wire')
    PROVE  StreamInv'
<1>1. StreamShape /\ IsList(thread) /\ thread # <<>> /\ client' = c
  BY DEF StreamInv, StreamShape, Display
<1>3. thread' = WithReply(thread, client.shown, client'.shown)
  BY DEF Display
<1>4. IsList(thread') /\ thread' # <<>> /\ (client'.shown # <<>> => Last(thread') = Reply(client'.shown))
  BY <1>1, <1>3, ReplyIsLast
<1>5. StreamShape'
  BY <1>1, <1>4 DEF StreamShape
<1>6. Delivered' /\ Replied' /\ Unopened'
  BY <1>1, <1>4 DEF Delivered, Replied, Unopened
<1>7. ReadsTold'
  BY <1>1 DEF ReadsTold, Upfront
<1>8. Questioned'
  BY <1>1 DEF StreamInv, Questioned
<1>9. NoSilentTruncation'
  BY <1>1 DEF NoSilentTruncation
<1>10. WireWell(wire', upstream'.done, turn'.reads)
  OBVIOUS
<1> QED  BY <1>5, <1>6, <1>7, <1>8, <1>9, <1>10 DEF StreamInv

(* The response arrives.                                                   *)
LEMMA StreamInvReceive ==
    ASSUME StreamInv, ReceiveResponse
    PROVE  StreamInv'
<1>1. /\ client.stage = "waiting" /\ turn.http # "pending" /\ live' = live
      /\ UNCHANGED <<turn, wire, upstream>>
  BY DEF ReceiveResponse, readVars
<1>2. /\ WireWell(wire, upstream.done, turn.reads) /\ turn.step \notin Upfront /\ turn.step # "none"
      /\ DOMAIN client = ClientFields /\ IsList(client.gathered)
      /\ Carried(upstream.sent, client.gathered, wire) /\ (upstream.broken = TRUE => HasError(wire))
  BY <1>1 DEF StreamInv, Unopened, Questioned, StreamShape, Delivered
<1>3. CASE turn.http = "200"
  <2> DEFINE c == [client EXCEPT !.stage = "receiving"]
  <2>1. Display(c)
    BY <1>3 DEF ReceiveResponse
  <2>2. /\ DOMAIN c = ClientFields /\ c.stage = "receiving" /\ c.gathered = client.gathered
        /\ c.reads = client.reads
    BY <1>2 DEF ClientFields
  <2> HIDE DEF c
  <2>3. client.reads = turn.reads \/ StatusFirst(wire)
    BY <1>1, <1>3 DEF StreamInv, ReadsTold
  <2> QED  BY <1>1, <1>2, <1>3, <2>1, <2>2, <2>3, StreamInvGoesOn
<1>4. CASE turn.http # "200"
  <2> DEFINE e == StreamError(turn.http)
  <2>1. Display(Fail(client, e))
    BY <1>4 DEF ReceiveResponse
  <2>2. IsError(e)
    BY DEF StreamError, IsError
  <2> HIDE DEF e
  <2> QED  BY <1>1, <1>2, <2>1, <2>2, StreamInvFails
<1> QED  BY <1>3, <1>4

(* What a client that receives knows of its stream.                        *)
Receiving ==
    /\ client.stage = "receiving" /\ turn.http = "200" /\ turn.step \notin Upfront /\ turn.step # "none"
    /\ DOMAIN client = ClientFields /\ IsList(client.gathered) /\ IsList(wire)
    /\ WireWell(wire, upstream.done, turn.reads) /\ Carried(upstream.sent, client.gathered, wire)
    /\ upstream.broken = TRUE => HasError(wire)
    /\ client.reads = turn.reads \/ StatusFirst(wire)
    /\ Asks(turn.asked, live.text)

(* It follows from the invariant.                                          *)
LEMMA ReceivingFacts == ASSUME StreamInv, client.stage = "receiving" PROVE Receiving
<1>1. turn.http = "200"
  BY DEF StreamInv, ReadsTold
<1>2. turn.step \notin Upfront
  BY DEF StreamInv, Unopened
<1>3. turn.step # "none" /\ Asks(turn.asked, live.text)
  BY <1>1 DEF StreamInv, Questioned
<1>4. DOMAIN client = ClientFields /\ IsList(client.gathered)
  BY DEF StreamInv, StreamShape
<1>5. WireWell(wire, upstream.done, turn.reads) /\ IsList(wire)
  BY DEF StreamInv, WireWell
<1>6. Carried(upstream.sent, client.gathered, wire) /\ (upstream.broken = TRUE => HasError(wire))
  BY DEF StreamInv, Delivered
<1>7. client.reads = turn.reads \/ StatusFirst(wire)
  BY <1>1 DEF StreamInv, ReadsTold
<1> QED  BY <1>1, <1>2, <1>3, <1>4, <1>5, <1>6, <1>7 DEF Receiving

(* The frame of a completion ends a whole answer.                          *)
LEMMA StreamInvCompletes ==
    ASSUME StreamInv, Told, Receiving, wire # <<>>, wire[1].event = "completed", wire' = Tail(wire),
           Display(Finish(client)), UNCHANGED <<upstream, live, turn>>
    PROVE  StreamInv'
<1>1. /\ WireWell(wire', upstream.done, turn.reads) /\ wire' = <<>>
      /\ FrameWell(wire, 1, upstream.done, turn.reads)
  <2>1. WireWell(wire, upstream.done, turn.reads)
    BY DEF Receiving
  <2> DEFINE done == upstream.done
             told == turn.reads
  <2> HIDE DEF done, told
  <2>2. WireWell(wire, done, told)
    BY <2>1 DEF done, told
  <2>3. WireWell(Tail(wire), done, told) /\ Tail(wire) = <<>> /\ FrameWell(wire, 1, done, told)
    BY <2>2, WireTaken
  <2> QED  BY <2>3 DEF done, told
<1>2. upstream.done = TRUE /\ wire[1].piece = {} /\ Len(wire) = 1
  BY <1>1 DEF FrameWell
<1>3. upstream.broken # TRUE
  <2>1. DOMAIN wire = 1 .. 1
    BY <1>2, ListFacts DEF Receiving
  <2>2. \A i \in 1 .. 1 : i = 1
    OBVIOUS
  <2>3. ~ HasError(wire)
    BY <2>1, <2>2 DEF HasError
  <2> QED  BY <2>3 DEF Receiving
<1>4. NonBlank(upstream.sent) = client.gathered
  <2>1. Carried(upstream.sent, client.gathered, wire) /\ IsList(client.gathered) /\ IsList(wire)
    BY DEF Receiving
  <2>2. Carried(upstream.sent, client.gathered, Tail(wire))
    BY <1>2, <2>1, CarriedTaken
  <2> QED  BY <1>1, <2>1, <2>2, NothingCarried
<1>5. client.reads = turn.reads
  BY DEF Receiving, StatusFirst
<1>6. StreamShape /\ DOMAIN client = ClientFields /\ IsList(thread) /\ thread # <<>>
  BY DEF StreamInv, StreamShape
<1>7. client' = Finish(client) /\ thread' = WithReply(thread, client.shown, client'.shown)
  BY DEF Display
<1>8. /\ client'.stage = "idle" /\ client'.shown = client.gathered /\ client'.gathered = client.gathered
      /\ client'.reads = client.reads /\ DOMAIN client' = ClientFields
      /\ client.gathered = <<>> => client'.error # ""
  BY <1>6, <1>7, FinishFacts
<1>9. IsList(thread') /\ thread' # <<>> /\ (client'.shown # <<>> => Last(thread') = Reply(client'.shown))
  BY <1>6, <1>7, ReplyIsLast
<1>10. StreamShape'
  BY <1>6, <1>8, <1>9 DEF StreamShape
<1>11. Delivered' /\ Replied' /\ Unopened' /\ ReadsTold'
  BY <1>8, <1>9 DEF Delivered, Replied, Unopened, ReadsTold, Receiving, Upfront
<1>12. Questioned'
  BY <1>8 DEF StreamInv, Questioned
<1>13. NoSilentTruncation'
  <2> SUFFICES ASSUME client'.error = ""
               PROVE  /\ upstream'.done /\ ~upstream'.broken
                      /\ client'.shown = NonBlank(upstream'.sent)
                      /\ Asks(turn'.asked, live'.text) /\ ToldOfReads(client'.reads, turn'.told)
                      /\ Last(thread') = Reply(client'.shown)
    BY DEF NoSilentTruncation, NonBlank, Worded, Asks, Reply
  <2>1. client.gathered # <<>>
    BY <1>8
  <2>2. upstream'.done /\ ~upstream'.broken
    BY <1>2, <1>3, <1>6 DEF StreamShape
  <2>3. Asks(turn'.asked, live'.text)
    BY DEF Receiving
  <2>4. ToldOfReads(client'.reads, turn'.told)
    BY <1>5, <1>8 DEF Told
  <2> QED  BY <1>4, <1>8, <1>9, <2>1, <2>2, <2>3, <2>4
<1> QED  BY <1>1, <1>10, <1>11, <1>12, <1>13 DEF StreamInv

(* One frame is taken from the wire.                                       *)
LEMMA StreamInvFrame ==
    ASSUME StreamInv, Told, ForwardSuccessfulStream
    PROVE  StreamInv'
<1> DEFINE frame == wire[1]
<1>1. /\ client.stage = "receiving" /\ wire # <<>> /\ wire' = Tail(wire)
      /\ live' = live /\ UNCHANGED <<turn, upstream>>
  BY DEF ForwardSuccessfulStream, readVars
<1>2. Receiving
  BY <1>1, ReceivingFacts
<1>3. /\ IsList(wire) /\ IsList(client.gathered) /\ WireWell(wire, upstream.done, turn.reads)
      /\ Carried(upstream.sent, client.gathered, wire) /\ DOMAIN client = ClientFields
  BY <1>2 DEF Receiving
<1>4. Head(wire) = frame
  BY <1>1, <1>3, ListFacts
<1>5. /\ WireWell(wire', upstream.done, turn.reads)
      /\ HasError(wire) /\ frame.event # "error" => HasError(wire')
      /\ FrameWell(wire, 1, upstream.done, turn.reads)
  <2> DEFINE done == upstream.done
             told == turn.reads
  <2> HIDE DEF done, told
  <2>1. WireWell(wire, done, told)
    BY <1>3 DEF done, told
  <2>2. /\ WireWell(Tail(wire), done, told)
        /\ HasError(wire) /\ wire[1].event # "error" => HasError(Tail(wire))
        /\ FrameWell(wire, 1, done, told)
    BY <1>1, <2>1, WireTaken
  <2> QED  BY <1>1, <2>2 DEF done, told
<1>6. /\ frame.piece = {} => Carried(upstream.sent, client.gathered, wire')
      /\ frame.piece # {} => Carried(upstream.sent, Append(client.gathered, frame.piece), wire')
  BY <1>1, <1>3, CarriedTaken
<1>7. /\ frame.event \in Events /\ (frame.event # "delta" => frame.piece = {})
      /\ frame.event = "context_status" => frame.reads = turn.reads
  BY <1>5 DEF FrameWell
<1>8. frame.event # "context_status" => client.reads = turn.reads
  BY <1>2 DEF Receiving, StatusFirst
<1>9. ASSUME NEW c, Display(c), DOMAIN c = ClientFields, c.stage = "receiving", IsList(c.gathered),
             Carried(upstream.sent, c.gathered, wire'), c.reads = turn.reads, frame.event # "error"
      PROVE  StreamInv'
  <2>1. upstream.broken = TRUE => HasError(wire')
    BY <1>2, <1>5, <1>9 DEF Receiving
  <2>2. client.stage # "idle" /\ turn.http = "200" /\ turn.step \notin Upfront
    BY <1>2 DEF Receiving
  <2> QED  BY <1>1, <1>5, <1>9, <2>1, <2>2, StreamInvGoesOn
<1>10. CASE frame.event = "context_status"
  <2> DEFINE c == [client EXCEPT !.reads = frame.reads, !.skills = frame.skills]
  <2>1. Display(c)
    BY <1>4, <1>10 DEF ForwardSuccessfulStream
  <2>2. /\ DOMAIN c = ClientFields /\ c.stage = "receiving" /\ c.gathered = client.gathered
        /\ c.reads = turn.reads
    BY <1>1, <1>3, <1>7, <1>10 DEF ClientFields
  <2> HIDE DEF c
  <2>3. Carried(upstream.sent, c.gathered, wire')
    BY <1>6, <1>7, <1>10, <2>2
  <2> QED  BY <1>3, <1>9, <1>10, <2>1, <2>2, <2>3
<1>11. CASE frame.event = "delta"
  <2>a. IF frame.piece = {} THEN UNCHANGED <<client, thread>>
        ELSE \E now \in BOOLEAN :
                LET c == [client EXCEPT !.gathered = Append(@, frame.piece)]
                IN  Display(IF now THEN FlushLatest(c) ELSE [c EXCEPT !.scheduled = TRUE])
    BY <1>4, <1>11 DEF ForwardSuccessfulStream
  <2>1. CASE frame.piece = {}
    <3>1. UNCHANGED <<client, thread>>
      BY <2>a, <2>1
    <3>2. Carried(upstream.sent, client.gathered, wire') /\ client.reads = turn.reads
      BY <1>6, <1>8, <1>11, <2>1
    <3>3. upstream.broken = TRUE => HasError(wire')
      BY <1>2, <1>5, <1>11 DEF Receiving
    <3>4. StreamShape' /\ Delivered' /\ Replied'
      BY <1>1, <3>1, <3>2, <3>3 DEF StreamInv, StreamShape, Delivered, Replied
    <3>5. Unopened' /\ ReadsTold'
      BY <1>1, <1>2, <3>1, <3>2 DEF Unopened, ReadsTold, Receiving, Upfront
    <3>6. Questioned' /\ NoSilentTruncation'
      BY <1>1, <3>1 DEF StreamInv, Questioned, NoSilentTruncation
    <3> QED  BY <1>1, <1>5, <3>4, <3>5, <3>6 DEF StreamInv
  <2>2. CASE frame.piece # {}
    <3> DEFINE c == [client EXCEPT !.gathered = Append(@, frame.piece)]
               late == [c EXCEPT !.scheduled = TRUE]
    <3>1. Display(FlushLatest(c)) \/ Display(late)
      BY <2>a, <2>2
    <3>2. /\ DOMAIN c = ClientFields /\ c.stage = "receiving" /\ c.reads = client.reads
          /\ c.gathered = Append(client.gathered, frame.piece)
      BY <1>1, <1>3 DEF ClientFields
    <3> HIDE DEF c
    <3>3. /\ DOMAIN late = ClientFields /\ late.stage = "receiving" /\ late.reads = client.reads
          /\ late.gathered = Append(client.gathered, frame.piece)
      BY <3>2 DEF ClientFields
    <3> HIDE DEF late
    <3> DEFINE f == FlushLatest(c)
    <3>4. /\ DOMAIN f = ClientFields /\ f.stage = "receiving" /\ f.reads = client.reads
          /\ f.gathered = Append(client.gathered, frame.piece)
      BY <3>2, FlushFacts
    <3>5. Display(f) \/ Display(late)
      BY <3>1
    <3> HIDE DEF f
    <3>6. IsList(Append(client.gathered, frame.piece))
      BY <1>3, ListAppend
    <3>7. Carried(upstream.sent, Append(client.gathered, frame.piece), wire') /\ client.reads = turn.reads
      BY <1>6, <1>8, <1>11, <2>2
    <3>8. frame.event # "error"
      BY <1>11
    <3> HIDE DEF frame
    <3>9. CASE Display(f)
      BY <1>9, <3>4, <3>6, <3>7, <3>8, <3>9
    <3>10. CASE Display(late)
      BY <1>9, <3>3, <3>6, <3>7, <3>8, <3>10
    <3> QED  BY <3>5, <3>9, <3>10
  <2> QED  BY <2>1, <2>2
<1>12. CASE frame.event = "completed"
  <2>1. Display(Finish(client))
    BY <1>4, <1>12 DEF ForwardSuccessfulStream
  <2> QED  BY <1>1, <1>2, <1>12, <2>1, StreamInvCompletes
<1>13. CASE frame.event = "error"
  <2> DEFINE e == "serverUnavailable"
  <2>1. Display(Fail(client, e)) /\ IsError(e)
    BY <1>4, <1>13 DEF ForwardSuccessfulStream, IsError
  <2> HIDE DEF e
  <2>2. client.stage # "idle" /\ turn.step \notin Upfront /\ turn.step # "none"
    BY <1>2 DEF Receiving
  <2> QED  BY <1>1, <1>5, <2>1, <2>2, StreamInvFails
<1> QED  BY <1>7, <1>10, <1>11, <1>12, <1>13 DEF Events

(* A flush shows what is gathered.                                         *)
LEMMA StreamInvFlush ==
    ASSUME StreamInv, FlushScheduledText
    PROVE  StreamInv'
<1> DEFINE f == FlushLatest(client)
<1>1. /\ client.stage = "receiving" /\ Display(f) /\ live' = live
      /\ UNCHANGED <<turn, wire, upstream>>
  BY DEF FlushScheduledText, readVars
<1>2. Receiving
  BY <1>1, ReceivingFacts
<1>3. DOMAIN client = ClientFields
  BY <1>2 DEF Receiving
<1>4. /\ DOMAIN f = ClientFields /\ f.stage = "receiving" /\ f.reads = client.reads
      /\ f.gathered = client.gathered
  BY <1>1, <1>3, FlushFacts
<1> HIDE DEF f
<1>5. /\ client.stage # "idle" /\ turn.step \notin Upfront /\ turn.http = "200" /\ IsList(f.gathered)
      /\ WireWell(wire', upstream.done, turn.reads) /\ Carried(upstream.sent, f.gathered, wire')
      /\ (upstream.broken = TRUE => HasError(wire')) /\ (f.reads = turn.reads \/ StatusFirst(wire'))
  BY <1>1, <1>2, <1>4 DEF Receiving
<1> QED  BY <1>1, <1>4, <1>5, StreamInvGoesOn

(* A stream that ends without a completion fails the send.                 *)
LEMMA StreamInvEnds ==
    ASSUME StreamInv, StreamEnds
    PROVE  StreamInv'
<1> DEFINE e == "invalidResponse"
<1>1. /\ client.stage = "receiving" /\ Display(Fail(client, e)) /\ live' = live
      /\ UNCHANGED <<turn, wire, upstream>>
  BY DEF StreamEnds, AtStreamEnd, readVars
<1>2. IsError(e)
  BY DEF IsError
<1> HIDE DEF e
<1>3. Receiving
  BY <1>1, ReceivingFacts
<1>4. /\ client.stage # "idle" /\ turn.step \notin Upfront /\ turn.step # "none"
      /\ WireWell(wire', upstream.done, turn.reads)
  BY <1>1, <1>3 DEF Receiving
<1> QED  BY <1>1, <1>2, <1>4, StreamInvFails

(* A connection that is lost fails the send.                               *)
LEMMA StreamInvLost ==
    ASSUME StreamInv, TurnShape, ConnectionLost
    PROVE  StreamInv'
<1> DEFINE e == "connection"
<1>1. /\ client.stage # "idle" /\ Display(Fail(client, e)) /\ live' = live
      /\ UNCHANGED upstream /\ wire' = <<>> /\ turn' = [turn EXCEPT !.step = "ended"]
  BY DEF ConnectionLost, readVars
<1>2. IsError(e)
  BY DEF IsError
<1> HIDE DEF e
<1>3. /\ turn'.step = "ended" /\ turn'.request = turn.request /\ turn'.http = turn.http
      /\ turn'.asked = turn.asked /\ turn'.reads = turn.reads
  BY <1>1 DEF TurnShape, TurnFields
<1>4. turn'.step \notin Upfront /\ turn'.step # "none"
  BY <1>3 DEF Upfront
<1>5. WireWell(wire', upstream.done, turn.reads)
  BY <1>1, EmptyWire
<1> QED  BY <1>1, <1>2, <1>3, <1>4, <1>5, StreamInvFails

(* Every step of the system keeps the invariant of the stream.             *)
LEMMA StreamInvStep == ASSUME ReadInv, TurnShape, StreamInv, Told, [Next]_vars PROVE StreamInv'
<1>1. CASE UNCHANGED vars
  <2>1. UNCHANGED <<thread, client, turn, wire, upstream, live>>
    BY <1>1 DEF vars, readVars
  <2> QED  BY <2>1, StreamStays
<1>2. CASE OthersAct
  <2>1. UNCHANGED <<thread, client, turn, wire, upstream, live>>
    BY <1>2 DEF OthersAct, OtherSteps, LoginAgain, LogoutElsewhere, GrantAges, RotatedElsewhere, Others
  <2> QED  BY <2>1, StreamStays
<1>3. CASE InjectLiveFeishuContext
  BY <1>3, StreamInvRead DEF ReadInv
<1>4. CASE \E piece \in Pieces : ForwardParsedSseFrame("text", piece)
  <2>1. PICK piece : ForwardParsedSseFrame("text", piece)
    BY <1>4
  <2> DEFINE kind == "text"
  <2>2. kind \in {"text", "done", "error", "ignored", "garbage"} /\ (kind # "text" => piece = {})
    OBVIOUS
  <2>3. ForwardParsedSseFrame(kind, piece)
    BY <2>1
  <2> HIDE DEF kind
  <2> QED  BY <2>2, <2>3, StreamInvEvent
<1>5. CASE \E kind \in {"done", "error", "ignored", "garbage"} : ForwardParsedSseFrame(kind, {})
  <2>1. PICK kind \in {"done", "error", "ignored", "garbage"} : ForwardParsedSseFrame(kind, {})
    BY <1>5
  <2>2. kind \in {"text", "done", "error", "ignored", "garbage"}
    OBVIOUS
  <2> DEFINE piece == {}
  <2>3. ForwardParsedSseFrame(kind, piece) /\ piece = {}
    BY <2>1
  <2> HIDE DEF piece
  <2> QED  BY <2>2, <2>3, StreamInvEvent
<1>6. CASE StreamResponse \/ ChooseRuntime \/ OpenStream \/ StreamUpstreamEnds
  BY <1>6, StreamInvResponse, StreamInvChoose, StreamInvOpen, StreamInvUpstreamEnds
<1>7. CASE Send \/ ReceiveResponse \/ ForwardSuccessfulStream \/ FlushScheduledText
           \/ StreamEnds \/ ConnectionLost
  BY <1>7, StreamInvSend, StreamInvReceive, StreamInvFrame, StreamInvFlush, StreamInvEnds, StreamInvLost
<1> QED  BY <1>1, <1>2, <1>3, <1>4, <1>5, <1>6, <1>7 DEF Next, FacadeActs, ClientActs

(* A reply that is left without an error message is the whole answer of a  *)
(* model that was asked the question and told every summary the user is    *)
(* shown (exactly those, unless one it was told is hidden), however long   *)
(* the answer, the conversation, the lists of reads and the channel.       *)
THEOREM NoReplyIsTruncated == Spec => []NoSilentTruncation
<1> DEFINE Inv == ReadInv /\ TurnShape /\ Told /\ StreamInv
<1>1. Init => Inv
  BY ReadInvInit, TurnShapeInit, ToldInit, StreamInvInit
<1>2. Inv /\ [Next]_vars => Inv'
  BY TurnStep, ToldStep, StreamInvStep
<1>3. Inv => NoSilentTruncation
  BY DEF StreamInv
<1> QED  BY <1>1, <1>2, <1>3, PTL DEF Spec
=============================================================================
