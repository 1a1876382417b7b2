-------------------------- MODULE MerkleRootProofs --------------------------
(***************************************************************************)
(* RootTellsRange for lists of any length of any hashes.                   *)
(***************************************************************************)
EXTENDS MerkleRoot, TLAPS

\* s is a list of n nodes.
IsLevel(s, n) ==
    /\ s = [i \in 1 .. n |-> s[i]]
    /\ Len(s) = n

LEMMA Halves ==
  ASSUME NEW n \in Nat \ {0}
  PROVE  /\ (n + 1) \div 2 \in Nat \ {0}
         /\ \A k \in 1 .. n : \E i \in 1 .. (n + 1) \div 2 :
                k = 2 * i - 1 \/ (k = 2 * i /\ 2 * i <= n)
<1>1. (n + 1) \div 2 \in Nat \ {0}
  OBVIOUS
<1>2. ASSUME NEW k \in 1 .. n
      PROVE  \E i \in 1 .. (n + 1) \div 2 : k = 2 * i - 1 \/ (k = 2 * i /\ 2 * i <= n)
  <2> DEFINE i == (k + 1) \div 2
  <2>1. i \in 1 .. (n + 1) \div 2 /\ (k = 2 * i - 1 \/ (k = 2 * i /\ 2 * i <= n))
    OBVIOUS
  <2> QED BY <2>1
<1> QED BY <1>1, <1>2

\* Two levels of one length have the same parents only if they are the same.
LEMMA ParentsInjective ==
  ASSUME NEW n \in Nat \ {0}, NEW s, NEW t, IsLevel(s, n), IsLevel(t, n),
         Parents(s) = Parents(t)
  PROVE  s = t
<1>1. ASSUME NEW k \in 1 .. n PROVE s[k] = t[k]
  <2>1. PICK i \in 1 .. (n + 1) \div 2 : k = 2 * i - 1 \/ (k = 2 * i /\ 2 * i <= n)
    BY Halves
  <2>2. Parents(s)[i] = Parents(t)[i]
    OBVIOUS
  <2>3. <<s[2 * i - 1], s[IF 2 * i <= n THEN 2 * i ELSE 2 * i - 1]>>
            = <<t[2 * i - 1], t[IF 2 * i <= n THEN 2 * i ELSE 2 * i - 1]>>
    BY <2>1, <2>2 DEF IsLevel, Parents
  <2> QED BY <2>1, <2>3
<1> QED BY <1>1 DEF IsLevel


LEMMA ListIsLevel ==
  ASSUME NEW s \in Lists
  PROVE  Len(s) \in Nat \ {0} /\ IsLevel(s, Len(s))
<1>1. s \in Seq(Leaves) /\ s # <<>>
  BY ListsOK
<1> QED BY <1>1 DEF IsLevel

LEMMA ParentsLevel ==
  ASSUME NEW n \in Nat \ {0}, NEW s, IsLevel(s, n)
  PROVE  IsLevel(Parents(s), (n + 1) \div 2)
<1> DEFINE m == (n + 1) \div 2
           t == Parents(s)
<1>1. m \in Nat
  BY Halves
<1>2. t = [i \in 1 .. m |-> t[i]]
  BY DEF IsLevel, Parents
<1>3. t \in Seq({t[i] : i \in 1 .. m})
  <2> HIDE DEF t, m
  <2>1. [i \in 1 .. m |-> t[i]] \in Seq({t[i] : i \in 1 .. m})
    BY <1>1
  <2> QED BY <1>2, <2>1
<1>4. DOMAIN t = 1 .. m
  BY <1>2
<1>5. Len(t) = m
  <2> HIDE DEF t, m
  <2> QED BY <1>1, <1>3, <1>4
<1> QED BY <1>2, <1>5 DEF IsLevel

LevelInv ==
    /\ RootTellsRange
    /\ \E n \in Nat \ {0} : \A x \in Sides : IsLevel(levels[x], n)

LEMMA LevelInit == Init => LevelInv
<1> SUFFICES ASSUME Init PROVE LevelInv
  OBVIOUS
<1>1. /\ levels["anchored"] \in Lists /\ levels["local"] \in Lists
      /\ Len(levels["anchored"]) = Len(levels["local"])
  BY DEF Init, Sides
<1>2. \A x \in Sides : IsLevel(levels[x], Len(levels["anchored"]))
  BY <1>1, ListIsLevel DEF Sides
<1>3. Len(levels["anchored"]) \in Nat \ {0}
  BY <1>1, ListIsLevel
<1> QED BY <1>2, <1>3 DEF LevelInv, RootTellsRange, Init

LEMMA LevelStep == LevelInv /\ [Climb]_vars => LevelInv'
<1> SUFFICES ASSUME LevelInv, [Climb]_vars PROVE LevelInv'
  OBVIOUS
<1>1. CASE UNCHANGED vars
  BY <1>1 DEF vars, LevelInv, RootTellsRange
<1>2. CASE Climb
  <2>1. PICK n \in Nat \ {0} : \A x \in Sides : IsLevel(levels[x], n)
    BY DEF LevelInv
  <2>2. \A x \in Sides : levels'[x] = Parents(levels[x])
    BY <1>2 DEF Climb
  <2>3. \A x \in Sides : IsLevel(levels'[x], (n + 1) \div 2)
    BY <2>1, <2>2, ParentsLevel
  <2>4. (n + 1) \div 2 \in Nat \ {0}
    BY Halves
  <2>5. levels'["anchored"] = levels'["local"] <=> levels["anchored"] = levels["local"]
    BY <2>1, <2>2, ParentsInjective DEF Sides
  <2>6. RootTellsRange'
    BY <1>2, <2>5 DEF LevelInv, RootTellsRange, Climb
  <2> QED BY <2>3, <2>4, <2>6 DEF LevelInv
<1> QED BY <1>1, <1>2

\* Two ranges of one length have one Merkle root only if they are the same,
\* whatever the length and wherever odd levels occur.
THEOREM RootTheorem == Spec => []RootTellsRange
<1>1. LevelInv => RootTellsRange
  BY DEF LevelInv
<1> QED BY <1>1, LevelInit, LevelStep, PTL DEF Spec

=============================================================================
