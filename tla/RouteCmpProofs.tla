--------------------------- MODULE RouteCmpProofs ---------------------------
(***************************************************************************)
(* A subscription is never matched with a publication it does not stand    *)
(* for, and misses none when its wildcards are unambiguous; the pointers   *)
(* stay inside the two strings, whatever the strings and their alphabet.   *)
(***************************************************************************)
EXTENDS RouteCmp, TLAPS

USE RoutesAreStrings

\* What has been scanned is matched: the first i - 1 characters of sub cut the
\* first j - 1 of pub.
Prefix(e) == /\ e \in [0..(i - 1) -> 0..(j - 1)]
             /\ IsCut(sub, pub, e, i - 1)
             /\ e[i - 1] = j - 1

\* The inductive invariant: the verdict is given when the prefixes are whole.
IInv == /\ TypeOK
        /\ pc = "scan" => \E e : Prefix(e)
        /\ MatchesAreGlobMatches

LEMMA Lengths ==
  ASSUME TypeOK
  PROVE  sub \in Seq(Char) /\ pub \in Seq(Char) /\ Len(sub) \in Nat /\ Len(pub) \in Nat
BY DEF TypeOK

\* One more piece, ending at v: the next literal, or a wildcard.
LEMMA Extend ==
  ASSUME TypeOK, NEW e, Prefix(e), i <= Len(sub),
         NEW v \in 0..Len(pub), j - 1 <= v,
         sub[i] # Star => v = j /\ pub[v] = sub[i]
  PROVE  \E f \in [0..i -> 0..v] : IsCut(sub, pub, f, i) /\ f[i] = v
<1> DEFINE f == [k \in 0..i |-> IF k = i THEN v ELSE e[k]]
<1>1. i \in 1..Len(sub) /\ j \in Nat \ {0} /\ Len(sub) \in Nat /\ Len(pub) \in Nat
  BY Lengths DEF TypeOK
<1>2. \A k \in 0..(i - 1) : f[k] = e[k] /\ e[k] \in 0..(j - 1)
  BY <1>1 DEF Prefix
<1>3. f[i] = v /\ e[i - 1] = j - 1
  BY <1>1 DEF Prefix
<1>4. f \in [0..i -> 0..v]
  <2>1. ASSUME NEW k \in 0..i PROVE (IF k = i THEN v ELSE e[k]) \in 0..v
    <3>1. CASE k = i
      BY <3>1
    <3>2. CASE k # i
      <4>1. k \in 0..(i - 1)
        BY <3>2, <1>1
      <4>2. e[k] \in 0..(j - 1)
        BY <4>1, <1>2
      <4> QED BY <4>2, <3>2, <1>1
    <3> QED BY <3>1, <3>2
  <2> QED BY <2>1
<1>5. f[0] = 0
  BY <1>1, <1>2 DEF Prefix, IsCut
<1>6. ASSUME NEW k \in 1..i
      PROVE  IF sub[k] = Star THEN f[k - 1] <= f[k]
                              ELSE f[k] = f[k - 1] + 1 /\ pub[f[k]] = sub[k]
  <2>1. CASE k = i
    BY <2>1, <1>1, <1>2, <1>3
  <2>2. CASE k # i
    <3>1. k \in 1..(i - 1) /\ k - 1 \in 0..(i - 1)
      BY <2>2, <1>1
    <3>2. f[k] = e[k] /\ f[k - 1] = e[k - 1]
      BY <3>1, <1>1, <1>2
    <3> QED BY <3>1, <3>2 DEF Prefix, IsCut
  <2> QED BY <2>1, <2>2
<1>7. IsCut(sub, pub, f, i)
  BY <1>5, <1>6 DEF IsCut
<1> QED BY <1>3, <1>4, <1>7

LEMMA InitInv == Init => IInv
<1> SUFFICES ASSUME Init PROVE IInv
  OBVIOUS
<1>1. TypeOK
  BY DEF Init, TypeOK
<1>2. Prefix([k \in {0} |-> 0])
  BY DEF Init, Prefix, IsCut
<1> QED BY <1>1, <1>2 DEF Init, IInv, MatchesAreGlobMatches

LEMMA NextInv == IInv /\ [Next]_vars => IInv'
<1> SUFFICES ASSUME IInv, [Next]_vars PROVE IInv'
  OBVIOUS
<1> USE DEF IInv
<1>0. sub \in Seq(Char) /\ pub \in Seq(Char) /\ Len(sub) \in Nat /\ Len(pub) \in Nat
      /\ i \in Nat \ {0} /\ j \in Nat \ {0}
  BY Lengths DEF TypeOK
<1>1. CASE UNCHANGED vars
  BY <1>1 DEF vars, TypeOK, Prefix, MatchesAreGlobMatches, Glob, IsCut
<1>2. CASE SkipWildcard
  <2>1. PICK m \in j..(Len(pub) + 1) : j' = m
    BY <1>2 DEF SkipWildcard
  <2>2. pc = "scan" /\ i <= Len(sub) /\ sub[i] = Star /\ i' = i + 1
        /\ sub' = sub /\ pub' = pub /\ pc' = "scan"
    BY <1>2 DEF SkipWildcard, BothLeft
  <2>3. TypeOK'
    BY <2>1, <2>2, <1>0 DEF TypeOK
  <2>4. PICK e : Prefix(e)
    BY <2>2
  <2>5. m - 1 \in 0..Len(pub) /\ j - 1 <= m - 1
    BY <1>0, <2>1
  <2>6. \E f \in [0..i -> 0..(m - 1)] : IsCut(sub, pub, f, i) /\ f[i] = m - 1
    BY <2>2, <2>4, <2>5, Extend
  <2>7. i' - 1 = i /\ j' - 1 = m - 1
    BY <1>0, <2>1, <2>2
  <2>8. \E f : Prefix(f)'
    BY <2>2, <2>6, <2>7 DEF Prefix, IsCut
  <2> QED BY <2>2, <2>3, <2>8 DEF MatchesAreGlobMatches
<1>3. CASE SameCharacter
  <2>1. pc = "scan" /\ i <= Len(sub) /\ j <= Len(pub) /\ sub[i] = pub[j]
        /\ i' = i + 1 /\ j' = j + 1 /\ sub' = sub /\ pub' = pub /\ pc' = "scan"
    BY <1>3 DEF SameCharacter, BothLeft
  <2>2. TypeOK'
    BY <2>1, <1>0 DEF TypeOK
  <2>3. PICK e : Prefix(e)
    BY <2>1
  <2>4. \E f \in [0..i -> 0..j] : IsCut(sub, pub, f, i) /\ f[i] = j
    BY <1>0, <2>1, <2>3, Extend
  <2>5. i' - 1 = i /\ j' - 1 = j
    BY <1>0, <2>1
  <2>6. \E f : Prefix(f)'
    BY <2>1, <2>4, <2>5 DEF Prefix, IsCut
  <2> QED BY <2>1, <2>2, <2>6 DEF MatchesAreGlobMatches
<1>4. CASE Finish
  <2>1. pc = "scan" /\ pc' \in {"matched", "unmatched"}
        /\ sub' = sub /\ pub' = pub /\ i' = i /\ j' = j
    BY <1>4 DEF Finish
  <2>2. TypeOK'
    BY <2>1 DEF TypeOK
  <2>3. ASSUME AtBothEnds PROVE Glob(sub, pub)
    <3>1. PICK e : Prefix(e)
      BY <2>1
    <3>2. j - 1 = Len(pub)
      BY <2>3, <1>0 DEF AtBothEnds, TypeOK
    <3>3. CASE i > Len(sub)
      <4>1. i - 1 = Len(sub)
        BY <3>3, <1>0 DEF TypeOK
      <4> QED BY <3>1, <3>2, <4>1 DEF Prefix, Glob
    <3>4. CASE i <= Len(sub)
      <4>1. sub[i] = Star /\ i = Len(sub)
        BY <3>4, <2>3, <1>0 DEF AtBothEnds, AfterLastStar
      <4>2. \E f \in [0..i -> 0..Len(pub)] : IsCut(sub, pub, f, i) /\ f[i] = Len(pub)
        BY <1>0, <3>1, <3>2, <4>1, Extend
      <4> QED BY <4>1, <4>2 DEF Glob
    <3> QED BY <3>3, <3>4, <1>0
  <2>4. MatchesAreGlobMatches'
    BY <2>1, <2>3, <1>4 DEF Finish, MatchesAreGlobMatches, Glob, IsCut
  <2> QED BY <2>1, <2>2, <2>4
<1> QED BY <1>1, <1>2, <1>3, <1>4 DEF Next

-----------------------------------------------------------------------------
\* The pointers never leave the strings (ducq.c:282-311).
THEOREM TypeCorrect == Spec => []TypeOK
<1>1. IInv => TypeOK
  BY DEF IInv
<1> QED BY <1>1, InitInv, NextInv, PTL DEF Spec

\* What ducq_route_cmp matches, the wildcard route stands for (ducq.c:289-311).
THEOREM Soundness == Spec => []MatchesAreGlobMatches
<1>1. IInv => MatchesAreGlobMatches
  BY DEF IInv
<1> QED BY <1>1, InitInv, NextInv, PTL DEF Spec

-----------------------------------------------------------------------------
(***************************************************************************)
(* The other direction: when the wildcards are unambiguous, a cut of the   *)
(* whole strings cuts where the pointers went.                             *)
(***************************************************************************)
Whole(e) == /\ e \in [0..Len(sub) -> 0..Len(pub)]
            /\ IsCut(sub, pub, e, Len(sub))
            /\ e[Len(sub)] = Len(pub)

OnlyChoice ==
  pc = "scan" /\ Unambiguous(sub, pub) => \A e : Whole(e) => e[i - 1] = j - 1

CompleteInv == TypeOK /\ MatchesAreGlobMatches /\ OnlyChoice /\ ExactWhenUnambiguous

\* What a cut says of its n-th piece
LEMMA Piece ==
  ASSUME TypeOK, NEW e, Whole(e), NEW n \in 1..Len(sub)
  PROVE  /\ e[n] \in Nat /\ e[n - 1] \in Nat /\ e[n] <= Len(pub) /\ e[n - 1] <= e[n]
         /\ sub[n] # Star => e[n] = e[n - 1] + 1 /\ pub[e[n]] = sub[n]
<1>1. Len(sub) \in Nat /\ Len(pub) \in Nat
  BY Lengths
<1>2. n \in 0..Len(sub) /\ n - 1 \in 0..Len(sub)
  BY <1>1
<1>3. e[n] \in 0..Len(pub) /\ e[n - 1] \in 0..Len(pub)
  BY <1>2 DEF Whole
<1>4. IF sub[n] = Star THEN e[n - 1] <= e[n] ELSE e[n] = e[n - 1] + 1 /\ pub[e[n]] = sub[n]
  BY DEF Whole, IsCut
<1> QED BY <1>1, <1>3, <1>4

LEMMA CompleteInit == Init => CompleteInv
<1> SUFFICES ASSUME Init PROVE CompleteInv
  OBVIOUS
<1>1. IInv
  BY InitInv
<1>2. OnlyChoice
  BY DEF Init, OnlyChoice, Whole, IsCut
<1> QED BY <1>1, <1>2 DEF CompleteInv, IInv, Init, ExactWhenUnambiguous

LEMMA CompleteNext ==
  CompleteInv /\ IInv' /\ [Next]_vars => CompleteInv'
<1> SUFFICES ASSUME CompleteInv, IInv', [Next]_vars PROVE CompleteInv'
  OBVIOUS
<1>1. /\ TypeOK /\ TypeOK' /\ MatchesAreGlobMatches' /\ OnlyChoice /\ ExactWhenUnambiguous
  BY DEF CompleteInv, IInv
<1>2. /\ Len(sub) \in Nat /\ Len(pub) \in Nat /\ i \in Nat \ {0} /\ j \in Nat \ {0}
      /\ i <= Len(sub) + 1 /\ j <= Len(pub) + 1
  BY <1>1, Lengths DEF TypeOK
<1>3. CASE UNCHANGED vars
  BY <1>1, <1>3 DEF vars, CompleteInv, OnlyChoice, Whole, ExactWhenUnambiguous, Unambiguous, Glob, IsCut
<1>4. CASE SkipWildcard
  <2>1. PICK m \in j..(Len(pub) + 1) : FirstStop(i + 1, m) /\ j' = m
    BY <1>4 DEF SkipWildcard
  <2>2. /\ pc = "scan" /\ i <= Len(sub) /\ sub[i] = Star /\ i' = i + 1
        /\ sub' = sub /\ pub' = pub /\ pc' = "scan"
    BY <1>4 DEF SkipWildcard, BothLeft
  <2>3. ASSUME Unambiguous(sub, pub), NEW e, Whole(e)
        PROVE  e[i] = m - 1
    <3>1. e[i - 1] = j - 1
      BY <1>1, <2>2, <2>3 DEF OnlyChoice
    <3>2. e[i] \in Nat /\ e[i] >= j - 1
      <4>1. i \in 1..Len(sub)
        BY <1>2, <2>2
      <4>2. e[i] \in Nat /\ e[i - 1] \in Nat /\ e[i - 1] <= e[i]
        BY <1>1, <2>3, <4>1, Piece
      <4> QED BY <3>1, <4>2
    <3>3. CASE i = Len(sub)
      <4>1. e[i] = Len(pub)
        BY <2>3, <3>3 DEF Whole
      <4>2. ~(m <= Len(pub))
        BY <1>2, <2>1, <3>3 DEF FirstStop, StopsAt
      <4>3. m = Len(pub) + 1
        BY <1>2, <2>1, <4>2
      <4> QED BY <1>2, <4>1, <4>3
    <3>4. CASE i # Len(sub)
      <4>1. i \in 1..(Len(sub) - 1) /\ i + 1 \in 1..Len(sub) /\ (i + 1) - 1 = i
        BY <1>2, <2>2, <3>4
      <4>2. /\ sub[i + 1] # Star
            /\ \A x, y \in 1..Len(pub) : pub[x] = sub[i + 1] /\ pub[y] = sub[i + 1] => x = y
        BY <2>2, <2>3, <4>1 DEF Unambiguous
      <4>3. PICK z : z = e[i + 1]
        OBVIOUS
      <4>4. z \in Nat /\ z <= Len(pub) /\ z = e[i] + 1 /\ pub[z] = sub[i + 1]
        BY <1>1, <2>3, <4>1, <4>2, <4>3, Piece
      <4>5. z >= j /\ z \in 1..Len(pub)
        BY <1>2, <3>2, <4>4
      <4>6. StopsAt(i + 1, z)
        BY <1>2, <4>1, <4>4 DEF StopsAt
      <4>7. ~(z \in j..(m - 1))
        BY <2>1, <4>6 DEF FirstStop
      <4>8. m \in Nat /\ m <= z
        BY <1>2, <2>1, <4>5, <4>7
      <4>9. m \in 1..Len(pub) /\ m <= Len(pub)
        BY <1>2, <2>1, <4>5, <4>8
      <4>10. pub[m] = sub[i + 1]
        BY <2>1, <4>9 DEF FirstStop, StopsAt
      <4>11. m = z
        BY <4>2, <4>4, <4>5, <4>9, <4>10
      <4> QED BY <3>2, <4>4, <4>8, <4>11
    <3> QED BY <3>3, <3>4
  <2>4. OnlyChoice'
    <3>1. i' - 1 = i /\ j' - 1 = m - 1
      BY <1>2, <2>1, <2>2
    <3> QED BY <2>2, <2>3, <3>1 DEF OnlyChoice, Whole, IsCut, Unambiguous
  <2> QED BY <1>1, <2>2, <2>4 DEF CompleteInv, ExactWhenUnambiguous
<1>5. CASE SameCharacter
  <2>1. /\ pc = "scan" /\ i <= Len(sub) /\ sub[i] # Star /\ i' = i + 1 /\ j' = j + 1
        /\ sub' = sub /\ pub' = pub /\ pc' = "scan"
    BY <1>5 DEF SameCharacter, BothLeft
  <2>2. ASSUME Unambiguous(sub, pub), NEW e, Whole(e)
        PROVE  e[i] = j
    <3>1. e[i - 1] = j - 1
      BY <1>1, <2>1, <2>2 DEF OnlyChoice
    <3>2. i \in 1..Len(sub)
      BY <1>2, <2>1
    <3>3. e[i] = e[i - 1] + 1
      BY <1>1, <2>1, <2>2, <3>2, Piece
    <3> QED BY <1>2, <3>1, <3>3
  <2>3. OnlyChoice'
    <3>1. i' - 1 = i /\ j' - 1 = j
      BY <1>2, <2>1
    <3> QED BY <2>1, <2>2, <3>1 DEF OnlyChoice, Whole, IsCut, Unambiguous
  <2> QED BY <1>1, <2>1, <2>3 DEF CompleteInv, ExactWhenUnambiguous
<1>6. CASE Finish
  <2>1. /\ pc = "scan" /\ pc' = IF AtBothEnds THEN "matched" ELSE "unmatched"
        /\ (BothLeft => sub[i] # Star /\ sub[i] # pub[j])
        /\ sub' = sub /\ pub' = pub /\ i' = i /\ j' = j
    BY <1>6 DEF Finish
  <2>2. ASSUME Unambiguous(sub, pub), Glob(sub, pub)
        PROVE  AtBothEnds
    <3>1. PICK e : Whole(e)
      BY <2>2 DEF Glob, Whole
    <3>2. e[i - 1] = j - 1
      BY <1>1, <2>1, <2>2, <3>1 DEF OnlyChoice
    <3>3. CASE i > Len(sub)
      <4>1. i - 1 = Len(sub)
        BY <1>2, <3>3
      <4>2. j - 1 = Len(pub)
        BY <3>1, <3>2, <4>1 DEF Whole
      <4>3. AfterLastStar = i
        BY <1>2, <3>3 DEF AfterLastStar
      <4> QED BY <1>2, <3>3, <4>2, <4>3 DEF AtBothEnds
    <3>4. CASE i <= Len(sub)
      <4>1. i \in 1..Len(sub)
        BY <1>2, <3>4
      <4>2. /\ e[i] \in Nat /\ e[i] <= Len(pub) /\ e[i - 1] <= e[i]
            /\ sub[i] # Star => e[i] = e[i - 1] + 1 /\ pub[e[i]] = sub[i]
        BY <1>1, <3>1, <4>1, Piece
      <4>3. sub[i] = Star
        <5> SUFFICES ASSUME sub[i] # Star PROVE FALSE
          OBVIOUS
        <5>1. e[i] = j /\ pub[j] = sub[i] /\ j <= Len(pub)
          BY <1>2, <3>2, <4>2
        <5> QED BY <2>1, <3>4, <5>1 DEF BothLeft
      <4>4. j > Len(pub)
        BY <1>2, <2>1, <3>4, <4>3 DEF BothLeft
      <4>5. i = Len(sub)
        <5> SUFFICES ASSUME i # Len(sub) PROVE FALSE
          OBVIOUS
        <5>1. i \in 1..(Len(sub) - 1) /\ i + 1 \in 1..Len(sub) /\ (i + 1) - 1 = i
          BY <1>2, <3>4
        <5>2. sub[i + 1] # Star
          BY <2>2, <4>3, <5>1 DEF Unambiguous
        <5>3. e[i + 1] = e[i] + 1 /\ e[i + 1] <= Len(pub)
          BY <1>1, <3>1, <5>1, <5>2, Piece
        <5> QED BY <1>2, <3>2, <4>2, <4>4, <5>3
      <4>6. AfterLastStar = i + 1
        BY <3>4, <4>3 DEF AfterLastStar
      <4> QED BY <1>2, <4>4, <4>5, <4>6 DEF AtBothEnds
    <3> QED BY <1>2, <3>3, <3>4
  <2>3. ExactWhenUnambiguous'
    <3>1. Glob(sub, pub)' <=> Glob(sub, pub)
      BY <2>1 DEF Glob, IsCut
    <3>2. Unambiguous(sub, pub)' <=> Unambiguous(sub, pub)
      BY <2>1 DEF Unambiguous
    <3> QED BY <1>1, <2>1, <2>2, <3>1, <3>2 DEF ExactWhenUnambiguous, MatchesAreGlobMatches
  <2> QED BY <1>1, <2>1, <2>3 DEF CompleteInv, OnlyChoice
<1> QED BY <1>3, <1>4, <1>5, <1>6 DEF Next

\* ducq_route_cmp misses no publication either when every wildcard but a final
\* one is followed by a character that the published route has at most once, so
\* that skipping to its first occurrence (ducq.c:294-297) is the only choice;
\* "prefix*" always is such a route.
THEOREM Completeness == Spec => []ExactWhenUnambiguous
<1>1. CompleteInv => ExactWhenUnambiguous
  BY DEF CompleteInv
<1> QED BY <1>1, InitInv, NextInv, CompleteInit, CompleteNext, PTL DEF Spec
=============================================================================
