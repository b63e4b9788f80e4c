------------------------------ MODULE RouteCmp ------------------------------
(***************************************************************************)
(* ducq_route_cmp (ducq.c): does the route of a subscription, which may    *)
(* contain the wildcard '*', match the route of a publication?             *)
(*                                                                         *)
(* The two C strings are sequences of characters; the cursors i and j are  *)
(* the pointers the loop advances, 1-based, and Len + 1 is the terminating *)
(* NUL.  One step is one iteration of the while loop; Finish is the code   *)
(* after it.  The comparison never backtracks: a wildcard skips to the     *)
(* first occurrence of the character that follows it.                      *)
(***************************************************************************)
EXTENDS Integers, Sequences

CONSTANTS Char,   \* the characters
          Star,   \* the wildcard among them
          Subs,   \* the routes given as sub
          Pubs    \* the routes given as pub

ASSUME RoutesAreStrings == Subs \subseteq Seq(Char) /\ Pubs \subseteq Seq(Char)

VARIABLES sub,  \* the subscription's route
          pub,  \* the publication's route
          i,    \* the pointer into sub
          j,    \* the pointer into pub
          pc    \* "scan", then the verdict: "matched" or "unmatched"

vars == <<sub, pub, i, j, pc>>

Init == /\ sub \in Subs
        /\ pub \in Pubs
        /\ i = 1
        /\ j = 1
        /\ pc = "scan"

\* while(*sub && *pub)
BothLeft == i <= Len(sub) /\ j <= Len(pub)

\* strchrnull(pub, *sub) stops at m: at the end of pub, or at an occurrence of
\* the character sub[n] (which is NUL when the wildcard is the last character)
StopsAt(n, m) == m <= Len(pub) => n <= Len(sub) /\ pub[m] = sub[n]

FirstStop(n, m) == StopsAt(n, m) /\ \A l \in j..(m - 1) : ~StopsAt(n, l)

\* Mutant: the wildcard is never consumed.
SkipWildcardStays ==
  /\ pc = "scan"
  /\ BothLeft
  /\ sub[i] = Star
  /\ \E m \in j..(Len(pub) + 1) : FirstStop(i + 1, m) /\ j' = m
  /\ UNCHANGED <<sub, pub, i, pc>>

\* Mutant: the scan also swallows the character it was looking for.
SkipWildcardTooFar ==
  /\ pc = "scan"
  /\ BothLeft
  /\ sub[i] = Star
  /\ i' = i + 1
  /\ \E m \in j..(Len(pub) + 1) : FirstStop(i + 1, m) /\ j' = m + 1
  /\ UNCHANGED <<sub, pub, pc>>

SkipWildcard ==
  /\ pc = "scan"
  /\ BothLeft
  /\ sub[i] = Star
  /\ i' = i + 1
  /\ \E m \in j..(Len(pub) + 1) : FirstStop(i + 1, m) /\ j' = m
  /\ UNCHANGED <<sub, pub, pc>>

SameCharacter ==
  /\ pc = "scan"
  /\ BothLeft
  /\ sub[i] # Star
  /\ sub[i] = pub[j]
  /\ i' = i + 1
  /\ j' = j + 1
  /\ UNCHANGED <<sub, pub, pc>>

\* Mutant: a final wildcard is not skipped.
AfterLastStarIgnored == i

\* if(*sub == '*') sub++;
AfterLastStar == IF i <= Len(sub) /\ sub[i] = Star THEN i + 1 ELSE i

\* Mutant: what is left of the published route is ignored.
AtSubEnd == AfterLastStar > Len(sub)

\* return *sub == '\0' && *pub == '\0';
AtBothEnds == AfterLastStar > Len(sub) /\ j > Len(pub)

Finish ==
  /\ pc = "scan"
  /\ BothLeft => sub[i] # Star /\ sub[i] # pub[j]
  /\ pc' = IF AtBothEnds THEN "matched" ELSE "unmatched"
  /\ UNCHANGED <<sub, pub, i, j>>

Next == SkipWildcard \/ SameCharacter \/ Finish

\* the function is straight-line code: it keeps running until it returns
Spec == Init /\ [][Next]_vars /\ WF_vars(Next)

-----------------------------------------------------------------------------
\* What a wildcard route means: pattern s matches text t when t can be cut into
\* one piece per character of s, a literal's piece being that literal and a
\* wildcard's piece anything; e[k] is where the k-th piece ends.
IsCut(s, t, e, n) ==
  /\ e[0] = 0
  /\ \A k \in 1..n :
       IF s[k] = Star THEN e[k - 1] <= e[k]
                      ELSE e[k] = e[k - 1] + 1 /\ t[e[k]] = s[k]

Glob(s, t) ==
  \E e \in [0..Len(s) -> 0..Len(t)] :
     IsCut(s, t, e, Len(s)) /\ e[Len(s)] = Len(t)

\* Every wildcard but a final one is followed by a literal that t has at most
\* once: skipping to its first occurrence is then the only choice.
Unambiguous(s, t) ==
  \A k \in 1..(Len(s) - 1) : s[k] = Star =>
    /\ s[k + 1] # Star
    /\ \A x, y \in 1..Len(t) : t[x] = s[k + 1] /\ t[y] = s[k + 1] => x = y

\* The pointers stay inside the two strings, their NUL included: the loop and
\* the scan of strchrnull (ducq.c:282-311) never read past a terminator.
TypeOK == /\ sub \in Subs
          /\ pub \in Pubs
          /\ i \in 1..(Len(sub) + 1)
          /\ j \in 1..(Len(pub) + 1)
          /\ pc \in {"scan", "matched", "unmatched"}

\* A subscriber is never sent a publication its route does not stand for: when
\* ducq_route_cmp (ducq.c:289-311) answers true, the pattern matches the text.
MatchesAreGlobMatches == pc = "matched" => Glob(sub, pub)

\* ... and it misses none as long as the wildcards are unambiguous, which
\* "prefix*" always is.  An ambiguous one may be missed, "a*b" against "abb":
\* ducq.c:294-297 takes the first b and never reconsiders.
ExactWhenUnambiguous ==
  pc # "scan" /\ Unambiguous(sub, pub) => (pc = "matched" <=> Glob(sub, pub))

\* The comparison returns: every iteration of ducq.c:292-304 advances sub.
Returns == <>(pc # "scan")
=============================================================================
