-------------------------------- MODULE Glob --------------------------------
(***************************************************************************)
(* glob_match of the registry (registry.rs), and what it should compute.   *)
(* Patterns and values are sequences of characters.                        *)
(***************************************************************************)
EXTENDS Naturals, Sequences

\* The position after the run of stars at i.
Skip(p, i) == CHOOSE n \in i + 1..Len(p) + 1 :
                /\ \A l \in i..n - 1 : p[l] = "*"
                /\ n > Len(p) \/ p[n] # "*"

\* glob_match: rec at pattern position i and value position j.  A run of stars is
\* one; a pattern that ends in it matches any rest.
GlobMatch(p, v) ==
  LET rec[i \in 1..Len(p) + 1] ==
        [j \in 1..Len(v) + 1 |->
          IF i > Len(p) THEN j > Len(v)
          ELSE IF p[i] = "*"
               THEN Skip(p, i) > Len(p) \/ \E k \in j..Len(v) + 1 : rec[Skip(p, i)][k]
          ELSE j <= Len(v) /\ p[i] = v[j] /\ rec[i + 1][j + 1]]
  IN  rec[1][1]

-----------------------------------------------------------------------------
\* A pattern matches a value exactly if the value can be cut into one piece for
\* each character of the pattern: any piece for a star, the character itself for
\* any other.
Cuts(p, v) == [0..Len(p) -> 0..Len(v)]
GlobReference(p, v) ==
  \E cut \in Cuts(p, v) :
    /\ cut[0] = 0 /\ cut[Len(p)] = Len(v)
    /\ \A i \in 1..Len(p) :
         IF p[i] = "*" THEN cut[i] >= cut[i - 1]
         ELSE cut[i] = cut[i - 1] + 1 /\ v[cut[i]] = p[i]
=============================================================================
