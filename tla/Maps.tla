-------------------------------- MODULE Maps --------------------------------
(***************************************************************************)
(* Finite maps, as the C++ and C code uses std::map, std::unordered_map    *)
(* and BPF hash maps: functions whose domain is the set of keys present.   *)
(***************************************************************************)
EXTENDS Integers, FiniteSets, Sequences

\* The map with no key.
EmptyMap == [k \in {} |-> 0]

\* m[k], or the value operator[] would create there.
At(m, k, default) == IF k \in DOMAIN m THEN m[k] ELSE default

\* m after m[k] = v.
Put(m, k, v) == [x \in DOMAIN m \cup {k} |-> IF x = k THEN v ELSE m[x]]

\* m after m.erase(k) for every k in ks.
Erase(m, ks) == [x \in DOMAIN m \ ks |-> m[x]]

\* m after ++m[k].
Bump(m, k) == Put(m, k, At(m, k, 0) + 1)

Larger(a, b) == IF a > b THEN a ELSE b
Smaller(a, b) == IF a < b THEN a ELSE b

\* How many places of the sequence s satisfy Test.
CountWhere(s, Test(_)) == Cardinality({i \in DOMAIN s : Test(s[i])})
=============================================================================
