------------------------------- MODULE GoMaps -------------------------------
(***************************************************************************)
(* Go maps and keyed tables: functions whose domain is a subset of the     *)
(* keys.                                                                   *)
(***************************************************************************)

Maps(Keys, Values) == UNION {[D -> Values] : D \in SUBSET Keys}

EmptyMap == [k \in {} |-> k]

\* m[k] = v
Put(m, k, v) == [j \in DOMAIN m \cup {k} |-> IF j = k THEN v ELSE m[j]]

\* for k, v := range n { m[k] = v }
PutAll(m, n) ==
    [k \in DOMAIN m \cup DOMAIN n |-> IF k \in DOMAIN n THEN n[k] ELSE m[k]]

\* delete(m, k)
Delete(m, k) == [j \in DOMAIN m \ {k} |-> m[j]]
=============================================================================
