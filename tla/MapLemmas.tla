----------------------------- MODULE MapLemmas -----------------------------
(***************************************************************************)
(* What Put and Delete do to the keyed maps and tables of GoMaps.      *)
(***************************************************************************)
EXTENDS GoMaps, Naturals, TLAPS

LEMMA MapsElim ==
    ASSUME NEW Keys, NEW Values, NEW m \in Maps(Keys, Values)
    PROVE  /\ DOMAIN m \subseteq Keys
           /\ m \in [DOMAIN m -> Values]
           /\ \A k \in DOMAIN m : m[k] \in Values
  BY DEF Maps

LEMMA MapsIntro ==
    ASSUME NEW Keys, NEW Values, NEW D \in SUBSET Keys, NEW m \in [D -> Values]
    PROVE  m \in Maps(Keys, Values)
  BY DEF Maps

LEMMA EmptyMapIsMap ==
    ASSUME NEW Keys, NEW Values
    PROVE  EmptyMap \in Maps(Keys, Values) /\ DOMAIN EmptyMap = {}
  <1>1. EmptyMap \in [{} -> Values] /\ {} \in SUBSET Keys
    BY DEF EmptyMap
  <1>2. EmptyMap \in Maps(Keys, Values)
    BY <1>1, MapsIntro
  <1>. QED
    BY <1>1, <1>2

LEMMA PutIsMap ==
    ASSUME NEW Keys, NEW Values, NEW m \in Maps(Keys, Values),
           NEW k \in Keys, NEW v \in Values
    PROVE  Put(m, k, v) \in Maps(Keys, Values)
  <1>1. Put(m, k, v) \in [DOMAIN m \cup {k} -> Values]
    BY MapsElim DEF Put
  <1>2. DOMAIN m \cup {k} \in SUBSET Keys
    BY MapsElim
  <1>. QED
    BY <1>1, <1>2, MapsIntro

LEMMA PutApply ==
    ASSUME NEW m, NEW k, NEW v
    PROVE  /\ DOMAIN Put(m, k, v) = DOMAIN m \cup {k}
           /\ Put(m, k, v)[k] = v
           /\ \A j \in DOMAIN m : j # k => Put(m, k, v)[j] = m[j]
  BY DEF Put

LEMMA DeleteIsMap ==
    ASSUME NEW Keys, NEW Values, NEW m \in Maps(Keys, Values), NEW k
    PROVE  /\ Delete(m, k) \in Maps(Keys, Values)
           /\ DOMAIN Delete(m, k) = DOMAIN m \ {k}
           /\ \A j \in DOMAIN m \ {k} : Delete(m, k)[j] = m[j]
  <1>1. Delete(m, k) \in [DOMAIN m \ {k} -> Values]
    BY MapsElim DEF Delete
  <1>2. DOMAIN m \ {k} \in SUBSET Keys
    BY MapsElim
  <1>3. Delete(m, k) \in Maps(Keys, Values)
    BY <1>1, <1>2, MapsIntro
  <1>. QED
    BY <1>3 DEF Delete
=============================================================================
