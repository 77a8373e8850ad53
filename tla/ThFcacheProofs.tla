---------------------------- MODULE ThFcacheProofs ----------------------------
(***************************************************************************)
(* For every set of names, blocks and responses, every capacity and any    *)
(* number of lost references: the reference counts of th_fcache.c are      *)
(* exact and its map never leads to a freed entry.                         *)
(***************************************************************************)
EXTENDS ThFcache, FiniteSetTheorems, SequenceTheorems, TLAPS

Maps == UNION {[D -> Blocks] : D \in SUBSET Names}

Caches ==
  [map : Maps, list : Seq(Blocks), num : Int, refs : [Blocks -> Nat],
   name : [Blocks -> Names \union {Nothing}], stale : SUBSET Blocks, broken : BOOLEAN]

(* References to entries from outside the list.                            *)
Counts == [Blocks -> Nat]
Outside ==
  [e \in Blocks |-> Cardinality({r \in Responses : held[r] = e}) + lost[e]]
More(h, e) == [h EXCEPT ![e] = @ + 1]

(* The cache c accounts for its list and the references h.                 *)
Refs(c, h) == \A e \in Blocks : c.refs[e] = h[e] + (IF Listed(c, e) THEN 1 ELSE 0)
Slots(c) == \A n \in DOMAIN c.map : Live(c, c.map[n]) /\ c.name[c.map[n]] = n
Fit(c, h) == ~c.broken => Refs(c, h) /\ Slots(c) /\ IsInjective(c.list)

NumFits(c) == ~c.broken => c.num = Len(c.list) /\ c.num <= MaxCached

Typed ==
  /\ cache \in Caches
  /\ held \in [Responses -> Blocks \union {Nothing}]
  /\ lost \in [Blocks -> 0 .. MaxLost]
  /\ over \in BOOLEAN

IInv ==
  /\ Typed
  /\ Fit(cache, Outside)
  /\ ~cache.broken => cache.num \in 0 .. MaxCached
  /\ ~over => NumFits(cache)

-----------------------------------------------------------------------------
LEMMA MapsDef ==
  ASSUME NEW m \in Maps
  PROVE  /\ DOMAIN m \subseteq Names
         /\ \A n \in DOMAIN m : m[n] \in Blocks
BY DEF Maps

(* An element is taken out of a list.                                      *)
LEMMA RemoveOne ==
  ASSUME NEW S, NEW q \in Seq(S), NEW i \in 1 .. Len(q),
         NEW r, r = RemoveAt(q, i), NEW e, e = q[i]
  PROVE  /\ r \in Seq(S)
         /\ ToSet(r) \subseteq ToSet(q)
         /\ Len(r) = Len(q) - 1
         /\ IsInjective(q) => IsInjective(r) /\ ToSet(r) = ToSet(q) \ {e}
<1> DEFINE a == SubSeq(q, 1, i - 1)
           b == SubSeq(q, i + 1, Len(q))
<1>1. Len(q) \in Nat /\ DOMAIN q = 1 .. Len(q) /\ \A j \in 1 .. Len(q) : q[j] \in S
  OBVIOUS
<1>2. i \in 1 .. Len(q) /\ q[i] = e
  OBVIOUS
<1>3. r = a \o b
  BY DEF RemoveAt
<1>4. /\ a \in Seq(S) /\ Len(a) = i - 1
      /\ \A j \in 1 .. i - 1 : a[j] = q[j]
  BY <1>1, <1>2
<1>5. /\ b \in Seq(S) /\ Len(b) = Len(q) - i
      /\ \A j \in 1 .. Len(q) - i : b[j] = q[j + i]
  <2>1. b \in Seq(S) /\ Len(b) = IF i + 1 <= Len(q) THEN Len(q) - (i + 1) + 1 ELSE 0
    BY <1>1, <1>2, SubSeqProperties
  <2>2. \A j \in 1 .. Len(q) - (i + 1) + 1 : b[j] = q[(i + 1) + j - 1]
    BY <1>1, <1>2, SubSeqProperties
  <2> HIDE DEF b
  <2>3. ASSUME NEW j \in 1 .. Len(q) - i PROVE b[j] = q[j + i]
    <3>1. j \in 1 .. Len(q) - (i + 1) + 1 /\ (i + 1) + j - 1 = j + i
      BY <1>1, <1>2
    <3>2. QED
      BY <2>2, <3>1
  <2>4. Len(b) = Len(q) - i
    <3>1. CASE i + 1 <= Len(q)
      BY <1>1, <1>2, <2>1, <3>1
    <3>2. CASE i = Len(q)
      BY <1>1, <1>2, <2>1, <3>2
    <3>3. Len(q) \in Int /\ i \in Int /\ i <= Len(q)
      BY <1>1, <1>2
    <3>4. i + 1 <= Len(q) \/ i = Len(q)
      BY <3>3
    <3>5. QED
      BY <3>1, <3>2, <3>4
  <2>5. b \in Seq(S)
    BY <2>1
  <2>6. \A j \in 1 .. Len(q) - i : b[j] = q[j + i]
    BY <2>3
  <2>7. QED
    BY <2>4, <2>5, <2>6
<1> HIDE DEF a, b
<1>6. /\ r \in Seq(S) /\ Len(r) = Len(q) - 1 /\ DOMAIN r = 1 .. Len(q) - 1
      /\ \A j \in 1 .. Len(q) - 1 : r[j] = IF j < i THEN q[j] ELSE q[j + 1]
  <2>1. /\ r \in Seq(S) /\ Len(r) = Len(a) + Len(b)
        /\ \A j \in 1 .. Len(a) + Len(b) :
             r[j] = IF j <= Len(a) THEN a[j] ELSE b[j - Len(a)]
    <3>1. a \in Seq(S) /\ b \in Seq(S)
      BY <1>4, <1>5
    <3>2. QED
      BY <1>3, <3>1, ConcatProperties
  <2>2. Len(a) + Len(b) = Len(q) - 1
    BY <1>1, <1>2, <1>4, <1>5
  <2>3. DOMAIN r = 1 .. Len(q) - 1
    <3>1. DOMAIN r = 1 .. Len(r)
      BY <2>1, LenProperties
    <3>2. QED
      BY <2>1, <2>2, <3>1
  <2>4. ASSUME NEW j \in 1 .. Len(q) - 1, j < i PROVE r[j] = q[j]
    <3>1. j \in 1 .. i - 1 /\ j <= Len(a)
      BY <1>1, <1>2, <1>4, <2>4
    <3>2. QED
      BY <1>4, <2>1, <2>2, <3>1
  <2>5. ASSUME NEW j \in 1 .. Len(q) - 1, ~(j < i) PROVE r[j] = q[j + 1]
    <3>1. j \in 1 .. Len(a) + Len(b) /\ ~(j <= Len(a)) /\ j - Len(a) = j - (i - 1)
      BY <1>1, <1>2, <1>4, <1>5, <2>5
    <3>2. r[j] = b[j - (i - 1)]
      BY <2>1, <3>1
    <3>3. j - (i - 1) \in 1 .. Len(q) - i /\ (j - (i - 1)) + i = j + 1
      BY <1>1, <1>2, <2>5
    <3>4. QED
      BY <1>5, <3>2, <3>3
  <2>6. QED
    BY <2>1, <2>2, <2>3, <2>4, <2>5
<1>7. ToSet(q) = {q[j] : j \in 1 .. Len(q)} /\ ToSet(r) = {r[j] : j \in 1 .. Len(q) - 1}
  BY <1>1, <1>6 DEF ToSet
<1>8. ToSet(r) \subseteq ToSet(q)
  BY <1>1, <1>2, <1>6, <1>7
<1>9. ASSUME IsInjective(q) PROVE IsInjective(r)
  <2>1. \A j, k \in 1 .. Len(q) : q[j] = q[k] => j = k
    BY <1>1, <1>9 DEF IsInjective
  <2>2. ASSUME NEW j \in 1 .. Len(q) - 1, NEW k \in 1 .. Len(q) - 1, r[j] = r[k]
        PROVE  j = k
    <3>1. /\ j \in 1 .. Len(q) /\ j + 1 \in 1 .. Len(q)
          /\ k \in 1 .. Len(q) /\ k + 1 \in 1 .. Len(q)
      BY <1>1
    <3>2. /\ r[j] = IF j < i THEN q[j] ELSE q[j + 1]
          /\ r[k] = IF k < i THEN q[k] ELSE q[k + 1]
      BY <1>6
    <3>3. CASE j < i /\ k < i
      BY <2>1, <2>2, <3>1, <3>2, <3>3
    <3>4. CASE ~(j < i) /\ ~(k < i)
      <4>1. j + 1 = k + 1
        BY <2>1, <2>2, <3>1, <3>2, <3>4
      <4>2. QED
        BY <1>1, <4>1
    <3>5. CASE j < i /\ ~(k < i)
      <4>1. j = k + 1
        BY <2>1, <2>2, <3>1, <3>2, <3>5
      <4>2. QED
        BY <1>1, <1>2, <3>5, <4>1
    <3>6. CASE ~(j < i) /\ k < i
      <4>1. j + 1 = k
        BY <2>1, <2>2, <3>1, <3>2, <3>6
      <4>2. QED
        BY <1>1, <1>2, <3>6, <4>1
    <3>7. QED
      BY <3>3, <3>4, <3>5, <3>6
  <2>3. QED
    BY <1>6, <2>2 DEF IsInjective
<1>10. ASSUME IsInjective(q) PROVE e \notin ToSet(r)
  <2>1. \A j, k \in 1 .. Len(q) : q[j] = q[k] => j = k
    BY <1>1, <1>10 DEF IsInjective
  <2>2. \A j \in 1 .. Len(q) - 1 : r[j] # e
    BY <1>1, <1>2, <1>6, <2>1
  <2>3. QED
    BY <1>7, <2>2
<1>11. ASSUME NEW x \in ToSet(q), x # e PROVE x \in ToSet(r)
  <2>1. PICK j \in 1 .. Len(q) : x = q[j]
    BY <1>7
  <2>2. j # i
    BY <1>2, <1>11, <2>1
  <2>3. CASE j < i
    <3>1. j \in 1 .. Len(q) - 1
      BY <1>1, <1>2, <2>3
    <3>2. r[j] = x
      BY <1>6, <2>1, <2>3, <3>1
    <3>3. QED
      BY <1>7, <3>1, <3>2
  <2>4. CASE j > i
    <3>1. j - 1 \in 1 .. Len(q) - 1 /\ ~(j - 1 < i) /\ (j - 1) + 1 = j
      BY <1>1, <1>2, <2>4
    <3>2. r[j - 1] = x
      BY <1>6, <2>1, <3>1
    <3>3. QED
      BY <1>7, <3>1, <3>2
  <2>5. QED
    BY <1>1, <1>2, <2>2, <2>3, <2>4
<1>12. QED
  BY <1>6, <1>8, <1>9, <1>10, <1>11

(* th_fcache_list_erase: the reference of the list passes to the caller.   *)
LEMMA UnlinkFits ==
  ASSUME NEW c \in Caches, NEW h \in Counts, Fit(c, h), NEW e \in Blocks,
         NEW d, d = Unlink(c, e)
  PROVE  /\ d \in Caches
         /\ Fit(d, More(h, e))
         /\ d.num = c.num /\ d.name = c.name /\ d.refs = c.refs /\ d.map = c.map
         /\ ToSet(d.list) \subseteq ToSet(c.list)
         /\ ~d.broken => ~c.broken /\ Len(d.list) = Len(c.list) - 1
         /\ ~c.broken => ~Listed(d, e)
         /\ Listed(c, e) => d.broken = c.broken
<1>1. CASE ~Listed(c, e)
  <2>1. d = [c EXCEPT !.broken = TRUE]
    BY <1>1 DEF Unlink
  <2>2. /\ d \in Caches /\ d.broken
        /\ d.num = c.num /\ d.name = c.name /\ d.refs = c.refs /\ d.map = c.map
        /\ d.list = c.list
    BY <2>1 DEF Caches
  <2>3. ~Listed(d, e)
    BY <1>1, <2>2 DEF Listed
  <2>4. QED
    BY <1>1, <2>2, <2>3 DEF Fit
<1>2. CASE Listed(c, e)
  <2>1. d = [c EXCEPT !.list = RemoveAt(c.list, CHOOSE i \in DOMAIN c.list : c.list[i] = e)]
    BY <1>2 DEF Unlink
  <2> DEFINE at == CHOOSE i \in DOMAIN c.list : c.list[i] = e
             r == RemoveAt(c.list, at)
  <2>2. c.list \in Seq(Blocks) /\ at \in 1 .. Len(c.list) /\ c.list[at] = e
    <3>1. c.list \in Seq(Blocks)
      BY DEF Caches
    <3>2. DOMAIN c.list = 1 .. Len(c.list)
      BY <3>1
    <3>3. \E i \in DOMAIN c.list : c.list[i] = e
      BY <1>2 DEF Listed, ToSet
    <3>4. QED
      BY <3>1, <3>2, <3>3
  <2>3. /\ r \in Seq(Blocks)
        /\ ToSet(r) \subseteq ToSet(c.list)
        /\ Len(r) = Len(c.list) - 1
        /\ IsInjective(c.list) => IsInjective(r) /\ ToSet(r) = ToSet(c.list) \ {e}
    <3> HIDE DEF at
    <3>1. QED
      BY <2>2, RemoveOne
  <2>4. d = [c EXCEPT !.list = r]
    BY <2>1
  <2> HIDE DEF r
  <2>5. /\ d \in Caches
        /\ d.num = c.num /\ d.name = c.name /\ d.refs = c.refs /\ d.map = c.map
        /\ d.list = r /\ d.broken = c.broken
    BY <2>3, <2>4 DEF Caches
  <2>6. ASSUME ~c.broken
        PROVE  IsInjective(d.list) /\ Refs(d, More(h, e)) /\ Slots(d) /\ ~Listed(d, e)
    <3>1. Refs(c, h) /\ Slots(c) /\ IsInjective(c.list)
      BY <2>6 DEF Fit
    <3>2. IsInjective(d.list) /\ ToSet(d.list) = ToSet(c.list) \ {e}
      BY <2>3, <2>5, <3>1
    <3>4. ASSUME NEW x \in Blocks
          PROVE  d.refs[x] = More(h, e)[x] + (IF Listed(d, x) THEN 1 ELSE 0)
      <4>1. c.refs[x] = h[x] + (IF Listed(c, x) THEN 1 ELSE 0) /\ h[x] \in Nat
        BY <3>1 DEF Refs, Counts
      <4>2. CASE x = e
        BY <1>2, <2>5, <3>2, <4>1, <4>2 DEF Listed, More, Counts
      <4>3. CASE x # e
        BY <2>5, <3>2, <4>1, <4>3 DEF Listed, More, Counts
      <4>4. QED
        BY <4>2, <4>3
    <3>5. Slots(d)
      BY <2>5, <3>1 DEF Slots, Live
    <3>6. QED
      BY <3>2, <3>4, <3>5 DEF Refs, Listed
  <2>7. /\ ~d.broken => ~c.broken /\ Len(d.list) = Len(c.list) - 1
        /\ ToSet(d.list) \subseteq ToSet(c.list)
    BY <2>3, <2>5
  <2>8. QED
    BY <2>5, <2>6, <2>7 DEF Fit
<1>3. QED
  BY <1>1, <1>2

(* th_fcache_entry_unref: the caller's reference is gone.                  *)
LEMMA UnrefFits ==
  ASSUME NEW c \in Caches, NEW h \in Counts, NEW e \in Blocks, Fit(c, More(h, e)),
         NEW d, d = Unref(c, e)
  PROVE  /\ d \in Caches
         /\ Fit(d, h)
         /\ d.num = c.num /\ d.list = c.list
         /\ ~d.broken <=> ~c.broken
         /\ \A x \in Blocks \ {e} : d.name[x] = c.name[x] /\ d.refs[x] = c.refs[x]
<1>1. c.refs[e] \in Nat
  BY DEF Caches
<1>2. CASE c.refs[e] = 0
  <2>1. d = [c EXCEPT !.broken = TRUE]
    BY <1>2 DEF Unref
  <2>2. /\ d \in Caches /\ d.broken /\ d.num = c.num /\ d.name = c.name
        /\ d.list = c.list /\ d.refs = c.refs
    BY <2>1 DEF Caches
  <2>3. c.broken
    <3>1. More(h, e)[e] = h[e] + 1 /\ h[e] \in Nat
      BY DEF More, Counts
    <3>2. ASSUME ~c.broken PROVE FALSE
      BY <1>2, <3>1, <3>2 DEF Fit, Refs
    <3>3. QED
      BY <3>2
  <2>4. QED
    BY <2>2, <2>3 DEF Fit
<1>3. CASE c.refs[e] = 1
  <2> DEFINE m == Without(c.map, c.name[e])
  <2>1. d = [c EXCEPT !.map = m, !.refs[e] = 0, !.name[e] = Nothing, !.stale = @ \ {e}]
    BY <1>3 DEF Unref, Destroy
  <2>2. /\ m \in Maps
        /\ DOMAIN m = DOMAIN c.map \ {c.name[e]}
        /\ \A n \in DOMAIN m : m[n] = c.map[n]
    <3>1. c.map \in Maps
      BY DEF Caches
    <3>2. m = [n \in DOMAIN c.map \ {c.name[e]} |-> c.map[n]]
      BY DEF Without
    <3>3. m \in [DOMAIN c.map \ {c.name[e]} -> Blocks]
      BY <3>1, <3>2, MapsDef
    <3>4. DOMAIN c.map \ {c.name[e]} \in SUBSET Names
      BY <3>1, MapsDef
    <3>5. m \in Maps
      BY <3>3, <3>4 DEF Maps
    <3>6. QED
      BY <3>2, <3>5
  <2> HIDE DEF m
  <2>3. /\ d \in Caches
        /\ d.map = m /\ d.list = c.list /\ d.num = c.num /\ d.broken = c.broken
        /\ d.refs = [c.refs EXCEPT ![e] = 0]
        /\ d.name = [c.name EXCEPT ![e] = Nothing]
    <3> DEFINE f == [c.refs EXCEPT ![e] = 0]
               g == [c.name EXCEPT ![e] = Nothing]
               s == c.stale \ {e}
    <3>1. f \in [Blocks -> Nat] /\ g \in [Blocks -> Names \union {Nothing}] /\ s \in SUBSET Blocks
      BY DEF Caches
    <3>2. d = [c EXCEPT !.map = m, !.refs = f, !.name = g, !.stale = s]
      BY <2>1
    <3> HIDE DEF f, g, s
    <3>3. /\ d \in Caches
          /\ d.map = m /\ d.list = c.list /\ d.num = c.num /\ d.broken = c.broken
          /\ d.refs = f /\ d.name = g
      BY <2>2, <3>1, <3>2 DEF Caches
    <3>4. QED
      BY <3>3 DEF f, g
  <2>4. ASSUME ~c.broken PROVE Refs(d, h) /\ Slots(d) /\ IsInjective(d.list)
    <3>1. Refs(c, More(h, e)) /\ Slots(c) /\ IsInjective(c.list)
      BY <2>4 DEF Fit
    <3>2. h[e] = 0 /\ ~Listed(c, e)
      BY <1>3, <3>1 DEF Refs, More, Counts
    <3>3. ASSUME NEW x \in Blocks PROVE d.refs[x] = h[x] + (IF Listed(d, x) THEN 1 ELSE 0)
      <4>1. CASE x = e
        BY <2>3, <3>2, <4>1 DEF Caches, Listed
      <4>2. CASE x # e
        BY <2>3, <3>1, <4>2 DEF Caches, Listed, Refs, More, Counts
      <4>3. QED
        BY <4>1, <4>2
    <3>4. ASSUME NEW n \in DOMAIN d.map PROVE Live(d, d.map[n]) /\ d.name[d.map[n]] = n
      <4>1. n \in DOMAIN c.map /\ n # c.name[e] /\ d.map[n] = c.map[n]
        BY <2>2, <2>3
      <4>2. Live(c, c.map[n]) /\ c.name[c.map[n]] = n /\ c.map[n] \in Blocks
        BY <3>1, <4>1, MapsDef DEF Slots, Caches
      <4>3. c.map[n] # e
        BY <4>1, <4>2
      <4>4. QED
        BY <2>3, <4>1, <4>2, <4>3 DEF Live, Caches
    <3>5. QED
      BY <2>3, <3>1, <3>3, <3>4 DEF Refs, Slots
  <2>5. \A x \in Blocks \ {e} : d.name[x] = c.name[x] /\ d.refs[x] = c.refs[x]
    BY <2>3 DEF Caches
  <2>6. QED
    BY <2>3, <2>4, <2>5 DEF Fit
<1>4. CASE c.refs[e] > 1
  <2>1. d = [c EXCEPT !.refs[e] = @ - 1]
    BY <1>4 DEF Unref
  <2>2. /\ d \in Caches
        /\ d.map = c.map /\ d.list = c.list /\ d.num = c.num /\ d.broken = c.broken
        /\ d.refs = [c.refs EXCEPT ![e] = c.refs[e] - 1]
        /\ d.name = c.name
    <3> DEFINE f == [c.refs EXCEPT ![e] = c.refs[e] - 1]
    <3>1. f \in [Blocks -> Nat]
      BY <1>1, <1>4 DEF Caches
    <3>2. d = [c EXCEPT !.refs = f]
      BY <2>1
    <3> HIDE DEF f
    <3>3. /\ d \in Caches
          /\ d.map = c.map /\ d.list = c.list /\ d.num = c.num /\ d.broken = c.broken
          /\ d.refs = f /\ d.name = c.name
      BY <3>1, <3>2 DEF Caches
    <3>4. QED
      BY <3>3 DEF f
  <2>3. ASSUME ~c.broken PROVE Refs(d, h) /\ Slots(d) /\ IsInjective(d.list)
    <3>1. Refs(c, More(h, e)) /\ Slots(c) /\ IsInjective(c.list)
      BY <2>3 DEF Fit
    <3>2. ASSUME NEW x \in Blocks PROVE d.refs[x] = h[x] + (IF Listed(d, x) THEN 1 ELSE 0)
      <4>1. c.refs[x] = More(h, e)[x] + (IF Listed(c, x) THEN 1 ELSE 0) /\ h[x] \in Nat
        BY <3>1 DEF Refs, Counts
      <4>2. CASE x = e
        BY <2>2, <4>1, <4>2 DEF Caches, Listed, More, Counts
      <4>3. CASE x # e
        BY <2>2, <4>1, <4>3 DEF Caches, Listed, More, Counts
      <4>4. QED
        BY <4>2, <4>3
    <3>3. Slots(d)
      <4>1. \A x \in Blocks : Live(c, x) => Live(d, x)
        BY <1>1, <1>4, <2>2 DEF Live, Caches
      <4>2. \A n \in DOMAIN c.map : c.map[n] \in Blocks
        BY MapsDef DEF Caches
      <4>3. QED
        BY <2>2, <3>1, <4>1, <4>2 DEF Slots
    <3>4. QED
      BY <2>2, <3>1, <3>2, <3>3 DEF Refs
  <2>4. \A x \in Blocks \ {e} : d.refs[x] = c.refs[x]
    BY <2>2 DEF Caches
  <2>5. QED
    BY <2>2, <2>3, <2>4 DEF Fit
<1>5. QED
  BY <1>1, <1>2, <1>3, <1>4

(* th_fcache_erase                                                         *)
LEMMA EraseFits ==
  ASSUME NEW c \in Caches, NEW h \in Counts, Fit(c, h), NEW e \in Blocks,
         NEW d, d = Erase(c, e)
  PROVE  /\ d \in Caches
         /\ Fit(d, h)
         /\ d.num = c.num - 1
         /\ ToSet(d.list) \subseteq ToSet(c.list)
         /\ ~d.broken => ~c.broken /\ Len(d.list) = Len(c.list) - 1
         /\ ~c.broken => ~Listed(d, e)
         /\ ~c.broken /\ Listed(c, e) => ~d.broken
         /\ \A x \in Blocks \ {e} : d.name[x] = c.name[x] /\ d.refs[x] = c.refs[x]
<1> DEFINE u == Unlink(c, e)
           v == Unref(u, e)
<1>1. /\ u \in Caches
      /\ Fit(u, More(h, e))
      /\ u.num = c.num /\ u.name = c.name /\ u.refs = c.refs
      /\ ~c.broken => e \notin ToSet(u.list)
      /\ Listed(c, e) => u.broken = c.broken
      /\ ToSet(u.list) \subseteq ToSet(c.list)
      /\ ~u.broken => ~c.broken /\ Len(u.list) = Len(c.list) - 1
  BY UnlinkFits DEF Listed
<1>2. d = [v EXCEPT !.num = @ - 1]
  BY DEF Erase
<1> HIDE DEF u
<1>3. /\ v \in Caches
      /\ Fit(v, h)
      /\ v.num = u.num /\ v.list = u.list
      /\ ~v.broken <=> ~u.broken
      /\ \A x \in Blocks \ {e} : v.name[x] = u.name[x] /\ v.refs[x] = u.refs[x]
  BY <1>1, UnrefFits
<1> HIDE DEF v
<1>4. /\ d \in Caches
      /\ d.map = v.map /\ d.list = v.list /\ d.num = v.num - 1 /\ d.broken = v.broken
      /\ d.refs = v.refs /\ d.name = v.name
  <2>1. v.num - 1 \in Int
    BY <1>3 DEF Caches
  <2>2. d = [v EXCEPT !.num = v.num - 1]
    BY <1>2
  <2>3. QED
    BY <1>3, <2>1, <2>2 DEF Caches
<1>5. Fit(d, h)
  BY <1>3, <1>4 DEF Fit, Refs, Slots, Live, Listed
<1>6. QED
  BY <1>1, <1>3, <1>4, <1>5 DEF Listed

(* th_fcache_insert makes room.                                            *)
LEMMA MakeRoomFits ==
  ASSUME NEW c \in Caches, NEW h \in Counts, Fit(c, h), NumFits(c),
         NEW d, d = MakeRoom(c)
  PROVE  /\ d \in Caches
         /\ Fit(d, h)
         /\ ~d.broken => d.num = Len(d.list) /\ d.num < MaxCached
         /\ ~c.broken => ~d.broken
         /\ ToSet(d.list) \subseteq ToSet(c.list)
         /\ \A x \in Blocks : x \notin ToSet(c.list) => d.name[x] = c.name[x]
<1>1. c.list \in Seq(Blocks) /\ Len(c.list) \in Nat /\ c.num \in Int
  BY DEF Caches
<1>2. CASE c.num # MaxCached
  <2>1. d = c
    BY <1>2 DEF MakeRoom
  <2>2. QED
    BY <1>1, <1>2, <2>1, FcacheAssumption DEF NumFits
<1>3. CASE c.num = MaxCached /\ c.list = <<>>
  <2>1. d = [c EXCEPT !.broken = TRUE]
    BY <1>3 DEF MakeRoom
  <2>2. d \in Caches /\ d.broken /\ d.name = c.name /\ d.list = c.list
    BY <2>1 DEF Caches
  <2>3. Len(c.list) = 0 /\ c.broken
    BY <1>1, <1>3, FcacheAssumption DEF NumFits
  <2>4. QED
    BY <2>2, <2>3 DEF Fit
<1>4. CASE c.num = MaxCached /\ c.list # <<>>
  <2> DEFINE x0 == Head(c.list)
  <2>1. d = Erase(c, x0)
    BY <1>4 DEF MakeRoom
  <2>2. x0 \in Blocks /\ x0 \in ToSet(c.list)
    <3>1. 1 \in DOMAIN c.list /\ x0 = c.list[1]
      BY <1>1, <1>4
    <3>2. QED
      BY <1>1, <3>1 DEF ToSet
  <2> HIDE DEF x0
  <2>3. /\ d \in Caches
        /\ Fit(d, h)
        /\ d.num = c.num - 1
        /\ ToSet(d.list) \subseteq ToSet(c.list)
        /\ ~d.broken => ~c.broken /\ Len(d.list) = Len(c.list) - 1
        /\ ~c.broken => ~d.broken
        /\ \A x \in Blocks \ {x0} : d.name[x] = c.name[x]
    BY <2>1, <2>2, EraseFits DEF Listed
  <2>4. ~d.broken => d.num = Len(d.list) /\ d.num < MaxCached
    BY <1>1, <1>4, <2>3, FcacheAssumption DEF NumFits
  <2>5. QED
    BY <2>2, <2>3, <2>4
<1>5. QED
  BY <1>2, <1>3, <1>4

(* th_fcache_entry_init and th_fcache_entry_open of a free block.          *)
LEMMA OpenedFits ==
  ASSUME NEW c \in Caches, NEW h \in Counts, Fit(c, h), NEW e \in Blocks, ~Live(c, e),
         NEW n \in Names, NEW d, d = Opened(c, e, n)
  PROVE  /\ d \in Caches
         /\ Fit(d, More(h, e))
         /\ d.num = c.num /\ d.list = c.list /\ d.broken = c.broken
         /\ d.name[e] = n
<1> DEFINE f == [c.refs EXCEPT ![e] = 1]
           g == [c.name EXCEPT ![e] = n]
           s == c.stale \ {e}
<1>1. f \in [Blocks -> Nat] /\ g \in [Blocks -> Names \union {Nothing}] /\ s \in SUBSET Blocks
  BY DEF Caches
<1>2. d = [c EXCEPT !.refs = f, !.name = g, !.stale = s]
  BY DEF Opened
<1>3. /\ f[e] = 1 /\ g[e] = n
      /\ \A x \in Blocks \ {e} : f[x] = c.refs[x] /\ g[x] = c.name[x]
  BY DEF Caches
<1> HIDE DEF f, g, s
<1>4. /\ d \in Caches
      /\ d.map = c.map /\ d.list = c.list /\ d.num = c.num /\ d.broken = c.broken
      /\ d.refs = f /\ d.name = g
  BY <1>1, <1>2 DEF Caches
<1>5. ASSUME ~c.broken PROVE Refs(d, More(h, e)) /\ Slots(d) /\ IsInjective(d.list)
  <2>1. Refs(c, h) /\ Slots(c) /\ IsInjective(c.list)
    BY <1>5 DEF Fit
  <2>2. c.refs[e] = 0 /\ h[e] = 0 /\ ~Listed(c, e)
    BY <2>1 DEF Refs, Live, Caches, Counts
  <2>3. ASSUME NEW x \in Blocks
        PROVE  d.refs[x] = More(h, e)[x] + (IF Listed(d, x) THEN 1 ELSE 0)
    <3>1. CASE x = e
      BY <1>3, <1>4, <2>2, <3>1 DEF Listed, More, Counts
    <3>2. CASE x # e
      BY <1>3, <1>4, <2>1, <3>2 DEF Listed, More, Counts, Refs
    <3>3. QED
      BY <3>1, <3>2
  <2>4. ASSUME NEW m \in DOMAIN d.map PROVE Live(d, d.map[m]) /\ d.name[d.map[m]] = m
    <3>1. /\ m \in DOMAIN c.map /\ d.map[m] = c.map[m] /\ c.map[m] \in Blocks
          /\ Live(c, c.map[m]) /\ c.name[c.map[m]] = m
      BY <1>4, <2>1, MapsDef DEF Slots, Caches
    <3>2. c.map[m] # e
      BY <3>1
    <3>3. QED
      BY <1>3, <1>4, <3>1, <3>2 DEF Live
  <2>5. QED
    BY <1>4, <2>1, <2>3, <2>4 DEF Refs, Slots
<1>6. QED
  BY <1>3, <1>4, <1>5 DEF Fit

(* The list takes a reference to an entry that is not in it.               *)
LEMMA AppendFits ==
  ASSUME NEW c \in Caches, NEW h \in Counts, Refs(c, h), IsInjective(c.list),
         NEW e \in Blocks, ~Listed(c, e),
         NEW d, d.list = Append(c.list, e), d.refs = [c.refs EXCEPT ![e] = @ + 1]
  PROVE  Refs(d, h) /\ IsInjective(d.list)
<1>1. c.list \in Seq(Blocks) /\ c.refs \in [Blocks -> Nat]
  BY DEF Caches
<1> DEFINE q == c.list
           r == Append(q, e)
<1>2. /\ Len(q) \in Nat /\ DOMAIN q = 1 .. Len(q) /\ DOMAIN r = 1 .. Len(q) + 1
      /\ r[Len(q) + 1] = e
      /\ \A i \in 1 .. Len(q) : r[i] = q[i]
  BY <1>1
<1>3. \A i \in 1 .. Len(q) : q[i] # e
  BY <1>2 DEF Listed, ToSet
<1>4. d.list = r /\ IsInjective(q)
  OBVIOUS
<1> HIDE DEF q, r
<1>5. IsInjective(r)
  BY <1>2, <1>3, <1>4 DEF IsInjective
<1>6. ToSet(r) = ToSet(q) \union {e}
  <2>1. \A i \in 1 .. Len(q) + 1 : i = Len(q) + 1 \/ i \in 1 .. Len(q)
    BY <1>2
  <2>2. ToSet(r) \subseteq ToSet(q) \union {e}
    BY <1>2, <2>1 DEF ToSet
  <2>3. ToSet(q) \subseteq ToSet(r)
    BY <1>2 DEF ToSet
  <2>4. e \in ToSet(r)
    BY <1>2 DEF ToSet
  <2>5. QED
    BY <2>2, <2>3, <2>4
<1>7. ASSUME NEW x \in Blocks PROVE d.refs[x] = h[x] + (IF Listed(d, x) THEN 1 ELSE 0)
  <2>1. c.refs[x] = h[x] + (IF x \in ToSet(q) THEN 1 ELSE 0) /\ h[x] \in Nat
    BY DEF Refs, Listed, Counts, q
  <2>2. CASE x = e
    <3>1. x \notin ToSet(q) /\ x \in ToSet(r)
      BY <1>6, <2>2 DEF Listed, q
    <3>2. QED
      BY <1>1, <1>4, <2>1, <2>2, <3>1 DEF Listed
  <2>3. CASE x # e
    <3>1. x \in ToSet(q) <=> x \in ToSet(r)
      BY <1>6, <2>3
    <3>2. QED
      BY <1>1, <1>4, <2>1, <2>3, <3>1 DEF Listed
  <2>4. QED
    BY <2>2, <2>3
<1>8. QED
  BY <1>4, <1>5, <1>7 DEF Refs

(* The rest of th_fcache_insert.                                           *)
LEMMA EnterFits ==
  ASSUME NEW c \in Caches, NEW h \in Counts, Fit(c, h),
         NEW e \in Blocks, c.name[e] \in Names, ~Listed(c, e),
         ~c.broken => c.num = Len(c.list) /\ c.num < MaxCached,
         NEW d, d = Enter(c, e)
  PROVE  d \in Caches /\ Fit(d, h) /\ NumFits(d) /\ d.broken = c.broken
<1> DEFINE n == c.name[e]
           m == [x \in DOMAIN c.map \union {n} |-> IF x = n THEN e ELSE c.map[x]]
           f == [c.refs EXCEPT ![e] = @ + 1]
           l == Append(c.list, e)
<1>1. /\ c.list \in Seq(Blocks) /\ c.num \in Int /\ c.refs \in [Blocks -> Nat]
      /\ c.map \in Maps
  BY DEF Caches
<1>2. f \in [Blocks -> Nat] /\ l \in Seq(Blocks) /\ Len(l) = Len(c.list) + 1
  BY <1>1
<1>3. m \in Maps
  <2>1. DOMAIN c.map \union {n} \in SUBSET Names
    BY <1>1, MapsDef
  <2>2. m \in [DOMAIN c.map \union {n} -> Blocks]
    BY <1>1, MapsDef
  <2>3. QED
    BY <2>1, <2>2 DEF Maps
<1>4. d = [c EXCEPT !.map = m, !.list = l, !.num = c.num + 1, !.refs = f]
  BY DEF Enter
<1>5. /\ f = [c.refs EXCEPT ![e] = @ + 1]
      /\ f[e] = c.refs[e] + 1
      /\ \A x \in Blocks \ {e} : f[x] = c.refs[x]
  BY <1>1
<1>6. /\ DOMAIN m = DOMAIN c.map \union {n} /\ m[n] = e
      /\ \A x \in DOMAIN c.map : x # n => m[x] = c.map[x]
  OBVIOUS
<1>7. l = Append(c.list, e)
  OBVIOUS
<1> HIDE DEF m, f, l
<1>8. /\ d \in Caches
      /\ d.map = m /\ d.list = l /\ d.num = c.num + 1 /\ d.broken = c.broken
      /\ d.refs = f /\ d.name = c.name
  <2> DEFINE k == c.num + 1
  <2>1. k \in Int
    BY <1>1
  <2>2. d = [c EXCEPT !.map = m, !.list = l, !.num = k, !.refs = f]
    BY <1>4
  <2> HIDE DEF k
  <2>3. /\ d \in Caches
        /\ d.map = m /\ d.list = l /\ d.num = k /\ d.broken = c.broken
        /\ d.refs = f /\ d.name = c.name
    BY <1>2, <1>3, <2>1, <2>2 DEF Caches
  <2>4. QED
    BY <2>3 DEF k
<1>9. ASSUME ~c.broken PROVE Refs(d, h) /\ Slots(d) /\ IsInjective(d.list)
  <2>1. Refs(c, h) /\ Slots(c) /\ IsInjective(c.list)
    BY <1>9 DEF Fit
  <2>2. Refs(d, h) /\ IsInjective(d.list)
    <3>1. d.list = Append(c.list, e) /\ d.refs = [c.refs EXCEPT ![e] = @ + 1]
      BY <1>5, <1>7, <1>8
    <3>2. QED
      BY <2>1, <3>1, AppendFits
  <2>3. \A x \in Blocks : (x = e \/ Live(c, x)) => Live(d, x)
    BY <1>1, <1>5, <1>8 DEF Live
  <2>4. ASSUME NEW x \in DOMAIN d.map PROVE Live(d, d.map[x]) /\ d.name[d.map[x]] = x
    <3>1. CASE x = n
      BY <1>6, <1>8, <2>3, <3>1
    <3>2. CASE x # n
      <4>1. /\ x \in DOMAIN c.map /\ d.map[x] = c.map[x] /\ c.map[x] \in Blocks
            /\ Live(c, c.map[x]) /\ c.name[c.map[x]] = x
        BY <1>1, <1>6, <1>8, <2>1, <3>2, MapsDef DEF Slots
      <4>2. QED
        BY <1>8, <2>3, <4>1
    <3>3. QED
      BY <3>1, <3>2
  <2>5. QED
    BY <2>2, <2>4 DEF Slots
<1>10. NumFits(d)
  <2>1. Len(c.list) \in Nat /\ MaxCached \in Nat
    BY <1>1, FcacheAssumption
  <2>2. QED
    BY <1>1, <1>2, <1>8, <2>1 DEF NumFits
<1>11. QED
  BY <1>8, <1>9, <1>10 DEF Fit

-----------------------------------------------------------------------------
(* The references of the responses.                                        *)

LEMMA HoldersFinite ==
  ASSUME NEW S, S \subseteq Responses
  PROVE  /\ IsFiniteSet(S) /\ Cardinality(S) \in Nat
         /\ \A r : Cardinality(S \ {r}) = IF r \in S THEN Cardinality(S) - 1 ELSE Cardinality(S)
         /\ \A r : Cardinality(S \union {r}) = IF r \in S THEN Cardinality(S) ELSE Cardinality(S) + 1
<1>1. IsFiniteSet(S)
  BY FcacheAssumption, FS_Subset
<1>2. QED
  BY <1>1, FS_CardinalityType, FS_AddElement, FS_RemoveElement

LEMMA OutsideType == ASSUME Typed PROVE Outside \in Counts
<1>1. \A e \in Blocks : Cardinality({r \in Responses : held[r] = e}) \in Nat
  BY HoldersFinite
<1>2. \A e \in Blocks : lost[e] \in Nat
  BY FcacheAssumption DEF Typed
<1>3. QED
  BY <1>1, <1>2 DEF Outside, Counts

(* Only the references of one response changed.                            *)
LEMMA OutsideSame == ASSUME UNCHANGED <<held, lost>> PROVE Outside' = Outside
BY DEF Outside

(* A response takes a reference to e; the one it had is lost.              *)
LEMMA HoldStep ==
  ASSUME Typed, NEW r \in Responses, NEW e \in Blocks, MayGet(r), Hold(r, e)
  PROVE  /\ held' \in [Responses -> Blocks \union {Nothing}]
         /\ lost' \in [Blocks -> 0 .. MaxLost]
         /\ over' = over
         /\ Outside' = More(Outside, e)
<1> DEFINE H(x) == {q \in Responses : held[q] = x}
           I(x) == {q \in Responses : held'[q] = x}
<1>1. /\ held' = [held EXCEPT ![r] = e]
      /\ lost' = IF held[r] = Nothing THEN lost ELSE [lost EXCEPT ![held[r]] = @ + 1]
      /\ over' = over
  BY DEF Hold
<1>2. /\ held \in [Responses -> Blocks \union {Nothing}]
      /\ lost \in [Blocks -> 0 .. MaxLost]
      /\ MaxLost \in Nat /\ Nothing \notin Blocks
  BY FcacheAssumption DEF Typed
<1>3. held' \in [Responses -> Blocks \union {Nothing}]
  BY <1>1, <1>2
<1>4. lost' \in [Blocks -> 0 .. MaxLost]
  <2>1. CASE held[r] = Nothing
    BY <1>1, <1>2, <2>1
  <2>2. CASE held[r] # Nothing
    <3>1. held[r] \in Blocks /\ lost[held[r]] + 1 \in 0 .. MaxLost
      BY <1>2, <2>2 DEF MayGet
    <3>2. QED
      BY <1>1, <1>2, <2>2, <3>1
  <2>3. QED
    BY <2>1, <2>2
<1>5. \A x \in Blocks : I(x) = IF x = e THEN H(x) \union {r} ELSE H(x) \ {r}
  BY <1>1, <1>2
<1>6. /\ \A x \in Blocks : H(x) \subseteq Responses
      /\ \A x \in Blocks : r \in H(x) <=> held[r] = x
  OBVIOUS
<1>7. /\ Outside = [x \in Blocks |-> Cardinality(H(x)) + lost[x]]
      /\ Outside' = [x \in Blocks |-> Cardinality(I(x)) + lost'[x]]
  BY DEF Outside
<1> HIDE DEF H, I
<1>8. ASSUME NEW x \in Blocks
      PROVE  Cardinality(I(x)) + lost'[x] =
               IF x = e THEN Cardinality(H(x)) + lost[x] + 1 ELSE Cardinality(H(x)) + lost[x]
  <2>1. /\ Cardinality(H(x)) \in Nat
        /\ Cardinality(H(x) \ {r}) = IF r \in H(x) THEN Cardinality(H(x)) - 1 ELSE Cardinality(H(x))
        /\ Cardinality(H(x) \union {r}) = IF r \in H(x) THEN Cardinality(H(x)) ELSE Cardinality(H(x)) + 1
    BY <1>6, HoldersFinite
  <2>2. lost[x] \in Nat
    BY <1>2
  <2>3. lost'[x] = IF held[r] = x THEN lost[x] + 1 ELSE lost[x]
    BY <1>1, <1>2
  <2>4. r \in H(x) <=> held[r] = x
    BY <1>6
  <2>5. I(x) = IF x = e THEN H(x) \union {r} ELSE H(x) \ {r}
    BY <1>5
  <2>6. CASE held[r] = x
    <3>1. r \in H(x) /\ lost'[x] = lost[x] + 1
      BY <2>3, <2>4, <2>6
    <3>2. Cardinality(I(x)) = IF x = e THEN Cardinality(H(x)) ELSE Cardinality(H(x)) - 1
      BY <2>1, <2>5, <3>1
    <3>3. QED
      BY <2>1, <2>2, <3>1, <3>2
  <2>7. CASE held[r] # x
    <3>1. r \notin H(x) /\ lost'[x] = lost[x]
      BY <2>3, <2>4, <2>7
    <3>2. Cardinality(I(x)) = IF x = e THEN Cardinality(H(x)) + 1 ELSE Cardinality(H(x))
      BY <2>1, <2>5, <3>1
    <3>3. QED
      BY <2>1, <2>2, <3>1, <3>2
  <2>8. QED
    BY <2>6, <2>7
<1>9. Outside' = More(Outside, e)
  BY <1>7, <1>8 DEF More
<1>10. QED
  BY <1>1, <1>3, <1>4, <1>9

(* A response gives its reference back.                                    *)
LEMMA ReleaseOutside ==
  ASSUME Typed, NEW r \in Responses, held[r] # Nothing,
         held' = [held EXCEPT ![r] = Nothing], lost' = lost
  PROVE  /\ held[r] \in Blocks
         /\ held' \in [Responses -> Blocks \union {Nothing}]
         /\ Outside' \in Counts
         /\ Outside = More(Outside', held[r])
<1> DEFINE H(x) == {q \in Responses : held[q] = x}
           I(x) == {q \in Responses : held'[q] = x}
<1>1. /\ held \in [Responses -> Blocks \union {Nothing}]
      /\ lost \in [Blocks -> 0 .. MaxLost]
      /\ MaxLost \in Nat /\ Nothing \notin Blocks
  BY FcacheAssumption DEF Typed
<1>2. held[r] \in Blocks /\ held' \in [Responses -> Blocks \union {Nothing}]
  BY <1>1
<1>3. \A x \in Blocks : I(x) = H(x) \ {r}
  BY <1>1
<1>4. /\ \A x \in Blocks : H(x) \subseteq Responses
      /\ \A x \in Blocks : r \in H(x) <=> held[r] = x
  OBVIOUS
<1>5. /\ Outside = [x \in Blocks |-> Cardinality(H(x)) + lost[x]]
      /\ Outside' = [x \in Blocks |-> Cardinality(I(x)) + lost[x]]
  BY DEF Outside
<1> HIDE DEF H, I
<1>6. ASSUME NEW x \in Blocks
      PROVE  /\ Cardinality(I(x)) + lost[x] \in Nat
             /\ Cardinality(H(x)) + lost[x] =
                  IF x = held[r] THEN Cardinality(I(x)) + lost[x] + 1 ELSE Cardinality(I(x)) + lost[x]
  <2>1. /\ Cardinality(H(x)) \in Nat /\ Cardinality(H(x) \ {r}) \in Nat
        /\ Cardinality(H(x) \ {r}) = IF r \in H(x) THEN Cardinality(H(x)) - 1 ELSE Cardinality(H(x))
    BY <1>4, HoldersFinite
  <2>2. lost[x] \in Nat
    BY <1>1
  <2>3. I(x) = H(x) \ {r} /\ (r \in H(x) <=> held[r] = x)
    BY <1>3, <1>4
  <2>4. CASE held[r] = x
    BY <2>1, <2>2, <2>3, <2>4
  <2>5. CASE held[r] # x
    BY <2>1, <2>2, <2>3, <2>5
  <2>6. QED
    BY <2>4, <2>5
<1>7. Outside' \in Counts
  BY <1>5, <1>6 DEF Counts
<1>8. Outside = More(Outside', held[r])
  BY <1>2, <1>5, <1>6 DEF More
<1>9. QED
  BY <1>2, <1>7, <1>8

-----------------------------------------------------------------------------
(* One step per action.                                                    *)

LEMMA NumRange ==
  ASSUME NEW c \in Caches, NumFits(c), ~c.broken
  PROVE  c.num \in 0 .. MaxCached
<1>1. Len(c.list) \in Nat /\ c.num \in Int
  BY DEF Caches
<1>2. QED
  BY <1>1, FcacheAssumption DEF NumFits

LEMMA InitStep == ASSUME Init PROVE IInv
<1>1. /\ cache.map = << >> /\ cache.list = <<>> /\ cache.num = 0 /\ cache.broken = FALSE
      /\ cache.refs = [e \in Blocks |-> 0]
  BY DEF Init
<1>2. << >> \in Maps
  <2>1. << >> \in [{} -> Blocks]
    OBVIOUS
  <2>2. QED
    BY <2>1 DEF Maps
<1>3. <<>> \in Seq(Blocks) /\ Len(<<>>) = 0 /\ DOMAIN <<>> = {}
  OBVIOUS
<1>4. cache \in Caches
  BY <1>2, <1>3 DEF Init, Caches
<1>5. Typed
  <2>1. 0 \in 0 .. MaxLost
    BY FcacheAssumption
  <2>2. lost \in [Blocks -> 0 .. MaxLost]
    BY <2>1 DEF Init
  <2>3. held \in [Responses -> Blocks \union {Nothing}] /\ over \in BOOLEAN
    BY DEF Init
  <2>4. QED
    BY <1>4, <2>2, <2>3 DEF Typed
<1>6. \A e \in Blocks : Outside[e] = 0
  <2>1. \A e \in Blocks : {r \in Responses : held[r] = e} = {}
    BY FcacheAssumption DEF Init
  <2>2. \A e \in Blocks : Cardinality({r \in Responses : held[r] = e}) = 0
    BY <2>1, FS_EmptySet
  <2>3. QED
    BY <2>2 DEF Init, Outside
<1>7. Refs(cache, Outside) /\ Slots(cache) /\ IsInjective(cache.list)
  BY <1>1, <1>3, <1>6 DEF Refs, Slots, IsInjective, Listed, ToSet
<1>8. NumFits(cache) /\ cache.num \in 0 .. MaxCached
  BY <1>1, <1>3, FcacheAssumption DEF NumFits
<1>9. QED
  BY <1>5, <1>7, <1>8 DEF IInv, Fit

(* The map leads to an entry that was evicted while it was served.         *)
Evicted(n) == n \in DOMAIN cache.map /\ ~Listed(cache, cache.map[n])

LEMMA MissedFits ==
  ASSUME IInv, Running, NEW n \in Names, NEW d, d = Missed(n)
  PROVE  /\ d \in Caches
         /\ Fit(d, Outside)
         /\ NumFits(d)
         /\ \A x \in Blocks : Listed(d, x) => Live(d, x)
         /\ ~Evicted(n) => ~d.broken
<1>1. /\ cache \in Caches /\ Fit(cache, Outside) /\ NumFits(cache) /\ ~cache.broken
      /\ Outside \in Counts
  BY OutsideType DEF IInv, Typed, Running, Sound
<1>2. \A x \in Blocks : Listed(cache, x) => Live(cache, x)
  BY <1>1 DEF Fit, Refs, Live, Counts
<1>3. CASE n \notin DOMAIN cache.map
  BY <1>1, <1>2, <1>3 DEF Missed, Evicted
<1>4. CASE n \in DOMAIN cache.map
  <2> DEFINE e == cache.map[n]
  <2>1. e \in Blocks /\ d = Erase(cache, e)
    BY <1>1, <1>4, MapsDef DEF Missed, Caches
  <2> HIDE DEF e
  <2>2. /\ d \in Caches
        /\ Fit(d, Outside)
        /\ d.num = cache.num - 1
        /\ ToSet(d.list) \subseteq ToSet(cache.list)
        /\ ~d.broken => Len(d.list) = Len(cache.list) - 1
        /\ ~Listed(d, e)
        /\ Listed(cache, e) => ~d.broken
        /\ \A x \in Blocks \ {e} : d.refs[x] = cache.refs[x]
    BY <1>1, <2>1, EraseFits
  <2>3. NumFits(d)
    <3>1. Len(cache.list) \in Nat /\ cache.num \in Int
      BY <1>1 DEF Caches
    <3>2. cache.num = Len(cache.list) /\ cache.num <= MaxCached
      BY <1>1 DEF NumFits
    <3>3. QED
      BY <2>2, <3>1, <3>2, FcacheAssumption DEF NumFits
  <2>4. ASSUME NEW x \in Blocks, Listed(d, x) PROVE Live(d, x)
    BY <1>2, <2>2, <2>4 DEF Listed, Live
  <2>5. QED
    BY <1>4, <2>2, <2>3, <2>4 DEF Evicted, e
<1>5. QED
  BY <1>3, <1>4

(* A new entry e of name n, when there is room for it.                     *)
LEMMA NewEntryFits ==
  ASSUME IInv, Running, NEW n \in Names, NEW e \in Blocks, ~Live(Missed(n), e),
         NEW d, d = MakeRoom(Opened(Missed(n), e, n))
  PROVE  /\ d \in Caches
         /\ Fit(d, More(Outside, e))
         /\ d.name[e] = n /\ ~Listed(d, e)
         /\ ~d.broken => d.num = Len(d.list) /\ d.num < MaxCached
         /\ ~Evicted(n) => ~d.broken
<1> DEFINE m == Missed(n)
           o == Opened(m, e, n)
<1>1. /\ m \in Caches
      /\ Fit(m, Outside)
      /\ NumFits(m)
      /\ \A x \in Blocks : Listed(m, x) => Live(m, x)
      /\ ~Evicted(n) => ~m.broken
  BY MissedFits
<1>2. ~Live(m, e) /\ d = MakeRoom(o)
  OBVIOUS
<1>3. Outside \in Counts /\ More(Outside, e) \in Counts
  BY OutsideType DEF IInv, More, Counts
<1> HIDE DEF m
<1>4. /\ o \in Caches
      /\ Fit(o, More(Outside, e))
      /\ o.num = m.num /\ o.list = m.list /\ o.broken = m.broken
      /\ o.name[e] = n
  BY <1>1, <1>2, <1>3, OpenedFits
<1> HIDE DEF o
<1>5. NumFits(o) /\ e \notin ToSet(o.list)
  BY <1>1, <1>2, <1>4 DEF NumFits, Listed
<1>6. /\ d \in Caches
      /\ Fit(d, More(Outside, e))
      /\ ~d.broken => d.num = Len(d.list) /\ d.num < MaxCached
      /\ ~o.broken => ~d.broken
      /\ ToSet(d.list) \subseteq ToSet(o.list)
      /\ \A x \in Blocks : x \notin ToSet(o.list) => d.name[x] = o.name[x]
  BY <1>2, <1>3, <1>4, <1>5, MakeRoomFits
<1>7. QED
  BY <1>1, <1>4, <1>5, <1>6 DEF Listed

LEMMA GetCachedStep ==
  ASSUME IInv, NEW r \in Responses, NEW n \in Names, GetCached(r, n)
  PROVE  IInv'
<1> DEFINE e == cache.map[n]
           u == Unlink(cache, e)
<1>1. Running /\ MayGet(r) /\ n \in DOMAIN cache.map
  BY DEF GetCached, MayGet, Hit
<1>2. /\ cache \in Caches /\ Fit(cache, Outside) /\ NumFits(cache) /\ ~cache.broken /\ ~over
      /\ Outside \in Counts
  BY <1>1, OutsideType DEF IInv, Typed, Running, Sound
<1>3. e \in Blocks
  BY <1>1, <1>2, MapsDef DEF Caches
<1>4. cache' = [u EXCEPT !.list = Append(u.list, e), !.refs[e] = @ + 1] /\ Hold(r, e)
  BY DEF GetCached
<1> HIDE DEF e
<1>5. /\ u \in Caches
      /\ Fit(u, More(Outside, e))
      /\ u.num = cache.num
      /\ ~u.broken => Len(u.list) = Len(cache.list) - 1
      /\ ~Listed(u, e)
  BY <1>2, <1>3, UnlinkFits
<1> HIDE DEF u
<1>6. /\ held' \in [Responses -> Blocks \union {Nothing}]
      /\ lost' \in [Blocks -> 0 .. MaxLost]
      /\ over' = over
      /\ Outside' = More(Outside, e)
  BY <1>1, <1>3, <1>4, HoldStep DEF IInv
<1>7. /\ cache' \in Caches
      /\ cache'.map = u.map /\ cache'.list = Append(u.list, e) /\ cache'.num = u.num
      /\ cache'.broken = u.broken /\ cache'.name = u.name
      /\ cache'.refs = [u.refs EXCEPT ![e] = @ + 1]
      /\ Len(cache'.list) = Len(u.list) + 1
  <2> DEFINE f == [u.refs EXCEPT ![e] = @ + 1]
             l == Append(u.list, e)
  <2>1. f \in [Blocks -> Nat] /\ l \in Seq(Blocks) /\ Len(l) = Len(u.list) + 1
    BY <1>3, <1>5 DEF Caches
  <2>2. cache' = [u EXCEPT !.list = l, !.refs = f]
    BY <1>4
  <2> HIDE DEF f, l
  <2>3. /\ cache' \in Caches
        /\ cache'.map = u.map /\ cache'.list = l /\ cache'.num = u.num
        /\ cache'.broken = u.broken /\ cache'.name = u.name /\ cache'.refs = f
    BY <1>5, <2>1, <2>2 DEF Caches
  <2>4. QED
    BY <2>1, <2>3 DEF f, l
<1>8. ASSUME ~u.broken
      PROVE  Refs(cache', More(Outside, e)) /\ Slots(cache') /\ IsInjective(cache'.list)
  <2>1. Refs(u, More(Outside, e)) /\ Slots(u) /\ IsInjective(u.list)
    BY <1>5, <1>8 DEF Fit
  <2>2. More(Outside, e) \in Counts
    BY <1>2, <1>3 DEF More, Counts
  <2>3. Refs(cache', More(Outside, e)) /\ IsInjective(cache'.list)
    BY <1>3, <1>5, <1>7, <2>1, <2>2, AppendFits
  <2>4. \A x \in Blocks : Live(u, x) => Live(cache', x)
    BY <1>3, <1>5, <1>7 DEF Live, Caches
  <2>5. \A m \in DOMAIN u.map : u.map[m] \in Blocks
    BY <1>5, MapsDef DEF Caches
  <2>6. Slots(cache')
    BY <1>7, <2>1, <2>4, <2>5 DEF Slots
  <2>7. QED
    BY <2>3, <2>6
<1>9. Typed'
  BY <1>6, <1>7 DEF IInv, Typed
<1>10. Fit(cache', Outside')
  BY <1>6, <1>7, <1>8 DEF Fit
<1>11. NumFits(cache')
  <2>1. Len(u.list) \in Nat /\ Len(cache.list) \in Nat
    BY <1>2, <1>5 DEF Caches
  <2>2. cache.num = Len(cache.list) /\ cache.num <= MaxCached
    BY <1>2 DEF NumFits
  <2>3. QED
    BY <1>5, <1>7, <2>1, <2>2 DEF NumFits
<1>12. QED
  BY <1>7, <1>9, <1>10, <1>11, NumRange DEF IInv, Fit, Refs, Slots, Live, Listed, NumFits

LEMMA GetFailsStep ==
  ASSUME IInv, NEW r \in Responses, NEW n \in Names, GetFails(r, n)
  PROVE  IInv'
<1>1. Running /\ cache' = Missed(n) /\ UNCHANGED <<held, lost, over>>
  BY DEF GetFails, MayGet
<1>2. cache' \in Caches /\ Fit(cache', Outside) /\ NumFits(cache')
  BY <1>1, MissedFits
<1>3. Outside' = Outside
  BY <1>1, OutsideSame
<1>4. ~cache'.broken => cache'.num \in 0 .. MaxCached
  BY <1>2, NumRange
<1>5. Typed'
  BY <1>1, <1>2 DEF IInv, Typed
<1>6. QED
  BY <1>2, <1>3, <1>4, <1>5 DEF IInv, Fit, Refs, Slots, Live, Listed, NumFits

LEMMA GetOpenedStep ==
  ASSUME IInv, NEW r \in Responses, NEW n \in Names, GetOpened(r, n)
  PROVE  IInv'
<1>1. PICK e \in Blocks :
        /\ ~Live(Missed(n), e)
        /\ cache' = Enter(MakeRoom(Opened(Missed(n), e, n)), e)
        /\ Hold(r, e)
  BY DEF GetOpened
<1>2. Running /\ MayGet(r)
  BY DEF GetOpened, MayGet
<1> DEFINE m == MakeRoom(Opened(Missed(n), e, n))
<1>3. /\ m \in Caches
      /\ Fit(m, More(Outside, e))
      /\ m.name[e] = n /\ ~Listed(m, e)
      /\ ~m.broken => m.num = Len(m.list) /\ m.num < MaxCached
  BY <1>1, <1>2, NewEntryFits
<1>4. cache' = Enter(m, e)
  BY <1>1
<1> HIDE DEF m
<1>5. /\ held' \in [Responses -> Blocks \union {Nothing}]
      /\ lost' \in [Blocks -> 0 .. MaxLost]
      /\ over' = over
      /\ Outside' = More(Outside, e)
  BY <1>1, <1>2, HoldStep DEF IInv
<1>6. More(Outside, e) \in Counts
  BY OutsideType DEF IInv, More, Counts
<1>7. cache' \in Caches /\ Fit(cache', More(Outside, e)) /\ NumFits(cache')
  BY <1>3, <1>4, <1>6, EnterFits
<1>8. ~cache'.broken => cache'.num \in 0 .. MaxCached
  BY <1>7, NumRange
<1>9. Typed'
  BY <1>5, <1>7 DEF IInv, Typed
<1>10. QED
  BY <1>5, <1>7, <1>8, <1>9 DEF IInv, Fit, Refs, Slots, Live, Listed, NumFits

LEMMA GetNotInsertedStep ==
  ASSUME IInv, NEW r \in Responses, NEW n \in Names, GetNotInserted(r, n)
  PROVE  IInv'
<1>1. PICK e \in Blocks :
        /\ ~Live(Missed(n), e)
        /\ cache' = Unref(MakeRoom(Opened(Missed(n), e, n)), e)
  BY DEF GetNotInserted
<1>2. Running /\ UNCHANGED <<held, lost, over>>
  BY DEF GetNotInserted, MayGet
<1> DEFINE m == MakeRoom(Opened(Missed(n), e, n))
<1>3. /\ m \in Caches
      /\ Fit(m, More(Outside, e))
      /\ ~m.broken => m.num = Len(m.list) /\ m.num < MaxCached
  BY <1>1, <1>2, NewEntryFits
<1>4. cache' = Unref(m, e)
  BY <1>1
<1> HIDE DEF m
<1>5. Outside \in Counts /\ Outside' = Outside
  BY <1>2, OutsideType, OutsideSame DEF IInv
<1>6. /\ cache' \in Caches
      /\ Fit(cache', Outside)
      /\ cache'.num = m.num /\ cache'.list = m.list
      /\ ~cache'.broken => ~m.broken
  BY <1>3, <1>4, <1>5, UnrefFits
<1>7. NumFits(cache')
  BY <1>3, <1>6, FcacheAssumption DEF NumFits, Caches
<1>8. ~cache'.broken => cache'.num \in 0 .. MaxCached
  BY <1>6, <1>7, NumRange
<1>9. Typed'
  BY <1>2, <1>6 DEF IInv, Typed
<1>10. QED
  BY <1>5, <1>6, <1>7, <1>8, <1>9 DEF IInv, Fit, Refs, Slots, Live, Listed, NumFits

LEMMA ReleaseStep ==
  ASSUME IInv, NEW r \in Responses, Release(r)
  PROVE  IInv'
<1>1. /\ Running /\ held[r] # Nothing
      /\ cache' = Unref(cache, held[r])
      /\ held' = [held EXCEPT ![r] = Nothing] /\ lost' = lost /\ over' = over
  BY DEF Release
<1>2. /\ held[r] \in Blocks
      /\ held' \in [Responses -> Blocks \union {Nothing}]
      /\ Outside' \in Counts
      /\ Outside = More(Outside', held[r])
  BY <1>1, ReleaseOutside DEF IInv
<1>3. cache \in Caches /\ Fit(cache, More(Outside', held[r])) /\ NumFits(cache)
  BY <1>1, <1>2 DEF IInv, Typed, Running
<1>4. /\ cache' \in Caches
      /\ Fit(cache', Outside')
      /\ cache'.num = cache.num /\ cache'.list = cache.list
      /\ ~cache'.broken => ~cache.broken
  BY <1>1, <1>2, <1>3, UnrefFits
<1>5. NumFits(cache')
  BY <1>3, <1>4 DEF NumFits
<1>6. ~cache'.broken => cache'.num \in 0 .. MaxCached
  BY <1>4, <1>5, NumRange
<1>7. Typed'
  BY <1>1, <1>2, <1>4 DEF IInv, Typed
<1>8. QED
  BY <1>4, <1>5, <1>6, <1>7 DEF IInv, Fit, Refs, Slots, Live, Listed, NumFits

LEMMA ModifyStep ==
  ASSUME IInv, NEW n \in Names, Modify(n)
  PROVE  IInv'
<1> DEFINE s == cache.stale \union {e \in Blocks : Live(cache, e) /\ cache.name[e] = n}
<1>1. cache' = [cache EXCEPT !.stale = s] /\ UNCHANGED <<held, lost, over>>
  BY DEF Modify
<1>2. s \in SUBSET Blocks
  BY DEF IInv, Typed, Caches
<1> HIDE DEF s
<1>3. /\ cache' \in Caches
      /\ cache'.map = cache.map /\ cache'.list = cache.list /\ cache'.num = cache.num
      /\ cache'.broken = cache.broken /\ cache'.name = cache.name /\ cache'.refs = cache.refs
  BY <1>1, <1>2 DEF IInv, Typed, Caches
<1>4. Outside' = Outside
  BY <1>1, OutsideSame
<1>5. Typed'
  BY <1>1, <1>3 DEF IInv, Typed
<1>6. Fit(cache, Outside)'
  BY <1>3, <1>4 DEF IInv, Fit, Refs, Slots, Live, Listed
<1>7. QED
  BY <1>1, <1>3, <1>5, <1>6 DEF IInv, NumFits

LEMMA DeinitFits ==
  ASSUME IInv, Deinit
  PROVE  /\ cache' \in Caches /\ Fit(cache', Outside) /\ cache'.num = cache.num
         /\ ~cache'.broken
<1> DEFINE e == Head(cache.list)
           t == Tail(cache.list)
           c == [cache EXCEPT !.list = t]
<1>1. /\ ~cache.broken /\ cache.list # <<>> /\ over' = TRUE /\ UNCHANGED <<held, lost>>
      /\ cache' = Unref(c, e)
  BY DEF Deinit, Sound
<1>2. /\ cache \in Caches /\ cache.list \in Seq(Blocks)
      /\ Refs(cache, Outside) /\ Slots(cache) /\ IsInjective(cache.list)
      /\ Outside \in Counts /\ Outside' = Outside
  BY <1>1, OutsideType, OutsideSame DEF IInv, Typed, Fit, Caches
<1>3. /\ t \in Seq(Blocks) /\ e \in Blocks
      /\ IsInjective(t) /\ e \in ToSet(cache.list) /\ ToSet(t) = ToSet(cache.list) \ {e}
  <2> DEFINE q == cache.list
  <2>1. /\ Len(q) \in Nat \ {0} /\ DOMAIN q = 1 .. Len(q) /\ e = q[1] /\ e \in Blocks
        /\ t \in Seq(Blocks) /\ DOMAIN t = 1 .. Len(q) - 1
        /\ \A i \in 1 .. Len(q) - 1 : t[i] = q[i + 1]
    BY <1>1, <1>2
  <2>2. IsInjective(q)
    BY <1>2
  <2> HIDE DEF q, t, e
  <2>3. IsInjective(t)
    <3>1. ASSUME NEW i \in 1 .. Len(q) - 1, NEW j \in 1 .. Len(q) - 1, t[i] = t[j]
          PROVE  i = j
      <4>1. i + 1 \in 1 .. Len(q) /\ j + 1 \in 1 .. Len(q) /\ q[i + 1] = q[j + 1]
        BY <2>1, <3>1
      <4>2. i + 1 = j + 1
        BY <2>1, <2>2, <4>1 DEF IsInjective
      <4>3. QED
        BY <2>1, <4>2
    <3>2. QED
      BY <2>1, <3>1 DEF IsInjective
  <2>4. e \in ToSet(q)
    BY <2>1 DEF ToSet
  <2>5. ASSUME NEW x \in ToSet(t) PROVE x \in ToSet(q) /\ x # e
    <3>1. PICK i \in 1 .. Len(q) - 1 : t[i] = x
      BY <2>1 DEF ToSet
    <3>2. /\ i + 1 \in 1 .. Len(q) /\ 1 \in 1 .. Len(q) /\ i + 1 # 1
          /\ q[i + 1] = x
      BY <2>1, <3>1
    <3>3. QED
      BY <2>1, <2>2, <3>2 DEF ToSet, IsInjective
  <2>6. ASSUME NEW x \in ToSet(q), x # e PROVE x \in ToSet(t)
    <3>1. PICK i \in 1 .. Len(q) : q[i] = x
      BY <2>1 DEF ToSet
    <3>2. i - 1 \in 1 .. Len(q) - 1 /\ (i - 1) + 1 = i
      BY <2>1, <2>6, <3>1
    <3>3. t[i - 1] = x
      BY <2>1, <3>1, <3>2
    <3>4. QED
      BY <2>1, <3>2, <3>3 DEF ToSet
  <2>7. QED
    BY <2>1, <2>3, <2>4, <2>5, <2>6 DEF q
<1> HIDE DEF e, t
<1>4. /\ c \in Caches
      /\ c.map = cache.map /\ c.list = t /\ c.num = cache.num /\ c.broken = cache.broken
      /\ c.refs = cache.refs /\ c.name = cache.name
  BY <1>2, <1>3 DEF Caches
<1> HIDE DEF c
<1>5. Refs(c, More(Outside, e))
  <2> SUFFICES ASSUME NEW x \in Blocks
               PROVE  c.refs[x] = More(Outside, e)[x] + (IF Listed(c, x) THEN 1 ELSE 0)
    BY DEF Refs
  <2>1. cache.refs[x] = Outside[x] + (IF Listed(cache, x) THEN 1 ELSE 0) /\ Outside[x] \in Nat
    BY <1>2 DEF Refs, Counts
  <2>2. CASE x = e
    BY <1>2, <1>3, <1>4, <2>1, <2>2 DEF Listed, More, Counts
  <2>3. CASE x # e
    BY <1>2, <1>3, <1>4, <2>1, <2>3 DEF Listed, More, Counts
  <2>4. QED
    BY <2>2, <2>3
<1>6. Fit(c, More(Outside, e))
  BY <1>2, <1>3, <1>4, <1>5 DEF Fit, Slots, Live
<1>7. QED
  BY <1>1, <1>2, <1>3, <1>4, <1>6, UnrefFits

LEMMA DeinitStep == ASSUME IInv, Deinit PROVE IInv'
<1>1. /\ cache' \in Caches /\ Fit(cache', Outside) /\ cache'.num = cache.num
      /\ over' = TRUE /\ UNCHANGED <<held, lost>> /\ Outside' = Outside
  BY DeinitFits, OutsideSame DEF Deinit
<1>2. Typed' /\ cache'.num \in 0 .. MaxCached
  BY <1>1 DEF IInv, Typed, Deinit, Sound
<1>3. QED
  <2>1. Fit(cache, Outside)'
    BY <1>1 DEF Fit, Refs, Slots, Live, Listed
  <2>2. QED
    BY <1>1, <1>2, <2>1 DEF IInv

LEMMA NextStep == ASSUME IInv, [Next]_vars PROVE IInv'
<1>1. CASE \E r \in Responses, n \in Names : GetCached(r, n)
  BY <1>1, GetCachedStep
<1>2. CASE \E r \in Responses, n \in Names : GetFails(r, n)
  BY <1>2, GetFailsStep
<1>3. CASE \E r \in Responses, n \in Names : GetOpened(r, n)
  BY <1>3, GetOpenedStep
<1>4. CASE \E r \in Responses, n \in Names : GetNotInserted(r, n)
  BY <1>4, GetNotInsertedStep
<1>5. CASE \E n \in Names : Modify(n)
  BY <1>5, ModifyStep
<1>6. CASE \E r \in Responses : Release(r)
  BY <1>6, ReleaseStep
<1>7. CASE Deinit
  BY <1>7, DeinitStep
<1>8. CASE UNCHANGED vars
  BY <1>8, OutsideSame DEF vars, IInv, Typed, Fit, Refs, Slots, Live, Listed, NumFits
<1>9. QED
  BY <1>1, <1>2, <1>3, <1>4, <1>5, <1>6, <1>7, <1>8 DEF Next

LEMMA Inductive == Spec => []IInv
<1>1. Init => IInv
  BY InitStep
<1>2. IInv /\ [Next]_vars => IInv'
  BY NextStep
<1>3. QED
  BY <1>1, <1>2, PTL DEF Spec

-----------------------------------------------------------------------------
(* As long as no assertion of th_fcache.c has failed: a block is           *)
(* referenced exactly by the list, by the responses that serve it and by   *)
(* references that were overwritten, and until th_fcache_deinit the count  *)
(* of cached files is the length of the list and within the capacity.      *)
THEOREM RefsAreExact == Spec => []RefsExact
<1>1. IInv => RefsExact
  <2> SUFFICES ASSUME IInv PROVE RefsExact
    OBVIOUS
  <2>1. TypeOK
    <3>1. DOMAIN cache.map \subseteq Names /\ Range(cache.map) \subseteq Blocks
      BY MapsDef DEF IInv, Typed, Caches, Range
    <3>2. QED
      BY <3>1 DEF IInv, Typed, Caches, TypeOK
  <2>2. ASSUME Sound, NEW e \in Blocks
        PROVE  cache.refs[e] = Cardinality({r \in Responses : held[r] = e}) + lost[e]
                               + (IF Listed(cache, e) THEN 1 ELSE 0)
    BY <2>2 DEF IInv, Sound, Fit, Refs, Outside
  <2>3. ASSUME Running
        PROVE  /\ cache.num = Len(cache.list) /\ cache.num <= MaxCached
               /\ IsInjective(cache.list)
    BY <2>3 DEF IInv, Running, Sound, Fit, NumFits
  <2>4. QED
    BY <2>1, <2>2, <2>3 DEF RefsExact
<1>2. QED
  BY <1>1, Inductive, PTL

(* As long as no assertion has failed, the map, which holds no reference,  *)
(* leads to an open entry of the right name, whatever order entries are    *)
(* evicted, replaced and released in (th_fcache_entry_actual_destroy).     *)
THEOREM SlotsStayLive == Spec => []SlotsAreLive
<1>1. IInv => SlotsAreLive
  BY DEF IInv, SlotsAreLive, Sound, Fit, Slots
<1>2. QED
  BY <1>1, Inductive, PTL

LEMMA BreakStep ==
  ASSUME IInv, [Next]_vars, ~cache.broken, cache'.broken
  PROVE  ~over /\ \E n \in Names : Evicted(n)
<1>1. /\ cache \in Caches /\ Fit(cache, Outside) /\ Outside \in Counts
      /\ Refs(cache, Outside) /\ Slots(cache) /\ IsInjective(cache.list)
  BY OutsideType DEF IInv, Typed, Fit
<1>2. ASSUME NEW r \in Responses, NEW n \in Names, GetCached(r, n) PROVE Evicted(n) /\ ~over
  <2> DEFINE e == cache.map[n]
             u == Unlink(cache, e)
  <2>1. n \in DOMAIN cache.map /\ e \in Blocks /\ ~over
    BY <1>1, <1>2, MapsDef DEF GetCached, Hit, Caches, MayGet, Running
  <2>2. cache' = [u EXCEPT !.list = Append(u.list, e), !.refs[e] = @ + 1]
    BY <1>2 DEF GetCached
  <2>3. u \in Caches /\ (Listed(cache, e) => u.broken = cache.broken)
    BY <1>1, <2>1, UnlinkFits
  <2> HIDE DEF u
  <2>4. cache'.broken = u.broken
    BY <2>2, <2>3 DEF Caches
  <2>5. QED
    BY <2>1, <2>3, <2>4 DEF Evicted
<1>3. ASSUME NEW r \in Responses, NEW n \in Names, GetFails(r, n) PROVE Evicted(n) /\ ~over
  <2>1. Running /\ cache' = Missed(n)
    BY <1>3 DEF GetFails, MayGet
  <2>2. QED
    BY <2>1, MissedFits DEF Running
<1>4. ASSUME NEW r \in Responses, NEW n \in Names, GetOpened(r, n) PROVE Evicted(n) /\ ~over
  <2>1. Running
    BY <1>4 DEF GetOpened, MayGet
  <2>2. PICK e \in Blocks :
          ~Live(Missed(n), e) /\ cache' = Enter(MakeRoom(Opened(Missed(n), e, n)), e)
    BY <1>4 DEF GetOpened
  <2> DEFINE m == MakeRoom(Opened(Missed(n), e, n))
  <2>3. /\ m \in Caches /\ Fit(m, More(Outside, e)) /\ m.name[e] = n /\ ~Listed(m, e)
        /\ ~m.broken => m.num = Len(m.list) /\ m.num < MaxCached
        /\ ~Evicted(n) => ~m.broken
    BY <2>1, <2>2, NewEntryFits
  <2>4. cache' = Enter(m, e)
    BY <2>2
  <2>5. More(Outside, e) \in Counts
    BY <1>1 DEF More, Counts
  <2> HIDE DEF m
  <2>6. cache'.broken = m.broken
    BY <2>3, <2>4, <2>5, EnterFits
  <2>7. QED
    BY <2>1, <2>3, <2>6 DEF Running
<1>5. ASSUME NEW r \in Responses, NEW n \in Names, GetNotInserted(r, n) PROVE Evicted(n) /\ ~over
  <2>1. Running
    BY <1>5 DEF GetNotInserted, MayGet
  <2>2. PICK e \in Blocks :
          ~Live(Missed(n), e) /\ cache' = Unref(MakeRoom(Opened(Missed(n), e, n)), e)
    BY <1>5 DEF GetNotInserted
  <2> DEFINE m == MakeRoom(Opened(Missed(n), e, n))
  <2>3. m \in Caches /\ Fit(m, More(Outside, e)) /\ (~Evicted(n) => ~m.broken)
    BY <2>1, <2>2, NewEntryFits
  <2>4. cache' = Unref(m, e)
    BY <2>2
  <2> HIDE DEF m
  <2>5. ~cache'.broken <=> ~m.broken
    BY <1>1, <2>3, <2>4, UnrefFits
  <2>6. QED
    BY <2>1, <2>3, <2>5 DEF Running
<1>6. ASSUME NEW r \in Responses, Release(r) PROVE FALSE
  <2>1. /\ held[r] # Nothing /\ cache' = Unref(cache, held[r])
        /\ held' = [held EXCEPT ![r] = Nothing] /\ lost' = lost
    BY <1>6 DEF Release
  <2>2. held[r] \in Blocks /\ Outside' \in Counts /\ Outside = More(Outside', held[r])
    BY <2>1, ReleaseOutside DEF IInv
  <2>3. Fit(cache, More(Outside', held[r]))
    BY <1>1, <2>2
  <2>4. QED
    BY <1>1, <2>1, <2>2, <2>3, UnrefFits
<1>7. ASSUME Deinit PROVE FALSE
  BY <1>1, <1>7, DeinitFits
<1>8. ASSUME NEW n \in Names, Modify(n) PROVE FALSE
  BY <1>1, <1>8 DEF Modify, Caches
<1>9. QED
  BY <1>2, <1>3, <1>4, <1>5, <1>6, <1>7, <1>8 DEF Next, vars

(* Of the assertions of th_fcache.c only one can fail, that of             *)
(* th_fcache_list_erase, and only when a file is asked for whose entry was *)
(* evicted while a response served it; references are never given back     *)
(* twice, and a full cache always has an entry to evict.                   *)
THEOREM OnlyEvictedBreaks ==
  Spec => [][~cache.broken /\ cache'.broken => ~over /\ \E n \in Names : Evicted(n)]_vars
<1>1. IInv /\ [Next]_vars =>
        (~cache.broken /\ cache'.broken => ~over /\ \E n \in Names : Evicted(n))
  BY BreakStep
<1>2. QED
  BY <1>1, Inductive, PTL DEF Spec
=============================================================================
