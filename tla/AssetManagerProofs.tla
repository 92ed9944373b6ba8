------------------------- MODULE AssetManagerProofs -------------------------
(***************************************************************************)
(* Proofs about AssetManager, for any threads, keys, loaders and bounds.   *)
(* A reference count is the number of places that own the entry: the       *)
(* assets that threads hold, the retainer, what other assets keep alive,   *)
(* and the calls on the stacks.                                            *)
(***************************************************************************)
EXTENDS AssetManager, FiniteSetTheorems, TLAPS

----------------------------------------------------------------------------
(* Who owns an entry *)

LoadOps == {"fetch", "insert", "init", "loader", "unwind"}

\* The calls that own their entry.
Holding == {"init", "loader", "unwind", "peek"}

\* The places where a sequence has e.
Places(s, e) == {j \in DOMAIN s : s[j] = e}
Occ(s, e) == Cardinality(Places(s, e))

\* The places in a call that own e.  What the retainer reaps is still its own, and the
\* unwinding of a loader has put what it kept to the rest.
FrameOwns(f, e) ==
  {<<"entry", j>> : j \in {x \in {1} : f.op \in Holding /\ f.entry = e}}
  \cup {<<"rest", j>> : j \in {x \in Places(f.rest, e) : f.op # "reap"}}
  \cup {<<"keep", j>> : j \in {x \in Places(f.keep, e) : f.op = "loader"}}

\* How many they are.
Holds(f, e) ==
  (IF f.op \in Holding /\ f.entry = e THEN 1 ELSE 0)
  + (IF f.op # "reap" THEN Occ(f.rest, e) ELSE 0)
  + (IF f.op = "loader" THEN Occ(f.keep, e) ELSE 0)

HeldBy(hd, e) == {t \in Threads : e \in hd[t]}

Keeps(es) == [x \in DOMAIN es |-> es[x].keep]
KeptBy(ks, e) == UNION {{<<x, j>> : j \in Places(ks[x], e)} : x \in DOMAIN ks}

OnStacks(st, e) ==
  UNION {UNION {{<<<<t, i>>, y>> : y \in FrameOwns(st[t][i], e)} : i \in DOMAIN st[t]} : t \in Threads}

FiniteOwners(hd, ks, st, e) ==
  IsFiniteSet(HeldBy(hd, e)) /\ IsFiniteSet(KeptBy(ks, e)) /\ IsFiniteSet(OnStacks(st, e))

Owners(hd, rt, ks, st, e) ==
  Cardinality(HeldBy(hd, e)) + (IF e \in DOMAIN rt THEN 1 ELSE 0)
  + Cardinality(KeptBy(ks, e)) + Cardinality(OnStacks(st, e))

\* A reference count is the number of owners.
CountedAt(e) ==
  /\ FiniteOwners(held, Keeps(entries), stack, e)
  /\ entries[e].strong = Owners(held, retained, Keeps(entries), stack, e)

Counted == \A e \in Entry : CountedAt(e)

----------------------------------------------------------------------------
(* The inductive invariant *)

\* What a call knows of its entry.  A load for a thread's own code or for the retainer is
\* the first call on its stack, and the thread holds no asset of that key yet.
FrameSound(f, t, i) ==
  /\ f.op \in {"fetch", "insert", "init", "peek", "remove"} => f.rest = <<>>
  /\ f.op \in {"fetch", "insert", "init"} => f.keep = <<>> /\ f.loaded = 0
  /\ f.op \in Holding => f.entry \in Entry /\ entries[f.entry].key = f.key
  /\ f.op \in {"remove", "fields"} => f.entry \in Entry /\ entries[f.entry].strong = 0
  /\ f.op \in {"loader", "unwind"} => entries[f.entry].value = "busy"
  /\ f.op = "reap" => t = Painter /\ i = 1
  /\ f.caller = "loader" => f.op \in LoadOps /\ i > 1
  /\ f.caller = "retainer" => f.op \in LoadOps /\ t = Painter
  /\ f.op \in LoadOps \cup {"peek"} /\ f.caller # "loader" =>
       i = 1 /\ \A e \in held[t] : entries[e].key # f.key
  /\ f.op = "loader" =>
       /\ f.loaded <= Len(DependsOn[f.key]) /\ Len(f.keep) <= f.loaded
       /\ \A j \in DOMAIN f.keep :
            /\ entries[f.keep[j]].key = DependsOn[f.key][j]
            /\ entries[f.keep[j]].value = "ready"

FramesSound == \A t \in Threads : \A i \in DOMAIN stack[t] : FrameSound(stack[t][i], t, i)

\* Only a loader, or one of the loops of drops, waits for a call, and a loader waits for
\* the load of the key that comes next.
Waits(s, i) == i < Len(s) /\ s[i + 1].caller = "loader"

NestedAt(s, i) ==
  /\ i < Len(s) => s[i].op \in {"loader", "unwind", "fields", "reap"}
  /\ s[i].op = "loader" => s[i].loaded = Len(s[i].keep) + (IF Waits(s, i) THEN 1 ELSE 0)
  /\ Waits(s, i) => s[i].op = "loader" /\ s[i + 1].key = DependsOn[s[i].key][s[i].loaded]

Nested == \A t \in Threads : \A i \in DOMAIN stack[t] : NestedAt(stack[t], i)

\* An entry is busy because one call runs its loader.
Runs(st, t, i, e) ==
  i \in DOMAIN st[t] /\ st[t][i].op \in {"loader", "unwind"} /\ st[t][i].entry = e

BusyOnce ==
  \A e \in Entry :
    /\ entries[e].value = "busy" => \E t \in Threads : \E i \in DOMAIN stack[t] : Runs(stack, t, i, e)
    /\ \A t, u \in Threads : \A i \in DOMAIN stack[t] : \A j \in DOMAIN stack[u] :
         Runs(stack, t, i, e) /\ Runs(stack, u, j, e) => t = u /\ i = j

\* A live asset keeps what its loader has loaded.
KeepsSound ==
  \A e \in Entry :
    /\ entries[e].id = e
    /\ \A j \in DOMAIN entries[e].keep : entries[entries[e].keep[j]].value = "ready"
    /\ entries[e].value # "ready" => entries[e].keep = <<>>
    /\ Alive(e) /\ Ready(e) =>
         /\ Len(entries[e].keep) = Len(DependsOn[entries[e].key])
         /\ \A j \in DOMAIN entries[e].keep :
              entries[entries[e].keep[j]].key = DependsOn[entries[e].key][j]

MapSound ==
  \A k \in DOMAIN asset_map :
    asset_map[k].id = asset_map[k].weak /\ entries[asset_map[k].weak].key = k

HeldReady ==
  /\ \A t \in Threads : \A e \in held[t] : Ready(e)
  /\ \A e \in DOMAIN retained : Ready(e)

\* While the retainer reaps, the rest is marked by what the last frame has used, and what
\* it has looked at already was used.
Reaping == stack[Painter] # <<>> /\ stack[Painter][1].op = "reap"

RetainerSound ==
  /\ retained = [e \in DOMAIN retained |-> retained[e]]
  /\ IF Reaping
     THEN LET rest == stack[Painter][1].rest IN
          /\ used = {} /\ used_before \subseteq DOMAIN retained
          /\ \A i, j \in DOMAIN rest : rest[i] = rest[j] => i = j
          /\ \A i \in DOMAIN rest : rest[i] \in DOMAIN retained
          /\ \A e \in DOMAIN retained :
               IF e \in {rest[i] : i \in DOMAIN rest} THEN retained[e] <=> e \in used_before
               ELSE e \in used_before /\ ~retained[e]
     ELSE /\ DOMAIN retained = used \cup used_before
          /\ \A e \in DOMAIN retained : retained[e] <=> e \in used

IInv ==
  /\ TypeOK
  /\ FramesSound /\ Nested
  /\ Counted
  /\ BusyOnce /\ KeepsSound /\ HeldReady
  /\ MapSound /\ LiveIsShared /\ NothingLeaks
  /\ RetainerSound

----------------------------------------------------------------------------
(* Counting *)

\* An entry and a call, when there are n entries.
EntryOf(n) == [key : Keys, id : Nat, strong : Nat, keep : Seq(1..n), value : {"empty", "busy", "ready"}]

FrameOf(n) == [op : Ops, caller : Callers, key : Keys, entry : (1..n) \cup {NoEntry},
               rest : Seq(1..n), keep : Seq(1..n), loaded : Nat]

\* Labelled elements: of each slot s the elements of P[s].
Labelled(P) == UNION {{<<s, y>> : y \in P[s]} : s \in DOMAIN P}

LEMMA LabelledIn ==
  ASSUME NEW P, NEW x
  PROVE  x \in Labelled(P) <=> \E s \in DOMAIN P : \E y \in P[s] : x = <<s, y>>
BY DEF Labelled

\* One slot's elements, as a set and with the label.
LEMMA SlotCount ==
  ASSUME NEW s, NEW X
  PROVE  LET L == {<<s, y>> : y \in X}
         IN  /\ IsFiniteSet(X) => IsFiniteSet(L) /\ Cardinality(L) = Cardinality(X)
             /\ IsFiniteSet(L) => IsFiniteSet(X) /\ Cardinality(L) = Cardinality(X)
<1> DEFINE L == {<<s, y>> : y \in X}
           f == [y \in X |-> <<s, y>>]
           g == [z \in L |-> z[2]]
<1>1. f \in Bijection(X, L)
  BY DEF Bijection, Injection, Surjection, IsInjective
<1>2. g \in Bijection(L, X)
  <2>1. \A z \in L : z[2] \in X /\ z = <<s, z[2]>>
    OBVIOUS
  <2>2. \A y \in X : <<s, y>> \in L /\ <<s, y>>[2] = y
    OBVIOUS
  <2> HIDE DEF L
  <2>3. g \in [L -> X] /\ \A z \in L : g[z] = z[2]
    BY <2>1
  <2>4. \A y, z \in L : g[y] = g[z] => y = z
    BY <2>1, <2>3
  <2>5. \A y \in X : \E z \in L : g[z] = y
    BY <2>2, <2>3
  <2> HIDE DEF g
  <2>6. QED
    BY <2>3, <2>4, <2>5 DEF Bijection, Injection, Surjection, IsInjective
<1>3. ExistsBijection(X, L) /\ ExistsBijection(L, X)
  BY <1>1, <1>2 DEF ExistsBijection
<1> HIDE DEF L, f, g
<1>4. IsFiniteSet(X) => IsFiniteSet(L) /\ Cardinality(L) = Cardinality(X)
  BY <1>3, FS_Bijection
<1>5. IsFiniteSet(L) => IsFiniteSet(X) /\ Cardinality(L) = Cardinality(X)
  BY <1>3, FS_Bijection
<1>6. QED
  BY <1>4, <1>5 DEF L

\* X is exchanged for Y.
LEMMA Exchange ==
  ASSUME NEW S, NEW X, NEW Y, IsFiniteSet(S), IsFiniteSet(Y), X \subseteq S, Y \cap (S \ X) = {}
  PROVE  /\ IsFiniteSet((S \ X) \cup Y) /\ IsFiniteSet(X)
         /\ Cardinality((S \ X) \cup Y) = Cardinality(S) - Cardinality(X) + Cardinality(Y)
         /\ Cardinality(S) \in Nat /\ Cardinality(X) \in Nat /\ Cardinality(Y) \in Nat
<1>1. IsFiniteSet(X) /\ Cardinality(S) \in Nat /\ Cardinality(X) \in Nat /\ Cardinality(Y) \in Nat
  BY FS_Subset, FS_CardinalityType
<1>2. IsFiniteSet(S \ X) /\ Cardinality(S \ X) = Cardinality(S) - Cardinality(X)
  <2>1. S \cap X = X
    OBVIOUS
  <2>2. QED
    BY <2>1, FS_Difference
<1>3. (S \ X) \cap Y = {} /\ Cardinality({}) = 0
  BY FS_EmptySet
<1>4. /\ IsFiniteSet((S \ X) \cup Y)
      /\ Cardinality((S \ X) \cup Y) = Cardinality(S \ X) + Cardinality(Y) - Cardinality({})
  <2>1. Cardinality((S \ X) \cup Y) = Cardinality(S \ X) + Cardinality(Y) - Cardinality((S \ X) \cap Y)
        /\ IsFiniteSet((S \ X) \cup Y)
    BY <1>2, FS_Union
  <2>2. QED
    BY <2>1, <1>3
<1>5. QED
  BY <1>1, <1>2, <1>3, <1>4

\* The elements of one slot change.
LEMMA OneSlot ==
  ASSUME NEW P, NEW Q, NEW s \in DOMAIN P, DOMAIN Q = DOMAIN P,
         \A x \in DOMAIN P : x # s => Q[x] = P[x],
         IsFiniteSet(Labelled(P)), IsFiniteSet(Q[s])
  PROVE  /\ IsFiniteSet(Labelled(Q)) /\ IsFiniteSet(P[s])
         /\ Cardinality(Labelled(Q)) = Cardinality(Labelled(P)) - Cardinality(P[s]) + Cardinality(Q[s])
         /\ Cardinality(Labelled(P)) \in Nat /\ Cardinality(P[s]) \in Nat /\ Cardinality(Q[s]) \in Nat
<1> DEFINE X == {<<s, y>> : y \in P[s]}
           Y == {<<s, y>> : y \in Q[s]}
           S == Labelled(P)
<1>1. X \subseteq S
  BY DEF Labelled
<1>2. IsFiniteSet(Y) /\ Cardinality(Y) = Cardinality(Q[s])
  BY SlotCount
<1>3. IsFiniteSet(X) /\ IsFiniteSet(P[s]) /\ Cardinality(X) = Cardinality(P[s])
  <2>1. IsFiniteSet(X)
    BY <1>1, FS_Subset
  <2>2. IsFiniteSet(X) => IsFiniteSet(P[s]) /\ Cardinality(X) = Cardinality(P[s])
    BY SlotCount
  <2>3. QED
    BY <2>1, <2>2
<1>4. \A z : z \in S \ X <=> \E x \in DOMAIN P : x # s /\ \E y \in P[x] : z = <<x, y>>
  BY LabelledIn
<1>5. Y \cap (S \ X) = {}
  BY <1>4
<1>6. \A z : z \in Labelled(Q) <=> z \in (S \ X) \/ z \in Y
  <2> SUFFICES ASSUME NEW z PROVE z \in Labelled(Q) <=> z \in (S \ X) \/ z \in Y
    OBVIOUS
  <2>1. z \in Labelled(Q) <=> \E x \in DOMAIN Q : \E y \in Q[x] : z = <<x, y>>
    BY LabelledIn
  <2>2. z \in Y <=> \E y \in Q[s] : z = <<s, y>>
    OBVIOUS
  <2>3. QED
    BY ONLY <2>1, <2>2, <1>4, s \in DOMAIN P, DOMAIN Q = DOMAIN P, \A x \in DOMAIN P : x # s => Q[x] = P[x]
<1>7. Labelled(Q) = (S \ X) \cup Y
  BY <1>6
<1>8. IsFiniteSet(S)
  OBVIOUS
<1> HIDE DEF X, Y, S
<1>9. /\ IsFiniteSet((S \ X) \cup Y)
      /\ Cardinality((S \ X) \cup Y) = Cardinality(S) - Cardinality(X) + Cardinality(Y)
      /\ Cardinality(S) \in Nat /\ Cardinality(X) \in Nat /\ Cardinality(Y) \in Nat
  <2>1. IsFiniteSet(Y)
    BY <1>2, IsFiniteSet(Q[s])
  <2>2. QED
    BY ONLY <1>1, <1>5, <1>8, <2>1, Exchange
<1>10. QED
  BY <1>2, <1>3, <1>7, <1>9 DEF S

LEMMA PlacesFinite ==
  ASSUME NEW S, NEW s \in Seq(S), NEW e
  PROVE  /\ IsFiniteSet(Places(s, e)) /\ Occ(s, e) \in Nat
         /\ \A i \in DOMAIN s : s[i] = e => Occ(s, e) > 0
<1>1. IsFiniteSet(1..Len(s)) /\ Places(s, e) \in SUBSET (1..Len(s))
  BY FS_Interval DEF Places
<1>2. IsFiniteSet(Places(s, e)) /\ Occ(s, e) \in Nat
  BY <1>1, FS_Subset, FS_CardinalityType DEF Occ
<1>3. \A i \in DOMAIN s : s[i] = e => Places(s, e) # {}
  BY DEF Places
<1>4. QED
  BY <1>2, <1>3, FS_EmptySet DEF Occ

LEMMA OccEmpty == \A e : Occ(<<>>, e) = 0
<1>1. \A e : Places(<<>>, e) = {}
  BY DEF Places
<1>2. QED
  BY <1>1, FS_EmptySet DEF Occ

LEMMA OccAppend ==
  ASSUME NEW S, NEW s \in Seq(S), NEW x \in S, NEW e
  PROVE  Occ(Append(s, x), e) = Occ(s, e) + (IF x = e THEN 1 ELSE 0)
<1>1. Places(Append(s, x), e) = IF x = e THEN Places(s, e) \cup {Len(s) + 1} ELSE Places(s, e)
  BY DEF Places
<1>2. Len(s) + 1 \notin Places(s, e)
  BY DEF Places
<1>3. IsFiniteSet(Places(s, e)) /\ Occ(s, e) \in Nat
  BY PlacesFinite
<1>4. CASE x = e
  <2>1. Cardinality(Places(s, e) \cup {Len(s) + 1}) = Cardinality(Places(s, e)) + 1
    BY <1>2, <1>3, FS_AddElement
  <2>2. QED
    BY <2>1, <1>1, <1>4 DEF Occ
<1>5. CASE x # e
  BY <1>1, <1>3, <1>5 DEF Occ
<1>6. QED
  BY <1>4, <1>5

\* Places move by k.
Shift(X, k) == {x + k : x \in X}

LEMMA Shifted ==
  ASSUME NEW X, X \subseteq Nat, IsFiniteSet(X), NEW k \in Int
  PROVE  IsFiniteSet(Shift(X, k)) /\ Cardinality(Shift(X, k)) = Cardinality(X)
<1> DEFINE Y == {y + k : y \in X}
           f == [x \in X |-> x + k]
<1>1. f \in Bijection(X, Y)
  BY DEF Bijection, Injection, Surjection, IsInjective
<1>2. ExistsBijection(X, Y)
  BY <1>1 DEF ExistsBijection
<1> HIDE DEF f, Y
<1>3. IsFiniteSet(Y) /\ Cardinality(Y) = Cardinality(X)
  BY <1>2, FS_Bijection
<1>4. QED
  BY <1>3 DEF Y, Shift

LEMMA OccTail ==
  ASSUME NEW S, NEW s \in Seq(S), s # <<>>, NEW e
  PROVE  Occ(Tail(s), e) = Occ(s, e) - (IF Head(s) = e THEN 1 ELSE 0)
<1> DEFINE X == Places(Tail(s), e)
           Y == Shift(X, 1)
<1>0. Tail(s) \in Seq(S) /\ Len(Tail(s)) = Len(s) - 1 /\ Len(s) \in Nat /\ Len(s) >= 1
      /\ \A j \in 1..(Len(s) - 1) : Tail(s)[j] = s[j + 1]
  OBVIOUS
<1>1. IsFiniteSet(X) /\ X \subseteq Nat
  <2>1. X \subseteq Nat
    BY <1>0 DEF Places
  <2>2. QED
    BY <1>0, <2>1, PlacesFinite
<1>2. IsFiniteSet(Y) /\ Cardinality(Y) = Cardinality(X)
  BY <1>1, Shifted
<1>3. \A j : j \in Places(s, e) <=> (j = 1 /\ s[1] = e) \/ j \in Y
  <2>1. ASSUME NEW j \in Places(s, e) PROVE (j = 1 /\ s[1] = e) \/ j \in Y
    <3>1. j \in 1..Len(s) /\ s[j] = e
      BY DEF Places
    <3>2. CASE j = 1
      BY <3>1, <3>2
    <3>3. CASE j # 1
      <4>1. j - 1 \in 1..(Len(s) - 1) /\ (j - 1) + 1 = j
        BY <3>1, <3>3, <1>0
      <4>2. Tail(s)[j - 1] = e
        BY <4>1, <3>1, <1>0
      <4>3. j - 1 \in X
        BY <4>1, <4>2, <1>0 DEF Places
      <4>4. QED
        BY <4>1, <4>3 DEF Shift
    <3>4. QED
      BY <3>2, <3>3
  <2>2. ASSUME NEW j \in X PROVE j + 1 \in Places(s, e)
    BY <1>0 DEF Places
  <2>3. s[1] = e => 1 \in Places(s, e)
    BY <1>0 DEF Places
  <2>4. QED
    BY <2>1, <2>2, <2>3 DEF Shift
<1>4. 1 \notin Y
  BY <1>0 DEF Places, Shift
<1>5. Places(s, e) = IF s[1] = e THEN Y \cup {1} ELSE Y
  BY <1>3
<1>6. Cardinality(Y \cup {1}) = Cardinality(Y) + 1
  BY <1>2, <1>4, FS_AddElement
<1>7. Cardinality(X) \in Nat /\ Occ(Tail(s), e) = Cardinality(X) /\ Occ(s, e) = Cardinality(Places(s, e))
  BY <1>1, FS_CardinalityType DEF Occ
<1>8. Head(s) = s[1]
  OBVIOUS
<1> HIDE DEF X, Y
<1>9. QED
  BY <1>2, <1>5, <1>6, <1>7, <1>8

LEMMA OccConcat ==
  ASSUME NEW S, NEW s \in Seq(S), NEW r \in Seq(S), NEW e
  PROVE  Occ(s \o r, e) = Occ(s, e) + Occ(r, e)
<1> DEFINE X == Places(r, e)
           Y == Shift(X, Len(s))
<1>0. /\ s \o r \in Seq(S) /\ Len(s \o r) = Len(s) + Len(r) /\ Len(s) \in Nat /\ Len(r) \in Nat
      /\ \A j \in 1..Len(s) : (s \o r)[j] = s[j]
      /\ \A j \in 1..Len(r) : (s \o r)[Len(s) + j] = r[j]
  OBVIOUS
<1>1. IsFiniteSet(X) /\ X \subseteq Nat /\ IsFiniteSet(Places(s, e))
  <2>1. X \subseteq Nat
    BY <1>0 DEF Places
  <2>2. QED
    BY <2>1, PlacesFinite
<1>2. IsFiniteSet(Y) /\ Cardinality(Y) = Cardinality(X)
  BY <1>0, <1>1, Shifted
<1>3. \A j : j \in Places(s \o r, e) <=> j \in Places(s, e) \/ j \in Y
  <2>1. ASSUME NEW j \in Places(s \o r, e) PROVE j \in Places(s, e) \/ j \in Y
    <3>1. j \in 1..(Len(s) + Len(r)) /\ (s \o r)[j] = e
      BY <1>0 DEF Places
    <3>2. CASE j <= Len(s)
      BY <1>0, <3>1, <3>2 DEF Places
    <3>3. CASE j > Len(s)
      <4>1. j - Len(s) \in 1..Len(r) /\ Len(s) + (j - Len(s)) = j /\ (j - Len(s)) + Len(s) = j
        BY <3>1, <3>3, <1>0
      <4>2. r[j - Len(s)] = e
        BY <4>1, <3>1, <1>0
      <4>3. QED
        BY <4>1, <4>2 DEF Places, Shift
    <3>4. QED
      BY <3>1, <3>2, <3>3, <1>0
  <2>2. ASSUME NEW j \in X PROVE j + Len(s) \in Places(s \o r, e)
    BY <1>0 DEF Places
  <2>3. ASSUME NEW j \in Places(s, e) PROVE j \in Places(s \o r, e)
    BY <1>0 DEF Places
  <2>4. QED
    BY <2>1, <2>2, <2>3 DEF Shift
<1>4. Places(s, e) \cap Y = {}
  BY <1>0 DEF Places, Shift
<1>5. Places(s \o r, e) = Places(s, e) \cup Y
  BY <1>3
<1> HIDE DEF X, Y
<1>6. Cardinality(Places(s, e) \cup Y) = Cardinality(Places(s, e)) + Cardinality(Y) - Cardinality({})
  <2>1. Cardinality(Places(s, e) \cup Y)
          = Cardinality(Places(s, e)) + Cardinality(Y) - Cardinality(Places(s, e) \cap Y)
    BY <1>1, <1>2, FS_Union
  <2>2. QED
    BY <2>1, <1>4
<1>7. Cardinality(X) \in Nat /\ Cardinality(Places(s, e)) \in Nat /\ Cardinality({}) = 0
  BY <1>1, FS_CardinalityType, FS_EmptySet
<1>8. Occ(s \o r, e) = Cardinality(Places(s \o r, e)) /\ Occ(s, e) = Cardinality(Places(s, e))
      /\ Occ(r, e) = Cardinality(X)
  BY DEF Occ, X
<1>9. QED
  BY ONLY <1>2, <1>5, <1>6, <1>7, <1>8

----------------------------------------------------------------------------
(* The owners of each kind *)

Gets(hd, t, x, hd2, e) ==
  /\ DOMAIN hd = Threads /\ t \in Threads /\ x \notin hd[t] /\ IsFiniteSet(HeldBy(hd, e))
  /\ hd2 = [hd EXCEPT ![t] = @ \cup {x}]

Loses(hd, t, x, hd2, e) ==
  /\ DOMAIN hd = Threads /\ t \in Threads /\ x \in hd[t] /\ IsFiniteSet(HeldBy(hd, e))
  /\ hd2 = [hd EXCEPT ![t] = @ \ {x}]

LEMMA HeldMore ==
  ASSUME NEW hd, NEW t, NEW x, NEW hd2, NEW e, Gets(hd, t, x, hd2, e)
  PROVE  /\ IsFiniteSet(HeldBy(hd2, e))
         /\ Cardinality(HeldBy(hd2, e)) = Cardinality(HeldBy(hd, e)) + (IF e = x THEN 1 ELSE 0)
<1> SUFFICES ASSUME DOMAIN hd = Threads, t \in Threads, hd2 = [hd EXCEPT ![t] = @ \cup {x}], x \notin hd[t],
                    IsFiniteSet(HeldBy(hd, e))
             PROVE  /\ IsFiniteSet(HeldBy(hd2, e))
                    /\ Cardinality(HeldBy(hd2, e)) = Cardinality(HeldBy(hd, e)) + (IF e = x THEN 1 ELSE 0)
  BY DEF Gets
<1>1. HeldBy(hd2, e) = IF e = x THEN HeldBy(hd, e) \cup {t} ELSE HeldBy(hd, e)
  BY DEF HeldBy
<1>2. e = x => t \notin HeldBy(hd, e)
  BY DEF HeldBy
<1>3. Cardinality(HeldBy(hd, e)) \in Nat
  BY FS_CardinalityType
<1>4. CASE e = x
  <2>1. /\ IsFiniteSet(HeldBy(hd, e) \cup {t})
        /\ Cardinality(HeldBy(hd, e) \cup {t}) = IF t \in HeldBy(hd, e) THEN Cardinality(HeldBy(hd, e))
                                                 ELSE Cardinality(HeldBy(hd, e)) + 1
    BY FS_AddElement
  <2>2. QED
    BY ONLY <2>1, <1>1, <1>2, <1>4
<1>5. CASE e # x
  BY <1>1, <1>3, <1>5
<1>6. QED
  BY <1>4, <1>5

LEMMA HeldLess ==
  ASSUME NEW hd, NEW t, NEW x, NEW hd2, NEW e, Loses(hd, t, x, hd2, e)
  PROVE  /\ IsFiniteSet(HeldBy(hd2, e))
         /\ Cardinality(HeldBy(hd2, e)) = Cardinality(HeldBy(hd, e)) - (IF e = x THEN 1 ELSE 0)
<1> SUFFICES ASSUME DOMAIN hd = Threads, t \in Threads, hd2 = [hd EXCEPT ![t] = @ \ {x}], x \in hd[t],
                    IsFiniteSet(HeldBy(hd, e))
             PROVE  /\ IsFiniteSet(HeldBy(hd2, e))
                    /\ Cardinality(HeldBy(hd2, e)) = Cardinality(HeldBy(hd, e)) - (IF e = x THEN 1 ELSE 0)
  BY DEF Loses
<1>1. HeldBy(hd2, e) = IF e = x THEN HeldBy(hd, e) \ {t} ELSE HeldBy(hd, e)
  BY DEF HeldBy
<1>2. e = x => t \in HeldBy(hd, e)
  BY DEF HeldBy
<1>3. Cardinality(HeldBy(hd, e)) \in Nat
  BY FS_CardinalityType
<1>4. CASE e = x
  <2>1. /\ IsFiniteSet(HeldBy(hd, e) \ {t})
        /\ Cardinality(HeldBy(hd, e) \ {t}) = IF t \in HeldBy(hd, e) THEN Cardinality(HeldBy(hd, e)) - 1
                                              ELSE Cardinality(HeldBy(hd, e))
    BY FS_RemoveElement
  <2>2. QED
    BY ONLY <2>1, <1>1, <1>2, <1>4
<1>5. CASE e # x
  BY <1>1, <1>3, <1>5
<1>6. QED
  BY <1>4, <1>5

KeepChanges(S, ks, ks2, x, e) ==
  /\ x \in DOMAIN ks /\ DOMAIN ks2 = DOMAIN ks /\ ks2[x] \in Seq(S)
  /\ \A y \in DOMAIN ks : y # x => ks2[y] = ks[y]
  /\ IsFiniteSet(KeptBy(ks, e))

LEMMA KeptChanged ==
  ASSUME NEW S, NEW ks, NEW ks2, NEW x, NEW e, KeepChanges(S, ks, ks2, x, e)
  PROVE  /\ IsFiniteSet(KeptBy(ks2, e))
         /\ Cardinality(KeptBy(ks2, e)) = Cardinality(KeptBy(ks, e)) - Occ(ks[x], e) + Occ(ks2[x], e)
<1> SUFFICES ASSUME x \in DOMAIN ks, DOMAIN ks2 = DOMAIN ks, ks2[x] \in Seq(S),
                    \A y \in DOMAIN ks : y # x => ks2[y] = ks[y], IsFiniteSet(KeptBy(ks, e))
             PROVE  /\ IsFiniteSet(KeptBy(ks2, e))
                    /\ Cardinality(KeptBy(ks2, e)) = Cardinality(KeptBy(ks, e)) - Occ(ks[x], e) + Occ(ks2[x], e)
  BY DEF KeepChanges
<1> DEFINE P == [y \in DOMAIN ks |-> Places(ks[y], e)]
           Q == [y \in DOMAIN ks |-> Places(ks2[y], e)]
<1>1. Labelled(P) = KeptBy(ks, e) /\ Labelled(Q) = KeptBy(ks2, e)
  BY DEF Labelled, KeptBy
<1>2. IsFiniteSet(Q[x]) /\ DOMAIN Q = DOMAIN P /\ x \in DOMAIN P /\ \A y \in DOMAIN P : y # x => Q[y] = P[y]
  BY PlacesFinite
<1>3. P[x] = Places(ks[x], e) /\ Q[x] = Places(ks2[x], e)
  OBVIOUS
<1> HIDE DEF P, Q
<1>4. /\ IsFiniteSet(Labelled(Q))
      /\ Cardinality(Labelled(Q)) = Cardinality(Labelled(P)) - Cardinality(P[x]) + Cardinality(Q[x])
  BY <1>1, <1>2, OneSlot
<1>5. QED
  BY <1>1, <1>3, <1>4 DEF Occ

\* A new entry keeps nothing.
LEMMA KeptGrown ==
  ASSUME NEW ks, NEW ks2, NEW x, DOMAIN ks2 = DOMAIN ks \cup {x}, ks2[x] = <<>>, NEW e,
         \A y \in DOMAIN ks : ks2[y] = ks[y]
  PROVE  x \notin DOMAIN ks => KeptBy(ks2, e) = KeptBy(ks, e)
<1> SUFFICES ASSUME x \notin DOMAIN ks PROVE KeptBy(ks2, e) = KeptBy(ks, e)
  OBVIOUS
<1>1. Places(ks2[x], e) = {}
  BY DEF Places
<1>2. \A z : z \in KeptBy(ks, e) <=> \E y \in DOMAIN ks : \E j \in Places(ks[y], e) : z = <<y, j>>
  BY DEF KeptBy
<1>3. \A z : z \in KeptBy(ks2, e) <=> \E y \in DOMAIN ks2 : \E j \in Places(ks2[y], e) : z = <<y, j>>
  BY DEF KeptBy
<1>4. \A z : z \in KeptBy(ks2, e) <=> z \in KeptBy(ks, e)
  BY <1>1, <1>2, <1>3
<1>5. QED
  BY <1>4

LEMMA FrameCount ==
  ASSUME NEW S, NEW f, f.rest \in Seq(S), f.keep \in Seq(S), NEW e
  PROVE  /\ IsFiniteSet(FrameOwns(f, e)) /\ Holds(f, e) \in Nat
         /\ Cardinality(FrameOwns(f, e)) = Holds(f, e)
<1> DEFINE X == {x \in {1} : f.op \in Holding /\ f.entry = e}
           Y == {x \in Places(f.rest, e) : f.op # "reap"}
           Z == {x \in Places(f.keep, e) : f.op = "loader"}
           A == {<<"entry", j>> : j \in X}
           B == {<<"rest", j>> : j \in Y}
           C == {<<"keep", j>> : j \in Z}
<1>1. FrameOwns(f, e) = (A \cup B) \cup C
  BY DEF FrameOwns
<1>2. IsFiniteSet(X) /\ Cardinality(X) = (IF f.op \in Holding /\ f.entry = e THEN 1 ELSE 0)
  <2>1. /\ f.op \in Holding /\ f.entry = e => X = {1}
        /\ ~(f.op \in Holding /\ f.entry = e) => X = {}
    OBVIOUS
  <2>2. IsFiniteSet({1}) /\ Cardinality({1}) = 1 /\ IsFiniteSet({}) /\ Cardinality({}) = 0
    BY FS_Singleton, FS_EmptySet
  <2> HIDE DEF X
  <2>3. QED
    BY ONLY <2>1, <2>2
<1>3. IsFiniteSet(Y) /\ Cardinality(Y) = (IF f.op # "reap" THEN Occ(f.rest, e) ELSE 0)
  <2>1. Y = IF f.op # "reap" THEN Places(f.rest, e) ELSE {}
    OBVIOUS
  <2>2. IsFiniteSet(Places(f.rest, e))
    BY PlacesFinite
  <2>3. QED
    BY <2>1, <2>2, FS_EmptySet DEF Occ
<1>4. IsFiniteSet(Z) /\ Cardinality(Z) = (IF f.op = "loader" THEN Occ(f.keep, e) ELSE 0)
  <2>1. Z = IF f.op = "loader" THEN Places(f.keep, e) ELSE {}
    OBVIOUS
  <2>2. IsFiniteSet(Places(f.keep, e))
    BY PlacesFinite
  <2>3. QED
    BY <2>1, <2>2, FS_EmptySet DEF Occ
<1>5. /\ IsFiniteSet(A) /\ Cardinality(A) = Cardinality(X) /\ IsFiniteSet(B) /\ Cardinality(B) = Cardinality(Y)
      /\ IsFiniteSet(C) /\ Cardinality(C) = Cardinality(Z)
  <2> HIDE DEF X, Y, Z
  <2>1. /\ IsFiniteSet(X) => IsFiniteSet(A) /\ Cardinality(A) = Cardinality(X)
        /\ IsFiniteSet(Y) => IsFiniteSet(B) /\ Cardinality(B) = Cardinality(Y)
        /\ IsFiniteSet(Z) => IsFiniteSet(C) /\ Cardinality(C) = Cardinality(Z)
    BY SlotCount
  <2>2. QED
    BY <2>1, <1>2, <1>3, <1>4
<1>6. A \cap B = {} /\ (A \cup B) \cap C = {}
  OBVIOUS
<1> HIDE DEF A, B, C, X, Y, Z
<1>7. /\ IsFiniteSet(A \cup B) /\ IsFiniteSet((A \cup B) \cup C)
      /\ Cardinality(A \cup B) = Cardinality(A) + Cardinality(B) - Cardinality(A \cap B)
      /\ Cardinality((A \cup B) \cup C) = Cardinality(A \cup B) + Cardinality(C) - Cardinality((A \cup B) \cap C)
  BY <1>5, FS_Union
<1>8. /\ Cardinality({}) = 0 /\ Cardinality(A) \in Nat /\ Cardinality(B) \in Nat /\ Cardinality(C) \in Nat
  BY <1>5, FS_CardinalityType, FS_EmptySet
<1>9. IsFiniteSet((A \cup B) \cup C) /\ Cardinality((A \cup B) \cup C) = Cardinality(A) + Cardinality(B) + Cardinality(C)
  <2>1. Cardinality(A \cap B) = 0 /\ Cardinality((A \cup B) \cap C) = 0
    BY ONLY <1>6, <1>8
  <2>2. QED
    BY ONLY <2>1, <1>7, <1>8
<1>10. Holds(f, e) = Cardinality(A) + Cardinality(B) + Cardinality(C)
  BY <1>2, <1>3, <1>4, <1>5 DEF Holds
<1>11. QED
  BY <1>1, <1>8, <1>9, <1>10

OwnsAt(st, t, i, e) == IF i \in DOMAIN st[t] THEN FrameOwns(st[t][i], e) ELSE {}
HoldsAt(st, t, i, e) == IF i \in DOMAIN st[t] THEN Holds(st[t][i], e) ELSE 0

LEMMA AsLabelled ==
  ASSUME NEW st, \A u \in Threads : DOMAIN st[u] \subseteq Nat, NEW e
  PROVE  OnStacks(st, e) = Labelled([x \in Threads \X Nat |-> OwnsAt(st, x[1], x[2], e)])
<1> DEFINE D == Threads \X Nat
           P == [x \in D |-> OwnsAt(st, x[1], x[2], e)]
<1>1. \A z : z \in Labelled(P) <=> \E x \in D : \E y \in P[x] : z = <<x, y>>
  BY LabelledIn
<1>2. \A z : z \in OnStacks(st, e) <=>
        \E u \in Threads : \E i \in DOMAIN st[u] : \E y \in FrameOwns(st[u][i], e) : z = <<<<u, i>>, y>>
  BY DEF OnStacks
<1>3. \A u \in Threads : \A i \in Nat : P[<<u, i>>] = OwnsAt(st, u, i, e)
  OBVIOUS
<1>4. \A u \in Threads : DOMAIN st[u] \subseteq Nat
  OBVIOUS
<1>5. \A x \in D : x = <<x[1], x[2]>> /\ x[1] \in Threads /\ x[2] \in Nat
  OBVIOUS
<1> HIDE DEF P
<1>6. ASSUME NEW z \in Labelled(P) PROVE z \in OnStacks(st, e)
  <2>1. PICK x \in D : \E y \in P[x] : z = <<x, y>>
    BY <1>1
  <2>2. PICK y \in P[x] : z = <<x, y>>
    BY <2>1
  <2>3. y \in OwnsAt(st, x[1], x[2], e) /\ x = <<x[1], x[2]>> /\ x[1] \in Threads
    BY <1>3, <1>5
  <2>4. x[2] \in DOMAIN st[x[1]] /\ y \in FrameOwns(st[x[1]][x[2]], e) /\ z = <<<<x[1], x[2]>>, y>>
    BY <2>2, <2>3 DEF OwnsAt
  <2>5. QED
    BY <2>3, <2>4, <1>2
<1>7. ASSUME NEW z \in OnStacks(st, e) PROVE z \in Labelled(P)
  <2>0. PICK u \in Threads : \E i \in DOMAIN st[u] : \E y \in FrameOwns(st[u][i], e) : z = <<<<u, i>>, y>>
    BY <1>2
  <2>1. PICK i \in DOMAIN st[u] : \E y \in FrameOwns(st[u][i], e) : z = <<<<u, i>>, y>>
    BY <2>0
  <2>2. PICK y \in FrameOwns(st[u][i], e) : z = <<<<u, i>>, y>>
    BY <2>1
  <2>3. <<u, i>> \in D /\ P[<<u, i>>] = FrameOwns(st[u][i], e)
    BY <1>3, <1>4 DEF OwnsAt
  <2>4. QED
    BY <2>2, <2>3, <1>1
<1>8. OnStacks(st, e) = Labelled(P)
  BY <1>6, <1>7
<1>9. QED
  BY <1>8 DEF P

StacksOf(n) == [Threads -> Seq(FrameOf(n))]

\* Two neighbouring places on one stack change.
LEMMA StackCount ==
  ASSUME NEW n, NEW st \in StacksOf(n), NEW st2 \in StacksOf(n),
         NEW t \in Threads, NEW p \in Nat, NEW e,
         \A u \in Threads : \A i \in Nat : u # t \/ (i # p /\ i # p + 1) => OwnsAt(st2, u, i, e) = OwnsAt(st, u, i, e),
         IsFiniteSet(OnStacks(st, e))
  PROVE  /\ IsFiniteSet(OnStacks(st2, e))
         /\ Cardinality(OnStacks(st2, e)) =
              Cardinality(OnStacks(st, e)) - HoldsAt(st, t, p, e) - HoldsAt(st, t, p + 1, e)
              + HoldsAt(st2, t, p, e) + HoldsAt(st2, t, p + 1, e)
<1> DEFINE D == Threads \X Nat
           P == [x \in D |-> OwnsAt(st, x[1], x[2], e)]
           Q == [x \in D |-> OwnsAt(st2, x[1], x[2], e)]
           a == <<t, p>>
           b == <<t, p + 1>>
           R == [P EXCEPT ![a] = Q[a]]
<1>0. \A u \in Threads : st[u] \in Seq(FrameOf(n)) /\ st2[u] \in Seq(FrameOf(n))
  BY DEF StacksOf
<1>1. Labelled(P) = OnStacks(st, e) /\ Labelled(Q) = OnStacks(st2, e)
  <2>1. \A u \in Threads : DOMAIN st[u] \subseteq Nat /\ DOMAIN st2[u] \subseteq Nat
    BY <1>0
  <2>2. QED
    BY <2>1, AsLabelled
<1>3. a \in D /\ b \in D /\ a # b
  OBVIOUS
<1>4. /\ P[a] = OwnsAt(st, t, p, e) /\ P[b] = OwnsAt(st, t, p + 1, e)
      /\ Q[a] = OwnsAt(st2, t, p, e) /\ Q[b] = OwnsAt(st2, t, p + 1, e)
  OBVIOUS
<1>5. \A x \in D : x # a /\ x # b => Q[x] = P[x]
  <2> SUFFICES ASSUME NEW x \in D, x # a, x # b PROVE Q[x] = P[x]
    OBVIOUS
  <2>1. x[1] \in Threads /\ x[2] \in Nat /\ (x[1] # t \/ (x[2] # p /\ x[2] # p + 1))
    OBVIOUS
  <2>2. OwnsAt(st2, x[1], x[2], e) = OwnsAt(st, x[1], x[2], e)
    BY <2>1
  <2>3. QED
    BY <2>2
<1>6. \A i \in Nat : /\ IsFiniteSet(OwnsAt(st2, t, i, e)) /\ Cardinality(OwnsAt(st2, t, i, e)) = HoldsAt(st2, t, i, e)
                     /\ HoldsAt(st2, t, i, e) \in Nat
  <2>1. \A i \in DOMAIN st2[t] : st2[t][i].rest \in Seq(1..n) /\ st2[t][i].keep \in Seq(1..n)
    <3>1. \A i \in DOMAIN st2[t] : st2[t][i] \in FrameOf(n)
      BY <1>0
    <3>2. QED
      BY <3>1 DEF FrameOf
  <2>2. QED
    BY <2>1, FrameCount, FS_EmptySet DEF OwnsAt, HoldsAt
<1>7. \A i \in Nat : Cardinality(OwnsAt(st, t, i, e)) = HoldsAt(st, t, i, e) /\ HoldsAt(st, t, i, e) \in Nat
  <2>1. \A i \in DOMAIN st[t] : st[t][i].rest \in Seq(1..n) /\ st[t][i].keep \in Seq(1..n)
    <3>1. \A i \in DOMAIN st[t] : st[t][i] \in FrameOf(n)
      BY <1>0
    <3>2. QED
      BY <3>1 DEF FrameOf
  <2>2. QED
    BY <2>1, FrameCount, FS_EmptySet DEF OwnsAt, HoldsAt
<1>8. DOMAIN P = D /\ DOMAIN Q = D /\ DOMAIN R = D /\ R[a] = Q[a] /\ R[b] = P[b]
      /\ \A x \in D : x # a => R[x] = P[x]
  BY <1>3
<1>9. \A x \in D : x # b => Q[x] = R[x]
  BY <1>3, <1>5, <1>8
<1> HIDE DEF P, Q, R, D, a, b
<1>10. /\ IsFiniteSet(Labelled(R))
       /\ Cardinality(Labelled(R)) = Cardinality(Labelled(P)) - Cardinality(P[a]) + Cardinality(R[a])
       /\ Cardinality(Labelled(P)) \in Nat
  <2>1. IsFiniteSet(R[a]) /\ IsFiniteSet(Labelled(P))
    BY <1>1, <1>4, <1>6, <1>8
  <2>2. QED
    BY ONLY <2>1, <1>3, <1>8, OneSlot
<1>11. /\ IsFiniteSet(Labelled(Q))
       /\ Cardinality(Labelled(Q)) = Cardinality(Labelled(R)) - Cardinality(R[b]) + Cardinality(Q[b])
  <2>1. IsFiniteSet(Q[b])
    BY <1>4, <1>6
  <2>2. b \in DOMAIN R
    BY <1>3, <1>8
  <2>3. DOMAIN Q = DOMAIN R
    BY <1>8
  <2>4. \A x \in DOMAIN R : x # b => Q[x] = R[x]
    BY <1>8, <1>9
  <2>5. IsFiniteSet(Labelled(R))
    BY <1>10
  <2>6. QED
    BY ONLY <2>1, <2>2, <2>3, <2>4, <2>5, OneSlot
<1>12. p + 1 \in Nat
  OBVIOUS
<1>13. QED
  BY <1>1, <1>4, <1>6, <1>7, <1>8, <1>10, <1>11, <1>12

----------------------------------------------------------------------------
(* Stacks *)

\* The first m calls of a stack, and new ones.
Cut(s, m, new) == [i \in 1..(m + Len(new)) |-> IF i <= m THEN s[i] ELSE new[i - m]]

Cuttable(F, s, m, new) == s \in Seq(F) /\ new \in Seq(F) /\ m \in Nat /\ m <= Len(s)

LEMMA CutIs ==
  ASSUME NEW F, NEW s, NEW new, NEW m, Cuttable(F, s, m, new)
  PROVE  /\ Cut(s, m, new) \in Seq(F)
         /\ Len(Cut(s, m, new)) = m + Len(new) /\ DOMAIN Cut(s, m, new) = 1..(m + Len(new))
         /\ \A i \in 1..m : Cut(s, m, new)[i] = s[i]
         /\ \A i \in 1..Len(new) : \A j : j = m + i => Cut(s, m, new)[j] = new[i]
<1> USE DEF Cuttable
<1> DEFINE c == Cut(s, m, new)
           n == m + Len(new)
<1>0. s \in Seq(F) /\ new \in Seq(F)
  OBVIOUS
<1>1. Len(s) \in Nat /\ Len(new) \in Nat /\ m \in Nat /\ m <= Len(s) /\ n \in Nat
  OBVIOUS
<1>2. \A i \in 1..n : (i <= m => i \in 1..Len(s)) /\ (~(i <= m) => i - m \in 1..Len(new))
  BY <1>1
<1>3. \A i \in 1..n : (IF i <= m THEN s[i] ELSE new[i - m]) \in F
  BY <1>1, <1>2
<1>4. c = [i \in 1..n |-> IF i <= m THEN s[i] ELSE new[i - m]]
  BY DEF Cut
<1> HIDE DEF c
<1>5. c \in [1..n -> F]
  BY <1>3, <1>4
<1>6. c \in Seq(F) /\ Len(c) = n /\ DOMAIN c = 1..n
  BY <1>1, <1>5
<1>7. \A i \in 1..m : i \in 1..n /\ c[i] = s[i]
  BY <1>1, <1>4
<1>8. \A i \in 1..Len(new) : m + i \in 1..n /\ ~(m + i <= m) /\ (m + i) - m = i
  BY <1>1
<1>9. \A i \in 1..Len(new) : c[m + i] = new[i]
  BY <1>4, <1>8
<1>10. QED
  BY <1>6, <1>7, <1>8, <1>9 DEF c

\* Two sequences are equal if they are as long and equal everywhere.
LEMMA SameSeq ==
  ASSUME NEW F, NEW a \in Seq(F), NEW b \in Seq(F), Len(a) = Len(b),
         \A i \in 1..Len(a) : a[i] = b[i]
  PROVE  a = b
OBVIOUS

LEMMA Frontal ==
  ASSUME NEW F, NEW s \in Seq(F), s # <<>>
  PROVE  /\ Len(s) \in Nat /\ Len(s) >= 1 /\ Last(s) = s[Len(s)] /\ Last(s) \in F
         /\ Front(s) \in Seq(F) /\ Len(Front(s)) = Len(s) - 1
         /\ \A i \in 1..(Len(s) - 1) : Front(s)[i] = s[i]
BY DEF Front, Last

LEMMA Cuts ==
  ASSUME NEW F, NEW s \in Seq(F), NEW f \in F
  PROVE  /\ Append(s, f) = Cut(s, Len(s), <<f>>)
         /\ s = Cut(s, Len(s), <<>>)
         /\ s # <<>> => /\ Front(s) = Cut(s, Len(s) - 1, <<>>)
                        /\ Becomes(s, f) = Cut(s, Len(s) - 1, <<f>>)
                        /\ Append(Front(s), f) = Cut(s, Len(s) - 1, <<f>>)
<1>0. Len(s) \in Nat
  OBVIOUS
<1>1. /\ <<>> \in Seq(F) /\ Len(<<>>) = 0
      /\ <<f>> \in Seq(F) /\ Len(<<f>>) = 1 /\ <<f>>[1] = f
  OBVIOUS
<1>2. ASSUME NEW m \in 0..Len(s), NEW a \in Seq(F), NEW new \in Seq(F), Len(a) = m + Len(new),
             \A i \in 1..m : a[i] = s[i], \A i \in 1..Len(new) : a[m + i] = new[i]
      PROVE  a = Cut(s, m, new)
  <2> DEFINE c == Cut(s, m, new)
  <2>0. Cuttable(F, s, m, new)
    BY <1>0 DEF Cuttable
  <2>1. /\ c \in Seq(F) /\ Len(c) = m + Len(new)
        /\ \A i \in 1..m : c[i] = s[i]
    BY <2>0, CutIs
  <2>2. \A i \in 1..Len(new) : \A j : j = m + i => c[j] = new[i]
    BY <2>0, CutIs
  <2> HIDE DEF c
  <2>3. ASSUME NEW i \in 1..Len(a) PROVE a[i] = c[i]
    <3>1. Len(new) \in Nat /\ m \in Nat
      BY <1>0
    <3>2. CASE i <= m
      BY <1>2, <2>1, <3>1, <3>2
    <3>3. CASE i > m
      <4>1. i - m \in 1..Len(new) /\ m + (i - m) = i
        BY <1>2, <3>1, <3>3
      <4>2. QED
        BY ONLY <4>1, <1>2, <2>2
    <3>4. QED
      BY <3>1, <3>2, <3>3
  <2>4. QED
    BY <1>2, <2>1, <2>3, SameSeq DEF c
<1>3. /\ Append(s, f) \in Seq(F) /\ Len(Append(s, f)) = Len(s) + 1
      /\ \A i \in 1..Len(s) : Append(s, f)[i] = s[i]
      /\ Append(s, f)[Len(s) + 1] = f
  OBVIOUS
<1>4. Append(s, f) = Cut(s, Len(s), <<f>>)
  <2> DEFINE a == Append(s, f)
             new == <<f>>
             m == Len(s)
  <2>1. \A i \in 1..Len(new) : a[m + i] = new[i]
    BY <1>1, <1>3
  <2>2. /\ a \in Seq(F) /\ new \in Seq(F) /\ Len(a) = m + Len(new) /\ m \in 0..Len(s)
        /\ \A i \in 1..m : a[i] = s[i]
    BY <1>0, <1>1, <1>3
  <2> HIDE DEF a, new, m
  <2>3. a = Cut(s, m, new)
    BY ONLY <2>1, <2>2, <1>2
  <2>4. QED
    BY <2>3 DEF a, new, m
<1>5. s = Cut(s, Len(s), <<>>)
  <2> DEFINE new == <<>>
             m == Len(s)
  <2>1. \A i \in 1..Len(new) : s[m + i] = new[i]
    BY <1>1
  <2>2. /\ new \in Seq(F) /\ Len(s) = m + Len(new) /\ m \in 0..Len(s)
        /\ \A i \in 1..m : s[i] = s[i]
    BY <1>0, <1>1
  <2> HIDE DEF new, m
  <2>3. s = Cut(s, m, new)
    BY ONLY <2>1, <2>2, <1>2, s \in Seq(F)
  <2>4. QED
    BY <2>3 DEF new, m
<1>6. ASSUME s # <<>>
      PROVE  /\ Front(s) = Cut(s, Len(s) - 1, <<>>)
             /\ Becomes(s, f) = Cut(s, Len(s) - 1, <<f>>)
             /\ Append(Front(s), f) = Cut(s, Len(s) - 1, <<f>>)
  <2> DEFINE m == Len(s) - 1
             r == Front(s)
             b == Append(r, f)
  <2>1. /\ m \in 0..Len(s) /\ m \in Nat /\ r \in Seq(F) /\ Len(r) = m
        /\ \A i \in 1..m : r[i] = s[i]
    BY <1>6, Frontal
  <2> HIDE DEF r, m
  <2>2. b \in Seq(F) /\ Len(b) = m + 1 /\ b[m + 1] = f /\ \A i \in 1..m : b[i] = s[i]
    BY <2>1
  <2> HIDE DEF b
  <2>4. r = Cut(s, m, <<>>)
    <3>1. Len(r) = m + Len(<<>>) /\ \A i \in 1..Len(<<>>) : r[m + i] = <<>>[i]
      BY <1>1, <2>1
    <3>2. QED
      BY ONLY <1>1, <1>2, <2>1, <3>1
  <2>5. b = Cut(s, m, <<f>>)
    <3>1. Len(b) = m + Len(<<f>>) /\ \A i \in 1..Len(<<f>>) : b[m + i] = <<f>>[i]
      BY <1>1, <2>1, <2>2
    <3>2. QED
      BY ONLY <1>1, <1>2, <2>1, <2>2, <3>1
  <2>6. QED
    BY <2>4, <2>5 DEF r, b, m, Becomes
<1>7. QED
  BY <1>4, <1>5, <1>6

\* r is the first m of s.
First(F, s, m, r) ==
  /\ s \in Seq(F) /\ m \in Nat /\ m <= Len(s) /\ r \in Seq(F) /\ Len(r) = m
  /\ \A i \in 1..m : r[i] = s[i]

LEMMA CutOne ==
  ASSUME NEW F, NEW s, NEW m, NEW r, First(F, s, m, r), NEW f \in F
  PROVE  Append(r, f) = Cut(s, m, <<f>>)
<1> DEFINE new == <<f>>
           b == Append(r, f)
           c == Cut(s, m, new)
<1>0. /\ s \in Seq(F) /\ m \in Nat /\ m <= Len(s) /\ r \in Seq(F) /\ Len(r) = m
      /\ \A i \in 1..m : r[i] = s[i]
  BY DEF First
<1>1. /\ b \in Seq(F) /\ Len(b) = m + 1 /\ b[m + 1] = f
      /\ \A i \in 1..m : b[i] = r[i]
  BY <1>0
<1>3. new \in Seq(F) /\ Len(new) = 1 /\ new[1] = f
  OBVIOUS
<1> HIDE DEF b, new
<1>4. c \in Seq(F) /\ Len(c) = m + Len(new) /\ c[m + 1] = f
      /\ \A i \in 1..m : c[i] = s[i]
  <2>0. Cuttable(F, s, m, new)
    BY <1>0, <1>3 DEF Cuttable
  <2>1. c \in Seq(F) /\ Len(c) = m + Len(new)
    BY <2>0, CutIs
  <2>2. \A i \in 1..m : c[i] = s[i]
    BY <2>0, CutIs
  <2>3. \A i \in 1..Len(new) : \A j : j = m + i => c[j] = new[i]
    BY <2>0, CutIs
  <2> HIDE DEF c
  <2>4. QED
    BY <1>0, <1>3, <2>1, <2>2, <2>3
<1> HIDE DEF c
<1>7. \A i \in 1..(m + 1) : b[i] = c[i]
  <2> SUFFICES ASSUME NEW i \in 1..(m + 1) PROVE b[i] = c[i]
    OBVIOUS
  <2>1. CASE i \in 1..m
    <3>2. b[i] = r[i] /\ r[i] = s[i] /\ c[i] = s[i]
      BY <1>0, <1>1, <1>4, <2>1
    <3>3. QED
      BY <3>2
  <2>2. CASE i = m + 1
    BY <1>0, <1>1, <1>4, <2>2
  <2>3. QED
    BY <1>0, <2>1, <2>2
<1>8. Len(b) = Len(c) /\ \A i \in 1..Len(b) : b[i] = c[i]
  BY <1>0, <1>1, <1>3, <1>4, <1>7
<1>9. b = c
  BY <1>0, <1>1, <1>4, <1>8, SameSeq
<1>10. QED
  BY <1>9 DEF b, c, new

LEMMA CutTwo ==
  ASSUME NEW F, NEW s, NEW m, NEW r, First(F, s, m, r), NEW f \in F, NEW g \in F
  PROVE  Append(Append(r, f), g) = Cut(s, m, <<f, g>>)
<1> DEFINE new == <<f, g>>
           b == Append(r, f)
           d == Append(b, g)
           c == Cut(s, m, new)
<1>0. /\ s \in Seq(F) /\ m \in Nat /\ m <= Len(s) /\ r \in Seq(F) /\ Len(r) = m
      /\ \A i \in 1..m : r[i] = s[i]
  BY DEF First
<1>1. /\ b \in Seq(F) /\ Len(b) = m + 1 /\ b[m + 1] = f
      /\ \A i \in 1..m : b[i] = r[i]
  BY <1>0
<1>2. /\ d \in Seq(F) /\ Len(d) = m + 2 /\ d[m + 2] = g
      /\ \A i \in 1..(m + 1) : d[i] = b[i]
  <2> HIDE DEF b
  <2>1. QED
    BY <1>0, <1>1
<1>3. new \in Seq(F) /\ Len(new) = 2 /\ new[1] = f /\ new[2] = g
  OBVIOUS
<1> HIDE DEF b, d, new
<1>4. c \in Seq(F) /\ Len(c) = m + Len(new) /\ c[m + 1] = f /\ c[m + 2] = g
      /\ \A i \in 1..m : c[i] = s[i]
  <2>0. Cuttable(F, s, m, new)
    BY <1>0, <1>3 DEF Cuttable
  <2>1. c \in Seq(F) /\ Len(c) = m + Len(new)
    BY <2>0, CutIs
  <2>2. \A i \in 1..m : c[i] = s[i]
    BY <2>0, CutIs
  <2>3. \A i \in 1..Len(new) : \A j : j = m + i => c[j] = new[i]
    BY <2>0, CutIs
  <2> HIDE DEF c
  <2>4. QED
    BY <1>0, <1>3, <2>1, <2>2, <2>3
<1> HIDE DEF c
<1>7. \A i \in 1..(m + 2) : d[i] = c[i]
  <2> SUFFICES ASSUME NEW i \in 1..(m + 2) PROVE d[i] = c[i]
    OBVIOUS
  <2>1. CASE i \in 1..m
    <3>1. i \in 1..(m + 1) /\ r[i] = s[i]
      BY <1>0, <2>1
    <3>2. d[i] = b[i] /\ b[i] = r[i] /\ c[i] = s[i]
      BY <1>0, <1>1, <1>2, <1>4, <2>1, <3>1
    <3>3. QED
      BY <3>1, <3>2
  <2>2. CASE i = m + 1
    BY <1>0, <1>1, <1>2, <1>4, <2>2
  <2>3. CASE i = m + 2
    BY <1>0, <1>2, <1>4, <2>3
  <2>4. QED
    BY <1>0, <2>1, <2>2, <2>3
<1>8. Len(d) = Len(c) /\ \A i \in 1..Len(d) : d[i] = c[i]
  BY <1>2, <1>3, <1>4, <1>7
<1>9. d = c
  BY <1>2, <1>4, <1>8, SameSeq
<1>10. QED
  BY <1>9 DEF b, d, c, new

\* The last call becomes f and goes on to g.
LEMMA CutCalls ==
  ASSUME NEW F, NEW s \in Seq(F), NEW f \in F, NEW g \in F, NEW m \in Nat, Len(s) = m + 1
  PROVE  Append(Becomes(s, f), g) = Cut(s, m, <<f, g>>)
<1> DEFINE r == Front(s)
<1>1. r \in Seq(F)
  BY s # <<>>, Frontal
<1>2. Len(r) = m
  BY s # <<>>, Frontal
<1>3. \A i \in 1..m : r[i] = s[i]
  BY s # <<>>, Frontal
<1> HIDE DEF r
<1>4. First(F, s, m, r)
  BY <1>1, <1>2, <1>3 DEF First
<1>5. Append(Append(r, f), g) = Cut(s, m, <<f, g>>)
  BY <1>4, CutTwo
<1>6. QED
  BY <1>5 DEF r, Becomes

\* The last call ends, and the one below it becomes f, which may go on to g.
LongBy2(F, s, m) == s \in Seq(F) /\ m \in Nat /\ Len(s) = m + 2

LEMMA FrontOfFront ==
  ASSUME NEW F, NEW s, NEW m, LongBy2(F, s, m)
  PROVE  /\ Front(s) \in Seq(F) /\ Front(s) # <<>> /\ Last(Front(s)) = s[m + 1]
         /\ First(F, s, m, Front(Front(s)))
<1>0. s \in Seq(F) /\ m \in Nat /\ Len(s) = m + 2
  BY DEF LongBy2
<1> DEFINE q == Front(s)
           r == Front(q)
<1>1. q \in Seq(F) /\ Len(q) = m + 1 /\ (\A i \in 1..(m + 1) : q[i] = s[i])
  <2>1. s \in Seq(F) /\ s # <<>>
    BY <1>0
  <2>2. q \in Seq(F)
    BY <2>1, Frontal
  <2>3. Len(q) = m + 1
    BY <1>0, <2>1, Frontal
  <2>4. \A i \in 1..(m + 1) : q[i] = s[i]
    BY <1>0, <2>1, Frontal
  <2>5. QED
    BY <2>2, <2>3, <2>4
<1>2. q \in Seq(F) /\ q # <<>>
  BY <1>0, <1>1
<1> HIDE DEF q
<1>3. r \in Seq(F)
  BY <1>2, Frontal
<1>4. Len(r) = m
  BY <1>0, <1>1, <1>2, Frontal
<1>5. \A i \in 1..m : r[i] = q[i]
  BY <1>0, <1>1, <1>2, Frontal
<1>6. Last(q) = s[m + 1]
  <2>1. Last(q) = q[Len(q)]
    BY <1>2, Frontal
  <2>2. QED
    BY <1>0, <1>1, <2>1
<1> HIDE DEF r
<1>7. m <= Len(s) /\ \A i \in 1..m : r[i] = s[i]
  BY <1>0, <1>1, <1>5
<1>8. First(F, s, m, r)
  BY <1>0, <1>3, <1>4, <1>7 DEF First
<1>9. QED
  BY <1>2, <1>6, <1>8 DEF q, r

LEMMA CutBelow ==
  ASSUME NEW F, NEW s, NEW m, LongBy2(F, s, m), NEW f \in F
  PROVE  Becomes(Front(s), f) = Cut(s, m, <<f>>)
<1>1. PICK r : r = Front(Front(s))
  OBVIOUS
<1>2. First(F, s, m, r)
  BY <1>1, FrontOfFront
<1>3. Append(r, f) = Cut(s, m, <<f>>)
  BY <1>2, CutOne
<1>4. QED
  BY <1>1, <1>3 DEF Becomes

LEMMA CutBelowCalls ==
  ASSUME NEW F, NEW s, NEW m, LongBy2(F, s, m), NEW f \in F, NEW g \in F
  PROVE  Append(Becomes(Front(s), f), g) = Cut(s, m, <<f, g>>)
<1>1. PICK r : r = Front(Front(s))
  OBVIOUS
<1>2. First(F, s, m, r)
  BY <1>1, FrontOfFront
<1>3. Append(Append(r, f), g) = Cut(s, m, <<f, g>>)
  BY <1>2, CutTwo
<1>4. QED
  BY <1>1, <1>3 DEF Becomes

----------------------------------------------------------------------------
(* Types *)

Types(n) ==
  /\ n \in Nat /\ Len(entries) = n /\ DOMAIN entries = 1..n /\ Entry = 1..n
  /\ entries \in Seq(EntryOf(n)) /\ \A e \in 1..n : entries[e] \in EntryOf(n)
  /\ stack \in [Threads -> Seq(FrameOf(n))]
  /\ held \in [Threads -> SUBSET (1..n)]
  /\ DOMAIN retained \subseteq 1..n

LEMMA HasTypes == TypeOK => Types(Len(entries))
<1> SUFFICES ASSUME TypeOK PROVE Types(Len(entries))
  OBVIOUS
<1> DEFINE n == Len(entries)
<1>1. n \in Nat /\ DOMAIN entries = 1..n /\ Entry = 1..n
  BY DEF TypeOK, Entry
<1>2. entries \in Seq(EntryOf(n))
  BY <1>1 DEF TypeOK, EntryOf
<1>3. \A e \in 1..n : entries[e] \in EntryOf(n)
  BY <1>2
<1>4. stack \in [Threads -> Seq(FrameOf(n))]
  BY <1>1 DEF TypeOK, FrameOf
<1>5. held \in [Threads -> SUBSET (1..n)] /\ DOMAIN retained \subseteq 1..n
  BY <1>1 DEF TypeOK
<1>6. QED
  BY <1>1, <1>2, <1>3, <1>4, <1>5 DEF Types

LEMMA MoreEntries ==
  ASSUME NEW n \in Nat, NEW m \in Nat, n <= m
  PROVE  /\ 1..n \subseteq 1..m /\ Seq(1..n) \subseteq Seq(1..m)
         /\ EntryOf(n) \subseteq EntryOf(m) /\ FrameOf(n) \subseteq FrameOf(m)
         /\ Seq(FrameOf(n)) \subseteq Seq(FrameOf(m)) /\ Seq(EntryOf(n)) \subseteq Seq(EntryOf(m))
<1>1. 1..n \subseteq 1..m
  OBVIOUS
<1>2. ASSUME NEW S, NEW T, S \subseteq T PROVE Seq(S) \subseteq Seq(T)
  <2> SUFFICES ASSUME NEW s \in Seq(S) PROVE s \in Seq(T)
    OBVIOUS
  <2>1. Len(s) \in Nat /\ DOMAIN s = 1..Len(s) /\ s \in [1..Len(s) -> S]
    OBVIOUS
  <2>2. s \in [1..Len(s) -> T]
    BY <1>2, <2>1
  <2>3. QED
    BY <2>1, <2>2
<1>3. Seq(1..n) \subseteq Seq(1..m)
  BY <1>1, <1>2
<1>4. EntryOf(n) \subseteq EntryOf(m) /\ FrameOf(n) \subseteq FrameOf(m)
  BY <1>1, <1>3 DEF EntryOf, FrameOf
<1>5. QED
  BY <1>1, <1>2, <1>3, <1>4

\* How entries go on in every step: they stay what they are, what is loaded stays loaded,
\* and the dead stay dead.
Steady(n, m) ==
  /\ m \in Nat /\ n <= m
  /\ entries' \in Seq(EntryOf(m)) /\ Len(entries') = m
  /\ \A e \in 1..n :
       /\ entries'[e].key = entries[e].key /\ entries'[e].id = entries[e].id
       /\ entries[e].value = "ready" => entries'[e].value = "ready"
       /\ entries[e].strong = 0 => entries'[e].strong = 0

\* A call that stays on its stack still knows what it knew.
LEMMA FrameKept ==
  ASSUME NEW n, Types(n), NEW m, Steady(n, m), NEW u \in Threads, NEW i, NEW f \in FrameOf(n),
         FrameSound(f, u, i), held'[u] \subseteq held[u],
         f.op \in {"loader", "unwind"} => entries'[f.entry].value = "busy"
  PROVE  FrameSound(f, u, i)'
<1> DEFINE N == 1..n
<1>1. /\ f.keep \in Seq(N) /\ f.entry \in N \cup {NoEntry}
      /\ \A j \in DOMAIN f.keep : f.keep[j] \in N
  <2>1. f.keep \in Seq(N) /\ f.entry \in N \cup {NoEntry}
    BY DEF FrameOf
  <2> HIDE DEF N
  <2>2. QED
    BY <2>1
<1>2. Entry' = 1..m /\ N \subseteq 1..m /\ N = Entry
  BY DEF Steady, Types, Entry
<1>3. /\ f.op \in {"fetch", "insert", "init", "peek", "remove"} => f.rest = <<>>
      /\ f.op \in {"fetch", "insert", "init"} => f.keep = <<>> /\ f.loaded = 0
      /\ f.op = "reap" => u = Painter /\ i = 1
      /\ f.caller = "loader" => f.op \in LoadOps /\ i > 1
      /\ f.caller = "retainer" => f.op \in LoadOps /\ u = Painter
  BY DEF FrameSound
<1>4. f.op \in Holding => f.entry \in Entry' /\ entries'[f.entry].key = f.key
  BY <1>2 DEF FrameSound, Steady
<1>5. f.op \in {"remove", "fields"} => f.entry \in Entry' /\ entries'[f.entry].strong = 0
  BY <1>2 DEF FrameSound, Steady
<1>6. f.op \in LoadOps \cup {"peek"} /\ f.caller # "loader" =>
        i = 1 /\ \A e \in held'[u] : entries'[e].key # f.key
  <2> SUFFICES ASSUME f.op \in LoadOps \cup {"peek"}, f.caller # "loader", NEW e \in held'[u]
               PROVE  i = 1 /\ entries'[e].key # f.key
    BY DEF FrameSound
  <2>1. e \in held[u] /\ e \in N
    BY DEF Types
  <2>2. i = 1 /\ entries[e].key # f.key
    BY <2>1 DEF FrameSound
  <2>3. QED
    BY <2>1, <2>2 DEF Steady
<1>7. f.op = "loader" =>
        /\ f.loaded <= Len(DependsOn[f.key]) /\ Len(f.keep) <= f.loaded
        /\ \A j \in DOMAIN f.keep :
             /\ entries'[f.keep[j]].key = DependsOn[f.key][j]
             /\ entries'[f.keep[j]].value = "ready"
  BY <1>1 DEF FrameSound, Steady
<1>8. f.op \in {"loader", "unwind"} => entries'[f.entry].value = "busy"
  OBVIOUS
<1> HIDE DEF N
<1>9. QED
  BY ONLY <1>3, <1>4, <1>5, <1>6, <1>7, <1>8 DEF FrameSound

----------------------------------------------------------------------------
(* A step of thread t: the calls above the first m of its stack make way for new ones *)

Step(t, m, new, n, n2) ==
  /\ Steady(n, n2)
  /\ t \in Threads /\ m \in Nat /\ m <= Len(stack[t])
  /\ new \in Seq(FrameOf(n2))
  /\ stack' = [stack EXCEPT ![t] = Cut(stack[t], m, new)]
  /\ \A u \in Threads : u # t \/ m > 0 => held'[u] \subseteq held[u]
  /\ \A e \in 1..n :
       entries[e].value = "busy" /\ entries'[e].value # "busy" =>
         \E i \in DOMAIN stack[t] : i > m /\ Runs(stack, t, i, e)
  /\ m > 0 => m < Len(stack[t])
  /\ m > 0 /\ (stack[t][m + 1].caller = "loader" \/ (new # <<>> /\ new[1].caller = "loader")) =>
       /\ stack[t][m + 1].caller = "loader"
       /\ new # <<>> /\ new[1].caller = "loader" /\ new[1].key = stack[t][m + 1].key
  /\ \A i \in DOMAIN new : FrameSound(new[i], t, m + i)'
  /\ \A i \in DOMAIN new : NestedAt(new, i)

LEMMA StepStack ==
  ASSUME NEW n, Types(n), NEW t, NEW m, NEW new, NEW n2, Step(t, m, new, n, n2)
  PROVE  /\ stack' \in [Threads -> Seq(FrameOf(n2))]
         /\ \A u \in Threads : u # t => stack'[u] = stack[u]
         /\ Len(stack'[t]) = m + Len(new) /\ DOMAIN stack'[t] = 1..(m + Len(new))
         /\ \A i \in 1..m : stack'[t][i] = stack[t][i]
         /\ \A i \in 1..Len(new) : \A j : j = m + i => stack'[t][j] = new[i]
<1> DEFINE F == FrameOf(n2)
<1>1. stack \in [Threads -> Seq(F)] /\ t \in Threads
  <2>1. n \in Nat /\ n2 \in Nat /\ n <= n2
    BY DEF Types, Step, Steady
  <2>2. Seq(FrameOf(n)) \subseteq Seq(F)
    BY <2>1, MoreEntries
  <2>3. stack \in [Threads -> Seq(FrameOf(n))] /\ t \in Threads
    BY DEF Types, Step
  <2> HIDE DEF F
  <2>4. QED
    BY <2>2, <2>3
<1>2. stack[t] \in Seq(F) /\ new \in Seq(F) /\ m \in Nat /\ m <= Len(stack[t])
  BY <1>1 DEF Step
<1> HIDE DEF F
<1>0. PICK s \in Seq(F) : s = stack[t]
  BY <1>2
<1> DEFINE c == Cut(s, m, new)
<1>3. /\ c \in Seq(F)
      /\ Len(c) = m + Len(new) /\ DOMAIN c = 1..(m + Len(new))
      /\ \A i \in 1..m : c[i] = s[i]
      /\ \A i \in 1..Len(new) : \A j : j = m + i => c[j] = new[i]
  <2>1. Cuttable(F, s, m, new)
    BY <1>0, <1>2 DEF Cuttable
  <2>2. /\ c \in Seq(F) /\ Len(c) = m + Len(new) /\ DOMAIN c = 1..(m + Len(new))
        /\ \A i \in 1..m : c[i] = s[i]
    BY ONLY <2>1, CutIs
  <2>3. \A i \in 1..Len(new) : \A j : j = m + i => c[j] = new[i]
    BY ONLY <2>1, CutIs
  <2>4. QED
    BY <2>2, <2>3
<1>4. stack' = [stack EXCEPT ![t] = c]
  BY <1>0 DEF Step
<1> HIDE DEF c
<1>5. stack'[t] = c /\ \A u \in Threads : u # t => stack'[u] = stack[u]
  BY <1>1, <1>4
<1>6. stack' \in [Threads -> Seq(F)]
  BY <1>1, <1>3, <1>4
<1>7. QED
  BY <1>0, <1>3, <1>5, <1>6 DEF F

LEMMA StepFrames ==
  ASSUME NEW n, Types(n), FramesSound, BusyOnce, NEW t, NEW m, NEW new, NEW n2, Step(t, m, new, n, n2)
  PROVE  FramesSound'
<1>1. /\ stack' \in [Threads -> Seq(FrameOf(n2))]
      /\ \A u \in Threads : u # t => stack'[u] = stack[u]
      /\ Len(stack'[t]) = m + Len(new) /\ DOMAIN stack'[t] = 1..(m + Len(new))
      /\ \A i \in 1..m : stack'[t][i] = stack[t][i]
      /\ \A i \in 1..Len(new) : \A j : j = m + i => stack'[t][j] = new[i]
  BY StepStack
<1>2. t \in Threads /\ m \in Nat /\ m <= Len(stack[t]) /\ Len(new) \in Nat /\ DOMAIN new = 1..Len(new)
  BY DEF Step
<1>3. stack \in [Threads -> Seq(FrameOf(n))] /\ \A u \in Threads : DOMAIN stack[u] = 1..Len(stack[u])
  BY DEF Types
<1>4. ASSUME NEW u \in Threads, NEW i \in DOMAIN stack[u], u # t \/ i <= m
      PROVE  FrameSound(stack[u][i], u, i)'
  <2>1. PICK f \in FrameOf(n) : f = stack[u][i]
    BY <1>3
  <2>2. FrameSound(f, u, i)
    BY <2>1 DEF FramesSound
  <2>3. held'[u] \subseteq held[u]
    <3>1. i >= 1
      BY <1>3
    <3>2. u # t \/ m > 0
      BY <1>2, <1>3, <1>4, <3>1
    <3>3. QED
      BY <3>2 DEF Step
  <2>4. f.op \in {"loader", "unwind"} => entries'[f.entry].value = "busy"
    <3> SUFFICES ASSUME f.op \in {"loader", "unwind"}, entries'[f.entry].value # "busy" PROVE FALSE
      OBVIOUS
    <3>1. f.entry \in 1..n /\ entries[f.entry].value = "busy"
      BY <2>2 DEF FrameSound, Holding, Types
    <3>2. PICK j \in DOMAIN stack[t] : j > m /\ Runs(stack, t, j, f.entry)
      BY <3>1 DEF Step
    <3>3. Runs(stack, u, i, f.entry)
      BY <2>1 DEF Runs
    <3>4. u = t /\ i = j
      BY <1>2, <3>1, <3>2, <3>3 DEF BusyOnce, Types
    <3>5. i \in Nat /\ i <= m
      BY <1>3, <1>4, <3>4
    <3>6. QED
      BY <1>2, <3>2, <3>4, <3>5
  <2>5. Steady(n, n2)
    BY DEF Step
  <2>6. FrameSound(f, u, i)'
    BY <2>2, <2>3, <2>4, <2>5, FrameKept
  <2>7. stack'[u][i] = f
    <3>1. CASE u # t
      BY <1>1, <2>1, <3>1
    <3>2. CASE u = t
      <4>1. i \in 1..m
        BY <1>2, <1>3, <1>4, <3>2
      <4>2. QED
        BY <1>1, <2>1, <3>2, <4>1
    <3>3. QED
      BY <3>1, <3>2
  <2>8. stack[u][i] = f
    BY <2>1
  <2>9. QED
    BY <2>6, <2>7 DEF FrameSound
<1>5. ASSUME NEW u \in Threads, NEW i \in DOMAIN stack'[u]
      PROVE  FrameSound(stack[u][i], u, i)'
  <2>1. CASE u # t \/ i <= m
    <3>1. i \in DOMAIN stack[u]
      <4>1. CASE u # t
        BY <1>1, <4>1
      <4>2. CASE u = t
        <5>1. i \in 1..(m + Len(new)) /\ i <= m
          BY <1>1, <2>1, <4>2
        <5>2. i \in 1..Len(stack[t])
          BY <1>2, <1>3, <5>1
        <5>3. QED
          BY <1>3, <4>2, <5>2
      <4>3. QED
        BY <4>1, <4>2
    <3>2. QED
      BY <1>4, <2>1, <3>1
  <2>2. CASE u = t /\ ~(i <= m)
    <3>1. i \in 1..(m + Len(new)) /\ i > m
      BY <1>1, <1>2, <2>2
    <3>2. PICK j \in 1..Len(new) : i = m + j
      <4>1. i - m \in 1..Len(new) /\ i = m + (i - m)
        BY <1>2, <3>1
      <4>2. QED
        BY <4>1
    <3>3. stack'[t][i] = new[j]
      BY <1>1, <3>2
    <3>4. FrameSound(new[j], t, m + j)'
      BY <1>2 DEF Step
    <3>5. QED
      BY <2>2, <3>2, <3>3, <3>4 DEF FrameSound
  <2>3. QED
    BY <2>1, <2>2
<1>6. QED
  BY <1>5 DEF FramesSound

LEMMA StepNested ==
  ASSUME NEW n, Types(n), Nested, NEW t, NEW m, NEW new, NEW n2, Step(t, m, new, n, n2)
  PROVE  Nested'
<1>1. /\ stack' \in [Threads -> Seq(FrameOf(n2))]
      /\ \A u \in Threads : u # t => stack'[u] = stack[u]
      /\ Len(stack'[t]) = m + Len(new) /\ DOMAIN stack'[t] = 1..(m + Len(new))
      /\ \A i \in 1..m : stack'[t][i] = stack[t][i]
      /\ \A i \in 1..Len(new) : \A j : j = m + i => stack'[t][j] = new[i]
  BY StepStack
<1>2. t \in Threads /\ m \in Nat /\ m <= Len(stack[t]) /\ Len(new) \in Nat /\ DOMAIN new = 1..Len(new)
  BY DEF Step
<1>3. stack \in [Threads -> Seq(FrameOf(n))] /\ \A u \in Threads : DOMAIN stack[u] = 1..Len(stack[u])
  BY DEF Types
<1>4. PICK s, s2 : s = stack[t] /\ s2 = stack'[t]
  OBVIOUS
<1>5. /\ Len(s2) = m + Len(new) /\ DOMAIN s2 = 1..(m + Len(new)) /\ Len(s) \in Nat /\ DOMAIN s = 1..Len(s)
      /\ \A i \in 1..m : s2[i] = s[i]
      /\ \A i \in 1..Len(new) : \A j : j = m + i => s2[j] = new[i]
      /\ m <= Len(s) /\ \A i \in 1..Len(s) : NestedAt(s, i)
      /\ \A i \in 1..Len(new) : NestedAt(new, i)
      /\ m > 0 => m < Len(s)
      /\ m > 0 /\ (s[m + 1].caller = "loader" \/ (new # <<>> /\ new[1].caller = "loader")) =>
           /\ s[m + 1].caller = "loader"
           /\ new # <<>> /\ new[1].caller = "loader" /\ new[1].key = s[m + 1].key
      /\ new # <<>> => Len(new) >= 1
  <2>1. /\ Len(s2) = m + Len(new) /\ DOMAIN s2 = 1..(m + Len(new)) /\ Len(s) \in Nat /\ DOMAIN s = 1..Len(s)
        /\ \A i \in 1..m : s2[i] = s[i]
        /\ \A i \in 1..Len(new) : \A j : j = m + i => s2[j] = new[i]
        /\ m <= Len(s)
    BY <1>1, <1>2, <1>3, <1>4
  <2>2. \A i \in 1..Len(s) : NestedAt(s, i)
    BY <1>2, <1>3, <1>4 DEF Nested
  <2>3. \A i \in 1..Len(new) : NestedAt(new, i)
    BY <1>2 DEF Step
  <2>4. new # <<>> => Len(new) >= 1
    BY DEF Step
  <2>5. /\ m > 0 => m < Len(s)
        /\ m > 0 /\ (s[m + 1].caller = "loader" \/ (new # <<>> /\ new[1].caller = "loader")) =>
             /\ s[m + 1].caller = "loader"
             /\ new # <<>> /\ new[1].caller = "loader" /\ new[1].key = s[m + 1].key
    BY <1>4 DEF Step
  <2>6. QED
    BY <2>1, <2>2, <2>3, <2>4, <2>5
<1>6. ASSUME NEW i \in 1..Len(s2) PROVE NestedAt(s2, i)
  <2>1. i \in 1..(m + Len(new)) /\ i \in Nat /\ m \in Nat /\ Len(new) \in Nat /\ Len(s) \in Nat
    BY <1>2, <1>5
  <2>2. CASE i < m
    <3>1. s2[i] = s[i] /\ s2[i + 1] = s[i + 1] /\ i < Len(s) /\ i < Len(s2) /\ i \in 1..Len(s)
      BY <1>5, <2>1, <2>2
    <3>2. NestedAt(s, i)
      BY <1>5, <3>1
    <3>3. QED
      BY <3>1, <3>2 DEF NestedAt, Waits
  <2>3. CASE i = m
    <3>1. s2[i] = s[i] /\ i < Len(s) /\ i \in 1..Len(s) /\ m > 0
      BY <1>5, <2>1, <2>3
    <3>2. NestedAt(s, i)
      BY <1>5, <3>1
    <3>3. i < Len(s2) <=> Len(new) >= 1
      BY <1>5, <2>1, <2>3
    <3>4. Len(new) >= 1 => s2[i + 1] = new[1]
      BY <1>5, <2>1, <2>3
    <3>5. Waits(s2, i) <=> Waits(s, i)
      <4>1. Waits(s, i) <=> s[m + 1].caller = "loader"
        BY <2>3, <3>1 DEF Waits
      <4>2. Waits(s2, i) <=> Len(new) >= 1 /\ new[1].caller = "loader"
        BY <3>3, <3>4 DEF Waits
      <4>3. QED
        BY <1>5, <3>1, <4>1, <4>2
    <3>6. Waits(s2, i) => s2[i + 1].key = s[i + 1].key
      BY <1>5, <2>3, <3>1, <3>3, <3>4 DEF Waits
    <3>7. QED
      BY <3>1, <3>2, <3>5, <3>6 DEF NestedAt
  <2>4. CASE i > m
    <3>1. PICK j \in 1..Len(new) : i = m + j
      <4>1. i - m \in 1..Len(new) /\ i = m + (i - m)
        BY <2>1, <2>4
      <4>2. QED
        BY <4>1
    <3>2. s2[i] = new[j] /\ NestedAt(new, j) /\ (i < Len(s2) <=> j < Len(new))
      BY <1>5, <2>1, <3>1
    <3>3. i < Len(s2) => s2[i + 1] = new[j + 1]
      <4> SUFFICES ASSUME i < Len(s2) PROVE s2[i + 1] = new[j + 1]
        OBVIOUS
      <4>1. j + 1 \in 1..Len(new) /\ i + 1 = m + (j + 1)
        BY <2>1, <3>1, <3>2
      <4>2. QED
        BY <1>5, <4>1
    <3>4. QED
      BY <3>2, <3>3 DEF NestedAt, Waits
  <2>5. QED
    BY <2>1, <2>2, <2>3, <2>4
<1>7. ASSUME NEW u \in Threads, NEW i \in DOMAIN stack'[u] PROVE NestedAt(stack'[u], i)
  <2>1. CASE u # t
    <3>1. stack'[u] = stack[u]
      BY <1>1, <2>1
    <3>2. NestedAt(stack[u], i)
      BY <3>1 DEF Nested
    <3>3. QED
      BY <3>1, <3>2
  <2>2. CASE u = t
    BY <1>4, <1>5, <1>6, <2>2
  <2>3. QED
    BY <2>1, <2>2
<1>8. QED
  BY <1>7 DEF Nested

\* A step that exchanges up to two calls leaves the others where they are.
Short(t, m, new) == Len(stack[t]) <= m + 2 /\ Len(new) <= 2

LEMMA Elsewhere ==
  ASSUME NEW n, Types(n), NEW t, NEW m, NEW new, NEW n2, Step(t, m, new, n, n2), Short(t, m, new),
         NEW u \in Threads, NEW i, u # t \/ (i # m + 1 /\ i # m + 2)
  PROVE  /\ i \in DOMAIN stack'[u] <=> i \in DOMAIN stack[u]
         /\ i \in DOMAIN stack[u] => stack'[u][i] = stack[u][i]
<1>1. /\ \A v \in Threads : v # t => stack'[v] = stack[v]
      /\ DOMAIN stack'[t] = 1..(m + Len(new))
      /\ \A j \in 1..m : stack'[t][j] = stack[t][j]
  BY StepStack
<1>2. t \in Threads /\ m \in Nat /\ m <= Len(stack[t]) /\ Len(new) \in Nat
  BY DEF Step
<1>3. DOMAIN stack[t] = 1..Len(stack[t]) /\ Len(stack[t]) \in Nat
  BY <1>2 DEF Types
<1>4. CASE u # t
  BY <1>1, <1>4
<1>5. CASE u = t
  <2>1. ASSUME i \in 1..(m + 2) PROVE i \in 1..m
    BY <1>2, <1>5, <2>1
  <2>2. i \in DOMAIN stack'[t] => i \in 1..m
    BY <1>1, <1>2, <2>1 DEF Short
  <2>3. i \in DOMAIN stack[t] => i \in 1..m
    BY <1>2, <1>3, <2>1 DEF Short
  <2>4. i \in 1..m => i \in DOMAIN stack'[t] /\ i \in DOMAIN stack[t]
    BY <1>1, <1>2, <1>3
  <2>5. QED
    BY <1>1, <1>5, <2>2, <2>3, <2>4
<1>6. QED
  BY <1>4, <1>5

\* The two calls after the first m, afterwards.
LEMMA NewCalls ==
  ASSUME NEW n, Types(n), NEW t, NEW m, NEW new, NEW n2, Step(t, m, new, n, n2), Short(t, m, new)
  PROVE  /\ \A e : HoldsAt(stack', t, m + 1, e) = IF Len(new) >= 1 THEN Holds(new[1], e) ELSE 0
         /\ \A e : HoldsAt(stack', t, m + 2, e) = IF Len(new) >= 2 THEN Holds(new[2], e) ELSE 0
         /\ \A e : Runs(stack', t, m + 1, e) <=>
                     Len(new) >= 1 /\ new[1].op \in {"loader", "unwind"} /\ new[1].entry = e
         /\ \A e : Runs(stack', t, m + 2, e) <=>
                     Len(new) >= 2 /\ new[2].op \in {"loader", "unwind"} /\ new[2].entry = e
<1>1. /\ DOMAIN stack'[t] = 1..(m + Len(new))
      /\ \A i \in 1..Len(new) : \A j : j = m + i => stack'[t][j] = new[i]
  BY StepStack
<1>2. m \in Nat /\ Len(new) \in Nat
  BY DEF Step
<1>3. (m + 1 \in DOMAIN stack'[t] <=> Len(new) >= 1) /\ (m + 2 \in DOMAIN stack'[t] <=> Len(new) >= 2)
  BY <1>1, <1>2
<1>4. (Len(new) >= 1 => stack'[t][m + 1] = new[1]) /\ (Len(new) >= 2 => stack'[t][m + 2] = new[2])
  <2>1. Len(new) >= 1 => 1 \in 1..Len(new)
    BY <1>2
  <2>2. Len(new) >= 2 => 2 \in 1..Len(new)
    BY <1>2
  <2>3. QED
    BY <1>1, <2>1, <2>2
<1>5. QED
  BY <1>3, <1>4 DEF HoldsAt, Runs

\* The owners on the stacks, before and after.
LEMMA StepCount ==
  ASSUME NEW n, Types(n), NEW t, NEW m, NEW new, NEW n2, Step(t, m, new, n, n2), Short(t, m, new),
         NEW e, IsFiniteSet(OnStacks(stack, e))
  PROVE  /\ IsFiniteSet(OnStacks(stack', e))
         /\ Cardinality(OnStacks(stack', e)) =
              Cardinality(OnStacks(stack, e)) - HoldsAt(stack, t, m + 1, e) - HoldsAt(stack, t, m + 2, e)
              + (IF Len(new) >= 1 THEN Holds(new[1], e) ELSE 0)
              + (IF Len(new) >= 2 THEN Holds(new[2], e) ELSE 0)
<1>1. n \in Nat /\ n2 \in Nat /\ n <= n2 /\ m \in Nat /\ t \in Threads
  BY DEF Types, Step, Steady
<1>2. stack \in [Threads -> Seq(FrameOf(n2))]
  <2>1. Seq(FrameOf(n)) \subseteq Seq(FrameOf(n2))
    BY <1>1, MoreEntries
  <2>2. stack \in [Threads -> Seq(FrameOf(n))]
    BY DEF Types
  <2>3. QED
    BY <2>1, <2>2
<1>3. stack' \in [Threads -> Seq(FrameOf(n2))]
  BY StepStack
<1>4. PICK st, st2 : st = stack /\ st2 = stack'
  OBVIOUS
<1> DEFINE p == m + 1
<1>10. \A u \in Threads : \A i \in Nat :
          u # t \/ (i # p /\ i # p + 1) => OwnsAt(st2, u, i, e) = OwnsAt(st, u, i, e)
  <2> SUFFICES ASSUME NEW u \in Threads, NEW i \in Nat, u # t \/ (i # p /\ i # p + 1)
               PROVE  OwnsAt(st2, u, i, e) = OwnsAt(st, u, i, e)
    OBVIOUS
  <2>1. u # t \/ (i # m + 1 /\ i # m + 2)
    BY <1>1
  <2>2. /\ i \in DOMAIN stack'[u] <=> i \in DOMAIN stack[u]
        /\ i \in DOMAIN stack[u] => stack'[u][i] = stack[u][i]
    BY <2>1, Elsewhere
  <2>3. QED
    BY <1>4, <2>2 DEF OwnsAt
<1>11. p \in Nat /\ IsFiniteSet(OnStacks(st, e)) /\ p + 1 = m + 2
  BY <1>1, <1>4
<1> HIDE DEF p
<1>12. /\ IsFiniteSet(OnStacks(st2, e))
       /\ Cardinality(OnStacks(st2, e)) =
            Cardinality(OnStacks(st, e)) - HoldsAt(st, t, p, e) - HoldsAt(st, t, p + 1, e)
            + HoldsAt(st2, t, p, e) + HoldsAt(st2, t, p + 1, e)
  <2>1. t \in Threads
    BY <1>1
  <2>2. p \in Nat
    BY <1>11
  <2>3. IsFiniteSet(OnStacks(st, e))
    BY <1>11
  <2>4. st \in StacksOf(n2)
    BY <1>2, <1>4 DEF StacksOf
  <2>5. st2 \in StacksOf(n2)
    BY <1>3, <1>4 DEF StacksOf
  <2>6. QED
    BY ONLY <2>1, <2>2, <2>3, <2>4, <2>5, <1>10, StackCount
<1>13. /\ HoldsAt(st2, t, p, e) = IF Len(new) >= 1 THEN Holds(new[1], e) ELSE 0
       /\ HoldsAt(st2, t, p + 1, e) = IF Len(new) >= 2 THEN Holds(new[2], e) ELSE 0
  BY <1>4, <1>11, NewCalls DEF p
<1>14. QED
  BY <1>4, <1>11, <1>12, <1>13 DEF p

BusyAt(e) ==
  /\ entries[e].value = "busy" => \E t \in Threads : \E i \in DOMAIN stack[t] : Runs(stack, t, i, e)
  /\ \A t, u \in Threads : \A i \in DOMAIN stack[t] : \A j \in DOMAIN stack[u] :
       Runs(stack, t, i, e) /\ Runs(stack, u, j, e) => t = u /\ i = j

LEMMA StepBusy ==
  ASSUME NEW n, Types(n), BusyOnce, FramesSound,
         NEW t, NEW m, NEW new, NEW n2, Step(t, m, new, n, n2), Short(t, m, new), NEW e \in 1..n2,
         \/ /\ \A i \in {m + 1, m + 2} : Runs(stack', t, i, e) <=> Runs(stack, t, i, e)
            /\ entries'[e].value = "busy" => e \in 1..n /\ entries[e].value = "busy"
         \/ /\ e \in 1..n /\ entries[e].value # "busy"
            /\ Runs(stack', t, m + 1, e) /\ ~Runs(stack', t, m + 2, e)
         \/ /\ Runs(stack, t, m + 1, e) \/ Runs(stack, t, m + 2, e)
            /\ ~Runs(stack', t, m + 1, e) /\ ~Runs(stack', t, m + 2, e)
            /\ entries'[e].value # "busy"
  PROVE  BusyAt(e)'
<1>1. ASSUME NEW u \in Threads, NEW i, u # t \/ (i # m + 1 /\ i # m + 2)
      PROVE  Runs(stack', u, i, e) <=> Runs(stack, u, i, e)
  <2>1. /\ i \in DOMAIN stack'[u] <=> i \in DOMAIN stack[u]
        /\ i \in DOMAIN stack[u] => stack'[u][i] = stack[u][i]
    BY <1>1, Elsewhere
  <2>2. QED
    BY <2>1 DEF Runs
<1>2. t \in Threads /\ m \in Nat /\ \A u \in Threads : \A i \in DOMAIN stack[u] : stack[u][i] \in FrameOf(n)
  BY DEF Step, Types
<1>3. \A u \in Threads : \A i : Runs(stack, u, i, e) => i \in DOMAIN stack[u] /\ e \in 1..n /\ entries[e].value = "busy"
  <2> SUFFICES ASSUME NEW u \in Threads, NEW i, Runs(stack, u, i, e)
               PROVE  i \in DOMAIN stack[u] /\ e \in 1..n /\ entries[e].value = "busy"
    OBVIOUS
  <2>1. i \in DOMAIN stack[u] /\ FrameSound(stack[u][i], u, i)
    BY DEF Runs, FramesSound
  <2>2. QED
    BY <2>1 DEF Runs, FrameSound, Holding, Types
<1>4. \A u, v \in Threads : \A i, j : Runs(stack, u, i, e) /\ Runs(stack, v, j, e) => u = v /\ i = j
  <2>1. Entry = 1..n
    BY DEF Types
  <2>2. QED
    BY <1>3, <2>1 DEF BusyOnce
<1>5. \A u \in Threads : \A i : Runs(stack', u, i, e) => i \in DOMAIN stack'[u]
  BY DEF Runs
<1>6. e \in 1..n /\ entries[e].value = "busy" => \E u \in Threads : \E i : Runs(stack, u, i, e)
  BY DEF BusyOnce, Types
<1>7. /\ entries'[e].value = "busy" => \E u \in Threads : \E i : Runs(stack', u, i, e)
      /\ \A u, v \in Threads : \A i, j : Runs(stack', u, i, e) /\ Runs(stack', v, j, e) => u = v /\ i = j
  <2>1. CASE /\ \A i \in {m + 1, m + 2} : Runs(stack', t, i, e) <=> Runs(stack, t, i, e)
             /\ entries'[e].value = "busy" => e \in 1..n /\ entries[e].value = "busy"
    <3>1. \A u \in Threads : \A i : Runs(stack', u, i, e) <=> Runs(stack, u, i, e)
      BY <1>1, <2>1
    <3>2. QED
      BY <1>4, <1>6, <2>1, <3>1
  <2>2. CASE /\ e \in 1..n /\ entries[e].value # "busy"
             /\ Runs(stack', t, m + 1, e) /\ ~Runs(stack', t, m + 2, e)
    <3>1. \A u \in Threads : \A i : ~Runs(stack, u, i, e)
      BY <1>3, <2>2
    <3>2. \A u \in Threads : \A i : Runs(stack', u, i, e) => u = t /\ i = m + 1
      BY <1>1, <2>2, <3>1
    <3>3. QED
      BY <1>2, <2>2, <3>2
  <2>3. CASE /\ Runs(stack, t, m + 1, e) \/ Runs(stack, t, m + 2, e)
             /\ ~Runs(stack', t, m + 1, e) /\ ~Runs(stack', t, m + 2, e)
             /\ entries'[e].value # "busy"
    <3>1. \A u \in Threads : \A i : ~Runs(stack', u, i, e)
      <4> SUFFICES ASSUME NEW u \in Threads, NEW i, Runs(stack', u, i, e) PROVE FALSE
        OBVIOUS
      <4>1. u # t \/ (i # m + 1 /\ i # m + 2)
        BY <2>3
      <4>2. Runs(stack, u, i, e)
        BY <1>1, <4>1
      <4>3. u = t /\ (i = m + 1 \/ i = m + 2)
        BY <1>2, <1>4, <2>3, <4>2
      <4>4. QED
        BY <4>1, <4>3
    <3>2. QED
      BY <2>3, <3>1
  <2>4. QED
    BY <2>1, <2>2, <2>3
<1>8. QED
  BY <1>5, <1>7 DEF BusyAt

----------------------------------------------------------------------------
(* The owners after a step *)

\* How many places more own e on the stacks.
Gain(t, m, new, e) ==
  (IF Len(new) >= 1 THEN Holds(new[1], e) ELSE 0) + (IF Len(new) >= 2 THEN Holds(new[2], e) ELSE 0)
  - HoldsAt(stack, t, m + 1, e) - HoldsAt(stack, t, m + 2, e)

Marked(rt, e) == IF e \in DOMAIN rt THEN 1 ELSE 0

LEMMA HoldsNat ==
  ASSUME NEW n, NEW f \in FrameOf(n), NEW e
  PROVE  Holds(f, e) \in Nat
<1>1. f.rest \in Seq(1..n) /\ f.keep \in Seq(1..n)
  BY DEF FrameOf
<1>2. QED
  BY <1>1, FrameCount

LEMMA HoldsAtNat ==
  ASSUME NEW n, Types(n), NEW t \in Threads, NEW i, NEW e
  PROVE  HoldsAt(stack, t, i, e) \in Nat
<1>1. i \in DOMAIN stack[t] => stack[t][i] \in FrameOf(n)
  BY DEF Types
<1>2. QED
  BY <1>1, HoldsNat DEF HoldsAt

LEMMA StepCounted ==
  ASSUME NEW n, Types(n), NEW t, NEW m, NEW new, NEW n2, Step(t, m, new, n, n2), Short(t, m, new),
         NEW e, FiniteOwners(held, Keeps(entries), stack, e),
         IsFiniteSet(HeldBy(held', e)), IsFiniteSet(KeptBy(Keeps(entries'), e))
  PROVE  /\ FiniteOwners(held', Keeps(entries'), stack', e)
         /\ Owners(held', retained', Keeps(entries'), stack', e) =
              Owners(held, retained, Keeps(entries), stack, e) + Gain(t, m, new, e)
              + (Cardinality(HeldBy(held', e)) - Cardinality(HeldBy(held, e)))
              + (Marked(retained', e) - Marked(retained, e))
              + (Cardinality(KeptBy(Keeps(entries'), e)) - Cardinality(KeptBy(Keeps(entries), e)))
<1> DEFINE a == HoldsAt(stack, t, m + 1, e)
           b == HoldsAt(stack, t, m + 2, e)
           c == IF Len(new) >= 1 THEN Holds(new[1], e) ELSE 0
           d == IF Len(new) >= 2 THEN Holds(new[2], e) ELSE 0
           h == Cardinality(HeldBy(held, e))
           h2 == Cardinality(HeldBy(held', e))
           k == Cardinality(KeptBy(Keeps(entries), e))
           k2 == Cardinality(KeptBy(Keeps(entries'), e))
           s == Cardinality(OnStacks(stack, e))
           s2 == Cardinality(OnStacks(stack', e))
<1>1. IsFiniteSet(OnStacks(stack, e)) /\ IsFiniteSet(HeldBy(held, e)) /\ IsFiniteSet(KeptBy(Keeps(entries), e))
  BY DEF FiniteOwners
<1>2. IsFiniteSet(OnStacks(stack', e)) /\ s2 = s - a - b + c + d
  BY <1>1, StepCount
<1>3. h \in Nat /\ h2 \in Nat /\ k \in Nat /\ k2 \in Nat /\ s \in Nat
  BY <1>1, FS_CardinalityType
<1>4. a \in Nat /\ b \in Nat
  BY HoldsAtNat DEF Step
<1>5. c \in Nat /\ d \in Nat
  <2>1. new \in Seq(FrameOf(n2)) /\ Len(new) \in Nat
    BY DEF Step
  <2>2. (Len(new) >= 1 => new[1] \in FrameOf(n2)) /\ (Len(new) >= 2 => new[2] \in FrameOf(n2))
    BY <2>1
  <2>3. QED
    BY <2>2, HoldsNat
<1>6. Marked(retained', e) \in Nat /\ Marked(retained, e) \in Nat
  BY DEF Marked
<1>7. Gain(t, m, new, e) = c + d - a - b
  BY DEF Gain
<1>8. /\ Owners(held', retained', Keeps(entries'), stack', e) = h2 + Marked(retained', e) + k2 + s2
      /\ Owners(held, retained, Keeps(entries), stack, e) = h + Marked(retained, e) + k + s
  BY DEF Owners, Marked
<1>9. FiniteOwners(held', Keeps(entries'), stack', e)
  BY <1>2 DEF FiniteOwners
<1> HIDE DEF a, b, c, d, h, h2, k, k2, s, s2
<1>10. Owners(held', retained', Keeps(entries'), stack', e) =
         Owners(held, retained, Keeps(entries), stack, e) + Gain(t, m, new, e)
         + (h2 - h) + (Marked(retained', e) - Marked(retained, e)) + (k2 - k)
  BY ONLY <1>2, <1>3, <1>4, <1>5, <1>6, <1>7, <1>8
<1>11. QED
  BY <1>9, <1>10 DEF h, h2, k, k2

\* Nobody owns an entry that does not exist.
LEMMA NoOwners ==
  ASSUME NEW n, Types(n), NEW e, e \notin 1..n, e # NoEntry
  PROVE  /\ FiniteOwners(held, Keeps(entries), stack, e)
         /\ Owners(held, retained, Keeps(entries), stack, e) = 0
<1>1. HeldBy(held, e) = {}
  BY DEF Types, HeldBy
<1>2. ASSUME NEW s \in Seq(1..n) PROVE Places(s, e) = {}
  <2>1. \A N : s \in Seq(N) /\ e \notin N => Places(s, e) = {}
    BY DEF Places
  <2>2. QED
    BY <2>1
<1>3. KeptBy(Keeps(entries), e) = {}
  <2>1. \A x \in 1..n : entries[x].keep \in Seq(1..n)
    BY DEF Types, EntryOf
  <2>2. \A x \in DOMAIN entries : Places(entries[x].keep, e) = {}
    BY <1>2, <2>1 DEF Types
  <2>3. QED
    BY <2>2 DEF KeptBy, Keeps
<1>4. OnStacks(stack, e) = {}
  <2>1. ASSUME NEW u \in Threads, NEW i \in DOMAIN stack[u] PROVE FrameOwns(stack[u][i], e) = {}
    <3>1. stack[u][i] \in FrameOf(n)
      BY DEF Types
    <3>2. PICK f \in FrameOf(n) : f = stack[u][i]
      BY <3>1
    <3>3. f.rest \in Seq(1..n) /\ f.keep \in Seq(1..n) /\ f.entry # e
      BY DEF FrameOf
    <3>4. Places(f.rest, e) = {} /\ Places(f.keep, e) = {}
      BY <1>2, <3>3
    <3>5. QED
      BY <3>2, <3>3, <3>4 DEF FrameOwns
  <2>2. QED
    BY <2>1 DEF OnStacks
<1>5. e \notin DOMAIN retained
  BY DEF Types
<1>6. QED
  BY <1>1, <1>3, <1>4, <1>5, FS_EmptySet DEF FiniteOwners, Owners

----------------------------------------------------------------------------
(* What a step leaves as it was *)

Rest(n) ==
  /\ DOMAIN asset_map \subseteq Keys
  /\ \A k \in DOMAIN asset_map : asset_map[k] \in [id : Nat, weak : 1..n]
  /\ held \in [Threads -> SUBSET (1..n)]
  /\ DOMAIN retained \subseteq 1..n
  /\ \A e \in DOMAIN retained : retained[e] \in BOOLEAN
  /\ used \subseteq 1..n
  /\ used_before \subseteq 1..n
  /\ loads \in 0..MaxLoads /\ panics \in 0..MaxPanics

LEMMA HasRest == TypeOK => Rest(Len(entries))
<1>1. TypeOK => DOMAIN entries = 1..Len(entries) /\ Entry = 1..Len(entries)
  BY DEF TypeOK, Entry
<1>2. QED
  BY <1>1 DEF TypeOK, Rest

LEMMA StepTypes ==
  ASSUME NEW n, Types(n), NEW t, NEW m, NEW new, NEW n2, Step(t, m, new, n, n2), Rest(n2)'
  PROVE  TypeOK' /\ Types(n2)' /\ Entry' = 1..n2
<1>1. stack' \in [Threads -> Seq(FrameOf(n2))]
  BY StepStack
<1>2. n2 \in Nat /\ entries' \in Seq(EntryOf(n2)) /\ Len(entries') = n2
  BY DEF Step, Steady
<1>3. DOMAIN entries' = 1..n2 /\ Entry' = 1..n2
  BY <1>2 DEF Entry
<1>4. /\ entries' \in Seq([key : Keys, id : Nat, strong : Nat, keep : Seq(Entry'),
                           value : {"empty", "busy", "ready"}])
      /\ stack' \in [Threads -> Seq([op : Ops, caller : Callers, key : Keys, entry : Entry' \cup {NoEntry},
                                     rest : Seq(Entry'), keep : Seq(Entry'), loaded : Nat])]
  BY <1>1, <1>2, <1>3 DEF EntryOf, FrameOf
<1>5. TypeOK'
  BY <1>3, <1>4 DEF TypeOK, Rest
<1>6. \A e \in 1..n2 : entries'[e] \in EntryOf(n2)
  BY <1>2
<1>7. Types(n2)'
  BY <1>1, <1>2, <1>3, <1>6 DEF Types, Rest
<1>8. QED
  BY <1>3, <1>5, <1>7

LEMMA MapKept ==
  ASSUME NEW n, Types(n), Rest(n), Steady(n, n), asset_map' = asset_map, LiveIsShared, MapSound
  PROVE  LiveIsShared' /\ MapSound'
<1>1. DOMAIN entries' = 1..n /\ DOMAIN entries = 1..n
  BY DEF Steady, Types
<1>2. \A e \in 1..n : /\ entries[e].strong \in Nat /\ entries'[e].strong \in Nat
                      /\ entries[e].strong = 0 => entries'[e].strong = 0
                      /\ entries'[e].key = entries[e].key /\ entries'[e].id = entries[e].id
  <2>1. \A e \in 1..n : entries[e] \in EntryOf(n) /\ entries'[e] \in EntryOf(n)
    BY <1>1 DEF Types, Steady
  <2>2. QED
    BY <2>1 DEF Steady, EntryOf
<1>3. \A e \in 1..n : entries'[e].strong > 0 => entries[e].strong > 0
  BY <1>2
<1>4. LiveIsShared'
  BY <1>1, <1>2, <1>3 DEF LiveIsShared, Alive
<1>5. \A k \in DOMAIN asset_map : asset_map[k].weak \in 1..n
  BY DEF Rest
<1>6. MapSound'
  BY <1>2, <1>5 DEF MapSound
<1>7. QED
  BY <1>4, <1>6

\* The calls above the first m have nothing to take out of the map.
Unremoving(t, m) == \A i \in DOMAIN stack[t] : i > m => stack[t][i].op # "remove"

\* Who takes the count to zero goes on to take the entry out of the map.
Follows(new, n) ==
  \A e \in 1..n : entries[e].strong > 0 /\ entries'[e].strong = 0 =>
    \E j \in DOMAIN new : new[j].op = "remove" /\ new[j].entry = e

\* A key of the map leads to a live entry, or to one that is being taken out.
LeaksNotAt(k) ==
  LET e == asset_map[k].weak IN
  Alive(e) \/ \E t \in Threads : \E i \in DOMAIN stack[t] :
      stack[t][i].op = "remove" /\ stack[t][i].entry = e /\ entries[e].id = asset_map[k].id

LEMMA LeaksKept ==
  ASSUME NEW n, Types(n), Rest(n), KeepsSound, MapSound,
         NEW t, NEW m, NEW new, NEW n2, Step(t, m, new, n, n2),
         NEW k \in DOMAIN asset_map, asset_map'[k] = asset_map[k], LeaksNotAt(k), Follows(new, n),
         \A i \in DOMAIN stack[t] : i > m /\ stack[t][i].op = "remove" => stack[t][i].entry # asset_map[k].weak
  PROVE  LeaksNotAt(k)'
<1> DEFINE e == asset_map[k].weak
<1>1. e \in 1..n /\ entries[e].id = asset_map[k].id
  BY DEF Rest, KeepsSound, MapSound, Types
<1>2. entries'[e].id = entries[e].id /\ entries[e].strong \in Nat /\ entries'[e].strong \in Nat
  <2>1. entries[e] \in EntryOf(n) /\ entries'[e] \in EntryOf(n2)
    BY <1>1 DEF Types, Step, Steady
  <2>2. QED
    BY <2>1, <1>1 DEF EntryOf, Step, Steady
<1>3. /\ \A u \in Threads : u # t => stack'[u] = stack[u]
      /\ DOMAIN stack'[t] = 1..(m + Len(new))
      /\ \A i \in 1..m : stack'[t][i] = stack[t][i]
      /\ \A i \in 1..Len(new) : \A j : j = m + i => stack'[t][j] = new[i]
  BY StepStack
<1>4. t \in Threads /\ m \in Nat /\ Len(new) \in Nat /\ DOMAIN new = 1..Len(new) /\ DOMAIN stack[t] \subseteq Nat \ {0}
  <2>1. t \in Threads /\ m \in Nat /\ Len(new) \in Nat /\ DOMAIN new = 1..Len(new)
    BY DEF Step
  <2>2. QED
    BY <2>1 DEF Types
<1>5. SUFFICES ASSUME entries'[e].strong = 0
               PROVE  \E u \in Threads : \E i \in DOMAIN stack'[u] :
                        stack'[u][i].op = "remove" /\ stack'[u][i].entry = e
  BY <1>1, <1>2 DEF LeaksNotAt, Alive
<1>6. CASE entries[e].strong > 0
  <2>1. PICK j \in DOMAIN new : new[j].op = "remove" /\ new[j].entry = e
    BY <1>1, <1>5, <1>6 DEF Follows
  <2>2. stack'[t][m + j] = new[j] /\ m + j \in DOMAIN stack'[t]
    BY <1>3, <1>4
  <2>3. QED
    BY <1>4, <2>1, <2>2
<1>7. CASE ~(entries[e].strong > 0)
  <2>1. PICK u \in Threads : \E i \in DOMAIN stack[u] : stack[u][i].op = "remove" /\ stack[u][i].entry = e
    BY <1>7 DEF LeaksNotAt, Alive
  <2>2. PICK i \in DOMAIN stack[u] : stack[u][i].op = "remove" /\ stack[u][i].entry = e
    BY <2>1
  <2>3. CASE u # t
    BY <1>3, <2>2, <2>3
  <2>4. CASE u = t
    <3>1. ~(i > m)
      BY <2>2, <2>4
    <3>2. i \in 1..m
      BY <1>4, <2>2, <2>4, <3>1
    <3>3. i \in DOMAIN stack'[t] /\ stack'[t][i] = stack[t][i]
      BY <1>3, <1>4, <3>2
    <3>4. QED
      BY <2>2, <2>4, <3>3
  <2>5. QED
    BY <2>3, <2>4
<1>8. QED
  BY <1>6, <1>7

LEMMA NothingLeaksKept ==
  ASSUME NEW n, Types(n), Rest(n), KeepsSound, MapSound, NothingLeaks,
         NEW t, NEW m, NEW new, NEW n2, Step(t, m, new, n, n2),
         asset_map' = asset_map, Follows(new, n), Unremoving(t, m)
  PROVE  NothingLeaks'
<1>1. \A k \in DOMAIN asset_map : LeaksNotAt(k)
  BY DEF NothingLeaks, LeaksNotAt
<1>2. \A k \in DOMAIN asset_map : LeaksNotAt(k)'
  <2> SUFFICES ASSUME NEW k \in DOMAIN asset_map PROVE LeaksNotAt(k)'
    OBVIOUS
  <2>1. asset_map'[k] = asset_map[k] /\ LeaksNotAt(k)
    BY <1>1
  <2>2. \A i \in DOMAIN stack[t] : i > m /\ stack[t][i].op = "remove" => stack[t][i].entry # asset_map[k].weak
    BY DEF Unremoving
  <2>3. QED
    BY <2>1, <2>2, LeaksKept
<1>3. QED
  BY <1>2 DEF NothingLeaks, LeaksNotAt

\* What KeepsSound says of one entry.
KeepAt(e) ==
  /\ entries[e].id = e
  /\ \A j \in DOMAIN entries[e].keep : entries[entries[e].keep[j]].value = "ready"
  /\ entries[e].value # "ready" => entries[e].keep = <<>>
  /\ Alive(e) /\ Ready(e) =>
       /\ Len(entries[e].keep) = Len(DependsOn[entries[e].key])
       /\ \A j \in DOMAIN entries[e].keep : entries[entries[e].keep[j]].key = DependsOn[entries[e].key][j]

LEMMA KeepKept ==
  ASSUME NEW n, Types(n), KeepsSound, NEW n2, Steady(n, n2), NEW e \in 1..n,
         entries'[e].keep = entries[e].keep, entries'[e].value = "ready" => entries[e].value = "ready"
  PROVE  KeepAt(e)'
<1>1. KeepAt(e)
  BY DEF KeepsSound, KeepAt, Types
<1>2. /\ entries'[e].key = entries[e].key /\ entries'[e].id = entries[e].id
      /\ entries[e].value = "ready" => entries'[e].value = "ready"
      /\ entries[e].strong \in Nat /\ entries'[e].strong \in Nat
      /\ entries[e].strong = 0 => entries'[e].strong = 0
  <2>1. entries[e] \in EntryOf(n) /\ entries'[e] \in EntryOf(n2)
    BY DEF Types, Steady
  <2>2. QED
    BY <2>1 DEF EntryOf, Steady
<1>3. \A j \in DOMAIN entries[e].keep :
        LET d == entries[e].keep[j]
        IN  entries'[d].key = entries[d].key /\ (entries[d].value = "ready" => entries'[d].value = "ready")
  <2>1. entries[e].keep \in Seq(1..n)
    BY DEF Types, EntryOf
  <2>2. \A s, S : s \in Seq(S) => \A j \in DOMAIN s : s[j] \in S
    OBVIOUS
  <2>3. \A j \in DOMAIN entries[e].keep : entries[e].keep[j] \in 1..n
    BY <2>1, <2>2
  <2>4. QED
    BY <2>3 DEF Steady
<1>4. Alive(e)' => Alive(e)
  BY <1>2 DEF Alive
<1>5. QED
  BY <1>1, <1>2, <1>3, <1>4 DEF KeepAt, Ready

LEMMA HeldReadyKept ==
  ASSUME NEW n, Types(n), HeldReady, NEW n2, Steady(n, n2),
         \A u \in Threads : \A e \in held'[u] : e \in held[u] \/ entries'[e].value = "ready",
         \A e \in DOMAIN retained' : e \in DOMAIN retained \/ entries'[e].value = "ready"
  PROVE  HeldReady'
<1>1. \A u \in Threads : \A e \in held[u] : e \in 1..n /\ entries[e].value = "ready"
  BY DEF Types, HeldReady, Ready
<1>2. \A e \in DOMAIN retained : e \in 1..n /\ entries[e].value = "ready"
  BY DEF Types, HeldReady, Ready
<1>3. QED
  BY <1>1, <1>2 DEF HeldReady, Ready, Steady

\* The step does not touch the frame of a reap.
Unreaping(t, m, new) ==
  t = Painter /\ m = 0 =>
    /\ stack[t] # <<>> => stack[t][1].op # "reap"
    /\ new # <<>> => new[1].op # "reap"

LEMMA ReapKept ==
  ASSUME NEW n, Types(n), NEW t, NEW m, NEW new, NEW n2, Step(t, m, new, n, n2), Unreaping(t, m, new)
  PROVE  /\ Reaping' <=> Reaping
         /\ Reaping => stack'[Painter][1] = stack[Painter][1]
<1>1. /\ stack' \in [Threads -> Seq(FrameOf(n2))]
      /\ \A u \in Threads : u # t => stack'[u] = stack[u]
      /\ Len(stack'[t]) = m + Len(new) /\ DOMAIN stack'[t] = 1..(m + Len(new))
      /\ \A i \in 1..m : stack'[t][i] = stack[t][i]
      /\ \A i \in 1..Len(new) : \A j : j = m + i => stack'[t][j] = new[i]
  BY StepStack
<1>2. Painter \in Threads /\ t \in Threads /\ m \in Nat /\ m <= Len(stack[t]) /\ Len(new) \in Nat
  BY Acyclic DEF Step
<1>3. CASE t # Painter
  BY <1>1, <1>2, <1>3 DEF Reaping
<1>4. CASE t = Painter /\ m > 0
  <2>1. 1 \in 1..m /\ stack'[t][1] = stack[t][1]
    BY <1>1, <1>2, <1>4
  <2>2. stack[t] # <<>> /\ stack'[t] # <<>>
    <3>1. Len(stack'[t]) > 0 /\ Len(stack[t]) > 0
      BY <1>1, <1>2, <1>4
    <3>2. stack[t] \in Seq(FrameOf(n)) /\ stack'[t] \in Seq(FrameOf(n2))
      BY <1>1, <1>2 DEF Types
    <3>3. QED
      BY <3>1
  <2>3. QED
    BY <1>4, <2>1, <2>2 DEF Reaping
<1>5. CASE t = Painter /\ m = 0
  <2>1. ~Reaping
    BY <1>5 DEF Reaping, Unreaping
  <2>2. stack'[t] # <<>> => new # <<>> /\ stack'[t][1] = new[1]
    <3>1. new = <<>> => Len(new) = 0
      OBVIOUS
    <3>2. stack'[t] \in Seq(FrameOf(n2)) /\ (Len(stack'[t]) = 0 => stack'[t] = <<>>)
      BY <1>1, <1>2
    <3>3. stack'[t] # <<>> => Len(new) >= 1
      BY <1>1, <1>2, <1>5, <3>2
    <3>4. Len(new) >= 1 => stack'[t][1] = new[1]
      <4>1. Len(new) >= 1 => 1 \in 1..Len(new)
        BY <1>2
      <4>2. 1 = m + 1
        BY <1>5
      <4>3. QED
        BY <1>1, <4>1, <4>2
    <3>5. QED
      BY <3>1, <3>3, <3>4
  <2>3. ~Reaping'
    BY <1>5, <2>2 DEF Reaping, Unreaping
  <2>4. QED
    BY <2>1, <2>3
<1>6. QED
  BY <1>2, <1>3, <1>4, <1>5

LEMMA RetainerKept ==
  ASSUME NEW n, Types(n), RetainerSound, NEW t, NEW m, NEW new, NEW n2, Step(t, m, new, n, n2),
         Unreaping(t, m, new), retained' = retained, used' = used, used_before' = used_before
  PROVE  RetainerSound'
<1>1. /\ Reaping' <=> Reaping
      /\ Reaping => stack'[Painter][1] = stack[Painter][1]
  BY ReapKept
<1>2. CASE Reaping
  BY <1>1, <1>2 DEF RetainerSound
<1>3. CASE ~Reaping
  BY <1>1, <1>3 DEF RetainerSound
<1>4. QED
  BY <1>2, <1>3

----------------------------------------------------------------------------
(* The call that a thread is in *)

LEMMA TopFrame ==
  ASSUME NEW n, Types(n), FramesSound, Nested, NEW t \in Threads, stack[t] # <<>>
  PROVE  /\ stack[t] \in Seq(FrameOf(n)) /\ DOMAIN stack[t] = 1..Len(stack[t])
         /\ Len(stack[t]) \in Nat /\ Len(stack[t]) >= 1
         /\ Top(t) = stack[t][Len(stack[t])] /\ Top(t) \in FrameOf(n)
         /\ FrameSound(Top(t), t, Len(stack[t])) /\ NestedAt(stack[t], Len(stack[t]))
<1>1. stack[t] \in Seq(FrameOf(n))
  BY DEF Types
<1>2. PICK s \in Seq(FrameOf(n)) : s = stack[t]
  BY <1>1
<1>3. Len(s) \in Nat /\ Len(s) >= 1 /\ Last(s) = s[Len(s)] /\ Last(s) \in FrameOf(n) /\ DOMAIN s = 1..Len(s)
  <2>1. s # <<>>
    BY <1>2
  <2>2. Len(s) \in Nat /\ Len(s) >= 1 /\ Last(s) = s[Len(s)] /\ Last(s) \in FrameOf(n)
    BY ONLY <2>1, s \in Seq(FrameOf(n)), Frontal
  <2>3. QED
    BY <2>2
<1>4. Len(s) \in DOMAIN s
  BY <1>3
<1>5. FrameSound(s[Len(s)], t, Len(s)) /\ NestedAt(s, Len(s))
  BY <1>2, <1>4 DEF FramesSound, Nested
<1>6. QED
  BY <1>2, <1>3, <1>5 DEF Top

LEMMA AFrame ==
  ASSUME NEW n \in Nat, NEW op \in Ops, NEW caller \in Callers, NEW k \in Keys, NEW e \in (1..n) \cup {NoEntry}
  PROVE  /\ Frame(op, caller, k, e) \in FrameOf(n)
         /\ Frame(op, caller, k, e).op = op /\ Frame(op, caller, k, e).caller = caller
         /\ Frame(op, caller, k, e).key = k /\ Frame(op, caller, k, e).entry = e
         /\ Frame(op, caller, k, e).rest = <<>> /\ Frame(op, caller, k, e).keep = <<>>
         /\ Frame(op, caller, k, e).loaded = 0
<1>1. <<>> \in Seq(1..n)
  OBVIOUS
<1>2. QED
  BY <1>1 DEF Frame, FrameOf

\* Calls that own nothing.
LEMMA HoldsNothing ==
  ASSUME NEW f, f.op \notin Holding, f.rest = <<>> \/ f.op = "reap"
  PROVE  \A e : Holds(f, e) = 0
BY OccEmpty DEF Holds, Holding

\* Calls that own their entry only.
LEMMA HoldsEntry ==
  ASSUME NEW f, f.op \in Holding, f.rest = <<>>, f.keep = <<>> \/ f.op # "loader"
  PROVE  \A e : Holds(f, e) = IF f.entry = e THEN 1 ELSE 0
<1>1. \A e : Occ(<<>>, e) = 0
  BY OccEmpty
<1>2. f.op # "reap"
  BY DEF Holding
<1>3. QED
  BY <1>1, <1>2 DEF Holds

\* One more of the rest is dropped.
LEMMA HoldsTail ==
  ASSUME NEW n, NEW f \in FrameOf(n), NEW g \in FrameOf(n), f.rest # <<>>, f.op # "reap",
         g.op = f.op, g.entry = f.entry, g.rest = Tail(f.rest), g.keep = f.keep
  PROVE  \A e : Holds(g, e) = Holds(f, e) - (IF Head(f.rest) = e THEN 1 ELSE 0)
<1> SUFFICES ASSUME NEW e PROVE Holds(g, e) = Holds(f, e) - (IF Head(f.rest) = e THEN 1 ELSE 0)
  OBVIOUS
<1>1. f.rest \in Seq(1..n) /\ f.keep \in Seq(1..n) /\ g.rest \in Seq(1..n)
  BY DEF FrameOf
<1>2. Occ(Tail(f.rest), e) = Occ(f.rest, e) - (IF Head(f.rest) = e THEN 1 ELSE 0)
  BY <1>1, OccTail
<1>3. Occ(f.rest, e) \in Nat /\ Occ(g.rest, e) \in Nat /\ Occ(f.keep, e) \in Nat
  BY <1>1, PlacesFinite
<1>4. QED
  BY <1>2, <1>3 DEF Holds

\* A remover of an entry that nobody owns.
LEMMA RemoverSound ==
  ASSUME NEW t, NEW i, NEW k, NEW e, e \in Entry', entries'[e].strong = 0
  PROVE  FrameSound(Frame("remove", "user", k, e), t, i)'
BY DEF FrameSound, Frame, Holding, LoadOps

\* The owners among the last calls.
LEMMA OldCalls ==
  ASSUME NEW n, Types(n), NEW t \in Threads, NEW m \in Nat, NEW e
  PROVE  /\ Len(stack[t]) = m => HoldsAt(stack, t, m + 1, e) = 0 /\ HoldsAt(stack, t, m + 2, e) = 0
         /\ Len(stack[t]) = m + 1 =>
              /\ HoldsAt(stack, t, m + 1, e) = Holds(stack[t][Len(stack[t])], e)
              /\ HoldsAt(stack, t, m + 2, e) = 0
         /\ Len(stack[t]) = m + 2 =>
              /\ HoldsAt(stack, t, m + 1, e) = Holds(stack[t][Len(stack[t]) - 1], e)
              /\ HoldsAt(stack, t, m + 2, e) = Holds(stack[t][Len(stack[t])], e)
<1>1. DOMAIN stack[t] = 1..Len(stack[t])
  BY DEF Types
<1>2. QED
  BY <1>1 DEF HoldsAt

LEMMA OldRuns ==
  ASSUME NEW n, Types(n), NEW t \in Threads, NEW m \in Nat, NEW e
  PROVE  /\ Len(stack[t]) = m => ~Runs(stack, t, m + 1, e) /\ ~Runs(stack, t, m + 2, e)
         /\ Len(stack[t]) = m + 1 =>
              /\ Runs(stack, t, m + 1, e) <=> /\ stack[t][Len(stack[t])].op \in {"loader", "unwind"}
                                              /\ stack[t][Len(stack[t])].entry = e
              /\ ~Runs(stack, t, m + 2, e)
         /\ Len(stack[t]) = m + 2 =>
              /\ Runs(stack, t, m + 1, e) <=> /\ stack[t][Len(stack[t]) - 1].op \in {"loader", "unwind"}
                                              /\ stack[t][Len(stack[t]) - 1].entry = e
              /\ Runs(stack, t, m + 2, e) <=> /\ stack[t][Len(stack[t])].op \in {"loader", "unwind"}
                                              /\ stack[t][Len(stack[t])].entry = e
<1>1. DOMAIN stack[t] = 1..Len(stack[t])
  BY DEF Types
<1>2. QED
  BY <1>1 DEF Runs

----------------------------------------------------------------------------
(* Steps that change reference counts and stacks only *)

LEMMA Counting ==
  ASSUME NEW n, Types(n), NEW e \in 1..n
  PROVE  entries[e] \in EntryOf(n) /\ entries[e].strong \in Nat /\ entries[e].key \in Keys
         /\ entries[e].keep \in Seq(1..n) /\ entries[e].value \in {"empty", "busy", "ready"}
BY DEF Types, EntryOf

LEMMA SteadySame ==
  ASSUME NEW n, Types(n), entries' = entries
  PROVE  Steady(n, n)
BY DEF Types, Steady

LEMMA SteadyCloned ==
  ASSUME NEW n, Types(n), NEW x \in 1..n, entries[x].strong > 0, entries' = Cloned(entries, x)
  PROVE  /\ Steady(n, n)
         /\ \A e \in 1..n : /\ entries'[e].keep = entries[e].keep /\ entries'[e].value = entries[e].value
                            /\ entries'[e].strong = entries[e].strong + (IF x = e THEN 1 ELSE 0)
<1>1. \A e \in 1..n : entries[e] \in EntryOf(n) /\ entries[e].strong \in Nat
  BY Counting
<1>2. n \in Nat /\ DOMAIN entries = 1..n /\ entries \in Seq(EntryOf(n))
  BY DEF Types
<1> DEFINE c == [entries[x] EXCEPT !.strong = @ + 1]
<1>3. /\ c \in EntryOf(n) /\ c.strong = entries[x].strong + 1 /\ c.keep = entries[x].keep
      /\ c.value = entries[x].value /\ c.key = entries[x].key /\ c.id = entries[x].id
  BY <1>1 DEF EntryOf
<1>4. entries' = [entries EXCEPT ![x] = c]
  BY DEF Cloned
<1> HIDE DEF c
<1>5. entries' \in Seq(EntryOf(n)) /\ Len(entries') = n
  BY <1>2, <1>3, <1>4
<1>6. \A e \in 1..n : entries'[e] = IF e = x THEN c ELSE entries[e]
  BY <1>2, <1>4
<1>7. QED
  BY <1>1, <1>2, <1>3, <1>5, <1>6 DEF Steady

LEMMA SteadyReleased ==
  ASSUME NEW n, Types(n), NEW x \in 1..n, entries[x].strong > 0, entries' = Released(entries, x)
  PROVE  /\ Steady(n, n)
         /\ \A e \in 1..n : /\ entries'[e].keep = entries[e].keep /\ entries'[e].value = entries[e].value
                            /\ entries'[e].strong = entries[e].strong - (IF x = e THEN 1 ELSE 0)
<1>1. \A e \in 1..n : entries[e] \in EntryOf(n) /\ entries[e].strong \in Nat
  BY Counting
<1>2. n \in Nat /\ DOMAIN entries = 1..n /\ entries \in Seq(EntryOf(n))
  BY DEF Types
<1> DEFINE c == [entries[x] EXCEPT !.strong = @ - 1]
<1>3. /\ c \in EntryOf(n) /\ c.strong = entries[x].strong - 1 /\ c.keep = entries[x].keep
      /\ c.value = entries[x].value /\ c.key = entries[x].key /\ c.id = entries[x].id
  BY <1>1 DEF EntryOf
<1>4. entries' = [entries EXCEPT ![x] = c]
  BY DEF Released
<1> HIDE DEF c
<1>5. entries' \in Seq(EntryOf(n)) /\ Len(entries') = n
  BY <1>2, <1>3, <1>4
<1>6. \A e \in 1..n : entries'[e] = IF e = x THEN c ELSE entries[e]
  BY <1>2, <1>4
<1>7. QED
  BY <1>1, <1>2, <1>3, <1>5, <1>6 DEF Steady

\* The owners that are not on the stacks stay.
LEMMA KeepsSame ==
  ASSUME NEW n, Types(n), NEW n2, Steady(n, n2), n2 = n, \A e \in 1..n : entries'[e].keep = entries[e].keep
  PROVE  Keeps(entries') = Keeps(entries)
<1>1. DOMAIN entries' = 1..n /\ DOMAIN entries = 1..n
  BY DEF Steady, Types
<1>2. QED
  BY <1>1 DEF Keeps

LEMMA StackCounted ==
  ASSUME NEW n, Types(n), NEW t, NEW m, NEW new, Step(t, m, new, n, n), Short(t, m, new), Counted,
         NEW e \in 1..n, held' = held, Marked(retained', e) = Marked(retained, e),
         Keeps(entries') = Keeps(entries),
         entries'[e].strong = entries[e].strong + Gain(t, m, new, e)
  PROVE  CountedAt(e)'
<1>1. CountedAt(e)
  BY DEF Counted, Types
<1>2. FiniteOwners(held, Keeps(entries), stack, e)
  BY <1>1 DEF CountedAt
<1>3. IsFiniteSet(HeldBy(held', e)) /\ IsFiniteSet(KeptBy(Keeps(entries'), e))
  BY <1>2 DEF FiniteOwners
<1>4. /\ FiniteOwners(held', Keeps(entries'), stack', e)
      /\ Owners(held', retained', Keeps(entries'), stack', e) =
           Owners(held, retained, Keeps(entries), stack, e) + Gain(t, m, new, e)
           + (Cardinality(HeldBy(held', e)) - Cardinality(HeldBy(held, e)))
           + (Marked(retained', e) - Marked(retained, e))
           + (Cardinality(KeptBy(Keeps(entries'), e)) - Cardinality(KeptBy(Keeps(entries), e)))
  BY <1>2, <1>3, StepCounted
<1>5. /\ Cardinality(HeldBy(held', e)) - Cardinality(HeldBy(held, e)) = 0
      /\ Marked(retained', e) - Marked(retained, e) = 0
      /\ Cardinality(KeptBy(Keeps(entries'), e)) - Cardinality(KeptBy(Keeps(entries), e)) = 0
  <2>1. Cardinality(HeldBy(held, e)) \in Nat /\ Cardinality(KeptBy(Keeps(entries), e)) \in Nat
    BY <1>2, FS_CardinalityType DEF FiniteOwners
  <2>2. Marked(retained, e) \in Nat
    BY DEF Marked
  <2>3. QED
    BY <2>1, <2>2
<1>6. entries[e].strong = Owners(held, retained, Keeps(entries), stack, e) /\ entries[e].strong \in Nat
  BY <1>1, Counting DEF CountedAt
<1>7. entries'[e].strong \in Nat
  <2>1. entries'[e] \in EntryOf(n)
    BY DEF Step, Steady, Types
  <2>2. QED
    BY <2>1 DEF EntryOf
<1>8. Gain(t, m, new, e) \in Int
  <2>1. /\ Len(new) >= 1 => new[1] \in FrameOf(n)
        /\ Len(new) >= 2 => new[2] \in FrameOf(n)
    BY DEF Step
  <2>2. t \in Threads
    BY DEF Step
  <2>3. QED
    BY <2>1, <2>2, HoldsNat, HoldsAtNat DEF Gain
<1>9. QED
  BY <1>4, <1>5, <1>6, <1>7, <1>8 DEF CountedAt

\* What stays on the stacks of those who run a loader.
SameRuns(t, m, n) == \A e \in 1..n : \A i \in {m + 1, m + 2} : Runs(stack', t, i, e) <=> Runs(stack, t, i, e)

LEMMA OrdinaryStep ==
  ASSUME NEW n, Types(n), Rest(n), IInv, NEW t, NEW m, NEW new, Step(t, m, new, n, n), Short(t, m, new),
         asset_map' = asset_map, held' = held, retained' = retained, used' = used, used_before' = used_before,
         loads' \in 0..MaxLoads, panics' \in 0..MaxPanics,
         \A e \in 1..n : /\ entries'[e].keep = entries[e].keep /\ entries'[e].value = entries[e].value
                         /\ entries'[e].strong = entries[e].strong + Gain(t, m, new, e),
         SameRuns(t, m, n), Follows(new, n), Unremoving(t, m), Unreaping(t, m, new)
  PROVE  IInv'
<1>0. /\ FramesSound /\ Nested /\ Counted /\ BusyOnce /\ KeepsSound /\ HeldReady
      /\ MapSound /\ LiveIsShared /\ NothingLeaks /\ RetainerSound
  BY DEF IInv
<1>1. Steady(n, n)
  BY DEF Step
<1>2. Rest(n)'
  BY DEF Rest
<1>3. TypeOK' /\ Entry' = 1..n
  BY <1>2, StepTypes
<1>4. FramesSound' /\ Nested'
  BY <1>0, StepFrames, StepNested
<1>5. Counted'
  <2>1. Keeps(entries') = Keeps(entries)
    BY <1>1, KeepsSame
  <2>2. \A e \in 1..n : CountedAt(e)'
    BY <1>0, <2>1, StackCounted
  <2>3. QED
    BY <1>3, <2>2 DEF Counted
<1>6. BusyOnce'
  <2>1. ASSUME NEW e \in 1..n PROVE BusyAt(e)'
    <3>1. /\ \A i \in {m + 1, m + 2} : Runs(stack', t, i, e) <=> Runs(stack, t, i, e)
          /\ entries'[e].value = "busy" => e \in 1..n /\ entries[e].value = "busy"
      BY DEF SameRuns
    <3>2. QED
      BY <1>0, <3>1, StepBusy
  <2>2. QED
    BY <1>3, <2>1 DEF BusyOnce, BusyAt
<1>7. KeepsSound'
  <2>1. \A e \in 1..n : KeepAt(e)'
    BY <1>0, <1>1, KeepKept
  <2>2. QED
    BY <1>3, <2>1 DEF KeepsSound, KeepAt
<1>8. HeldReady'
  BY <1>0, <1>1, HeldReadyKept
<1>9. LiveIsShared' /\ MapSound'
  BY <1>0, <1>1, MapKept
<1>10. NothingLeaks'
  BY <1>0, NothingLeaksKept
<1>11. RetainerSound'
  BY <1>0, RetainerKept
<1>12. QED
  BY <1>3, <1>4, <1>5, <1>6, <1>7, <1>8, <1>9, <1>10, <1>11 DEF IInv

\* An owned entry is alive.
LEMMA OwnedAlive ==
  ASSUME NEW n, Types(n), Counted, NEW e \in 1..n
  PROVE  /\ (\E t \in Threads : e \in held[t]) => entries[e].strong > 0
         /\ e \in DOMAIN retained => entries[e].strong > 0
         /\ (\E x \in 1..n : \E j \in DOMAIN entries[x].keep : entries[x].keep[j] = e) => entries[e].strong > 0
         /\ (\E t \in Threads : \E i \in DOMAIN stack[t] : FrameOwns(stack[t][i], e) # {}) => entries[e].strong > 0
<1> DEFINE h == Cardinality(HeldBy(held, e))
           k == Cardinality(KeptBy(Keeps(entries), e))
           s == Cardinality(OnStacks(stack, e))
<1>1. CountedAt(e)
  BY DEF Counted, Types
<1>2. IsFiniteSet(HeldBy(held, e)) /\ IsFiniteSet(KeptBy(Keeps(entries), e)) /\ IsFiniteSet(OnStacks(stack, e))
  BY <1>1 DEF CountedAt, FiniteOwners
<1>3. /\ h \in Nat /\ k \in Nat /\ s \in Nat
      /\ h = 0 => HeldBy(held, e) = {}
      /\ k = 0 => KeptBy(Keeps(entries), e) = {}
      /\ s = 0 => OnStacks(stack, e) = {}
  BY <1>2, FS_CardinalityType, FS_EmptySet
<1>4. entries[e].strong = h + (IF e \in DOMAIN retained THEN 1 ELSE 0) + k + s
  BY <1>1 DEF CountedAt, Owners
<1>5. ASSUME NEW t \in Threads, e \in held[t] PROVE HeldBy(held, e) # {}
  BY <1>5 DEF HeldBy
<1>6. ASSUME NEW x \in 1..n, NEW j \in DOMAIN entries[x].keep, entries[x].keep[j] = e PROVE KeptBy(Keeps(entries), e) # {}
  <2>1. x \in DOMAIN Keeps(entries) /\ j \in Places(Keeps(entries)[x], e)
    BY <1>6 DEF Keeps, Places, Types
  <2>2. <<x, j>> \in KeptBy(Keeps(entries), e)
    BY <2>1 DEF KeptBy
  <2>3. QED
    BY <2>2
<1>7. ASSUME NEW t \in Threads, NEW i \in DOMAIN stack[t], FrameOwns(stack[t][i], e) # {} PROVE OnStacks(stack, e) # {}
  <2>1. PICK y : y \in FrameOwns(stack[t][i], e)
    BY <1>7
  <2>2. <<<<t, i>>, y>> \in OnStacks(stack, e)
    BY <2>1 DEF OnStacks
  <2>3. QED
    BY <2>2
<1> HIDE DEF h, k, s
<1>8. QED
  BY <1>3, <1>4, <1>5, <1>6, <1>7

LEMMA FrameOwned ==
  ASSUME NEW n, Types(n), Counted, NEW t \in Threads, NEW i \in DOMAIN stack[t], NEW f, f = stack[t][i],
         NEW e \in 1..n,
         \/ f.op \in Holding /\ f.entry = e
         \/ f.op # "reap" /\ \E j \in DOMAIN f.rest : f.rest[j] = e
         \/ f.op = "loader" /\ \E j \in DOMAIN f.keep : f.keep[j] = e
  PROVE  entries[e].strong > 0
<1>1. FrameOwns(f, e) # {}
  <2>1. CASE f.op \in Holding /\ f.entry = e
    <3>1. <<"entry", 1>> \in FrameOwns(f, e)
      BY <2>1 DEF FrameOwns
    <3>2. QED
      BY <3>1
  <2>2. CASE f.op # "reap" /\ \E j \in DOMAIN f.rest : f.rest[j] = e
    <3>1. PICK j \in DOMAIN f.rest : f.rest[j] = e
      BY <2>2
    <3>2. <<"rest", j>> \in FrameOwns(f, e)
      BY <2>2, <3>1 DEF FrameOwns, Places
    <3>3. QED
      BY <3>2
  <2>3. CASE f.op = "loader" /\ \E j \in DOMAIN f.keep : f.keep[j] = e
    <3>1. PICK j \in DOMAIN f.keep : f.keep[j] = e
      BY <2>3
    <3>2. <<"keep", j>> \in FrameOwns(f, e)
      BY <2>3, <3>1 DEF FrameOwns, Places
    <3>3. QED
      BY <3>2
  <2>4. QED
    BY <2>1, <2>2, <2>3
<1>2. QED
  BY <1>1, OwnedAlive

LEMMA NestedOne ==
  ASSUME NEW g, g.op = "loader" => g.loaded = Len(g.keep)
  PROVE  \A i \in DOMAIN <<g>> : NestedAt(<<g>>, i)
<1> DEFINE new == <<g>>
<1>1. Len(new) = 1 /\ new[1] = g /\ DOMAIN new = 1..1
  OBVIOUS
<1>2. ~(1 < Len(new)) /\ ~Waits(new, 1)
  BY <1>1 DEF Waits
<1>3. NestedAt(new, 1)
  BY <1>1, <1>2 DEF NestedAt
<1>4. QED
  BY <1>1, <1>3

\* h may be called from g.
MayCall(g, h) ==
  /\ g.op \in {"loader", "unwind", "fields", "reap"} /\ h.op # "loader"
  /\ g.op = "loader" => g.loaded = Len(g.keep) + (IF h.caller = "loader" THEN 1 ELSE 0)
  /\ h.caller = "loader" => g.op = "loader" /\ h.key = DependsOn[g.key][g.loaded]

LEMMA NestedPair ==
  ASSUME NEW g, NEW h, MayCall(g, h)
  PROVE  \A i \in DOMAIN <<g, h>> : NestedAt(<<g, h>>, i)
<1> DEFINE new == <<g, h>>
<1>1. Len(new) = 2 /\ new[1] = g /\ new[2] = h /\ DOMAIN new = 1..2
  OBVIOUS
<1> HIDE DEF new
<1>2. ~(2 < Len(new)) /\ ~Waits(new, 2) /\ (Waits(new, 1) <=> h.caller = "loader") /\ 1 + 1 = 2
  BY <1>1 DEF Waits
<1>3. NestedAt(new, 1) /\ NestedAt(new, 2)
  BY <1>1, <1>2 DEF NestedAt, MayCall
<1>4. QED
  BY <1>1, <1>3 DEF new

\* The top call becomes g.
Becoming(t, m, g, n, n2) ==
  /\ t \in Threads
  /\ m \in Nat
  /\ Len(stack[t]) = m + 1
  /\ Steady(n, n2)
  /\ g \in FrameOf(n2)
  /\ stack' = [stack EXCEPT ![t] = Becomes(@, g)]
  /\ \A u \in Threads : u # t \/ m > 0 => held'[u] \subseteq held[u]
  /\ \A e \in 1..n : entries[e].value = "busy" /\ entries'[e].value # "busy" =>
       Top(t).op \in {"loader", "unwind"} /\ Top(t).entry = e
  /\ m > 0 /\ (g.caller = "loader" \/ Top(t).caller = "loader") =>
       g.caller = Top(t).caller /\ g.key = Top(t).key
  /\ FrameSound(g, t, m + 1)'
  /\ g.op = "loader" => g.loaded = Len(g.keep)

LEMMA BecomesStep ==
  ASSUME NEW n, Types(n), FramesSound, Nested, NEW t, NEW m, NEW g, NEW n2,
         Becoming(t, m, g, n, n2)
  PROVE  /\ Step(t, m, <<g>>, n, n2) /\ Short(t, m, <<g>>)
         /\ \A e : Gain(t, m, <<g>>, e) = Holds(g, e) - Holds(Top(t), e)
<1> SUFFICES ASSUME t \in Threads,
                    m \in Nat,
                    Len(stack[t]) = m + 1,
                    Steady(n, n2),
                    g \in FrameOf(n2),
                    stack' = [stack EXCEPT ![t] = Becomes(@, g)],
                    \A u \in Threads : u # t \/ m > 0 => held'[u] \subseteq held[u],
                    \A e \in 1..n : entries[e].value = "busy" /\ entries'[e].value # "busy" =>
                      Top(t).op \in {"loader", "unwind"} /\ Top(t).entry = e,
                    m > 0 /\ (g.caller = "loader" \/ Top(t).caller = "loader") =>
                      g.caller = Top(t).caller /\ g.key = Top(t).key,
                    FrameSound(g, t, m + 1)',
                    g.op = "loader" => g.loaded = Len(g.keep)
             PROVE  /\ Step(t, m, <<g>>, n, n2) /\ Short(t, m, <<g>>)
                    /\ \A e : Gain(t, m, <<g>>, e) = Holds(g, e) - Holds(Top(t), e)
  BY DEF Becoming
<1> DEFINE new == <<g>>
<1>20. stack[t] # <<>>
  OBVIOUS
<1>0. new \in Seq(FrameOf(n2)) /\ Len(new) = 1 /\ new[1] = g /\ DOMAIN new = 1..1 /\ new # <<>>
  OBVIOUS
<1>1. /\ stack[t] \in Seq(FrameOf(n)) /\ DOMAIN stack[t] = 1..Len(stack[t])
      /\ Len(stack[t]) \in Nat /\ Len(stack[t]) >= 1
      /\ Top(t) = stack[t][Len(stack[t])] /\ Top(t) \in FrameOf(n)
  BY <1>20, TopFrame
<1>2. m \in Nat /\ m + 1 = Len(stack[t]) /\ m + 1 \in DOMAIN stack[t] /\ m + 1 > m
  BY <1>1
<1>3. Becomes(stack[t], g) = Cut(stack[t], m, new)
  <2>1. stack[t] \in Seq(FrameOf(n2))
    <3>1. n \in Nat /\ n2 \in Nat /\ n <= n2
      BY DEF Steady, Types
    <3>2. QED
      BY <1>1, <3>1, MoreEntries
  <2>2. PICK F : F = FrameOf(n2)
    OBVIOUS
  <2>3. PICK s : s = stack[t]
    OBVIOUS
  <2>4. s \in Seq(F) /\ g \in F /\ s # <<>>
    BY <1>20, <2>1, <2>2, <2>3
  <2>5. Becomes(s, g) = Cut(s, Len(s) - 1, <<g>>)
    BY ONLY <2>4, Cuts
  <2>6. QED
    BY <1>1, <2>3, <2>5
<1>4. stack' = [stack EXCEPT ![t] = Cut(stack[t], m, new)]
  BY <1>3
<1>6. \A e \in 1..n : entries[e].value = "busy" /\ entries'[e].value # "busy" =>
         \E i \in DOMAIN stack[t] : i > m /\ Runs(stack, t, i, e)
  <2> SUFFICES ASSUME NEW e \in 1..n, entries[e].value = "busy", entries'[e].value # "busy"
               PROVE  \E i \in DOMAIN stack[t] : i > m /\ Runs(stack, t, i, e)
    OBVIOUS
  <2>1. Runs(stack, t, m + 1, e)
    BY <1>1, <1>2 DEF Runs
  <2>2. QED
    BY <1>2, <2>1
<1>8. \A i \in DOMAIN new : FrameSound(new[i], t, m + i)'
  <2>1. \A i \in DOMAIN new : i = 1 /\ new[i] = g
    BY <1>0
  <2>2. QED
    BY <2>1
<1>9. \A i \in DOMAIN new : NestedAt(new, i)
  BY NestedOne
<1> HIDE DEF new
<1>10. Step(t, m, new, n, n2)
  <2>1. stack[t][m + 1] = Top(t)
    BY <1>1, <1>2
  <2>2. /\ m > 0 => m < Len(stack[t])
        /\ m > 0 /\ (stack[t][m + 1].caller = "loader" \/ (new # <<>> /\ new[1].caller = "loader")) =>
             /\ stack[t][m + 1].caller = "loader"
             /\ new # <<>> /\ new[1].caller = "loader" /\ new[1].key = stack[t][m + 1].key
    BY <1>0, <1>1, <1>2, <2>1
  <2>3. m \in Nat /\ m <= Len(stack[t])
    BY <1>1, <1>2
  <2>4. QED
    BY <1>0, <1>4, <1>6, <1>8, <1>9, <2>2, <2>3 DEF Step
<1>11. Short(t, m, new)
  BY <1>0, <1>1, <1>2 DEF Short
<1>12. \A e : Gain(t, m, new, e) = Holds(g, e) - Holds(Top(t), e)
  <2> SUFFICES ASSUME NEW e PROVE Gain(t, m, new, e) = Holds(g, e) - Holds(Top(t), e)
    OBVIOUS
  <2>1. Holds(g, e) \in Nat /\ Holds(Top(t), e) \in Nat
    BY <1>1, HoldsNat
  <2>2. HoldsAt(stack, t, m + 1, e) = Holds(Top(t), e) /\ HoldsAt(stack, t, m + 2, e) = 0
    <3>1. Types(n)
      OBVIOUS
    <3>2. m \in Nat
      BY <1>2
    <3>3. Len(stack[t]) = m + 1
      BY <1>1, <1>2
    <3>4. /\ HoldsAt(stack, t, m + 1, e) = Holds(stack[t][Len(stack[t])], e)
          /\ HoldsAt(stack, t, m + 2, e) = 0
      BY ONLY <3>1, <3>2, <3>3, t \in Threads, OldCalls
    <3>5. QED
      BY <1>1, <3>4
  <2>3. QED
    BY <1>0, <2>1, <2>2 DEF Gain
<1>13. QED
  BY <1>10, <1>11, <1>12 DEF new

\* The top call becomes g, which goes on to h.
Calling(t, m, g, h, n, n2) ==
  /\ t \in Threads
  /\ m \in Nat
  /\ Len(stack[t]) = m + 1
  /\ Steady(n, n2)
  /\ g \in FrameOf(n2)
  /\ h \in FrameOf(n2)
  /\ stack' = [stack EXCEPT ![t] = Append(Becomes(@, g), h)]
  /\ \A u \in Threads : held'[u] \subseteq held[u]
  /\ \A e \in 1..n : entries[e].value = "busy" => entries'[e].value = "busy"
  /\ g.caller = Top(t).caller
  /\ g.key = Top(t).key
  /\ FrameSound(g, t, m + 1)'
  /\ FrameSound(h, t, m + 2)'
  /\ MayCall(g, h)

LEMMA CallsStep ==
  ASSUME NEW n, Types(n), FramesSound, Nested, NEW t, NEW m, NEW g, NEW h, NEW n2,
         Calling(t, m, g, h, n, n2)
  PROVE  /\ Step(t, m, <<g, h>>, n, n2) /\ Short(t, m, <<g, h>>)
         /\ \A e : Gain(t, m, <<g, h>>, e) = Holds(g, e) + Holds(h, e) - Holds(Top(t), e)
<1> SUFFICES ASSUME t \in Threads,
                    m \in Nat,
                    Len(stack[t]) = m + 1,
                    Steady(n, n2),
                    g \in FrameOf(n2),
                    h \in FrameOf(n2),
                    stack' = [stack EXCEPT ![t] = Append(Becomes(@, g), h)],
                    \A u \in Threads : held'[u] \subseteq held[u],
                    \A e \in 1..n : entries[e].value = "busy" => entries'[e].value = "busy",
                    g.caller = Top(t).caller,
                    g.key = Top(t).key,
                    FrameSound(g, t, m + 1)',
                    FrameSound(h, t, m + 2)',
                    MayCall(g, h)
             PROVE  /\ Step(t, m, <<g, h>>, n, n2) /\ Short(t, m, <<g, h>>)
                    /\ \A e : Gain(t, m, <<g, h>>, e) = Holds(g, e) + Holds(h, e) - Holds(Top(t), e)
  BY DEF Calling
<1> DEFINE new == <<g, h>>
<1>20. stack[t] # <<>>
  OBVIOUS
<1>0. new \in Seq(FrameOf(n2)) /\ Len(new) = 2 /\ new[1] = g /\ new[2] = h /\ DOMAIN new = 1..2 /\ new # <<>>
  OBVIOUS
<1>1. /\ stack[t] \in Seq(FrameOf(n)) /\ DOMAIN stack[t] = 1..Len(stack[t])
      /\ Len(stack[t]) \in Nat /\ Len(stack[t]) >= 1
      /\ Top(t) = stack[t][Len(stack[t])] /\ Top(t) \in FrameOf(n)
  BY <1>20, TopFrame
<1>2. m \in Nat /\ m + 1 = Len(stack[t]) /\ m + 1 \in DOMAIN stack[t] /\ m + 1 > m
      /\ m + 2 = Len(stack[t]) + 1
  BY <1>1
<1>3. Append(Becomes(stack[t], g), h) = Cut(stack[t], m, new)
  <2>1. stack[t] \in Seq(FrameOf(n2))
    <3>1. n \in Nat /\ n2 \in Nat /\ n <= n2
      BY DEF Steady, Types
    <3>2. QED
      BY <1>1, <3>1, MoreEntries
  <2>2. PICK F : F = FrameOf(n2)
    OBVIOUS
  <2>3. PICK s : s = stack[t]
    OBVIOUS
  <2>4. s \in Seq(F)
    BY <2>1, <2>2, <2>3
  <2>5. g \in F
    BY <2>2
  <2>6. h \in F
    BY <2>2
  <2>7. Len(s) = m + 1
    BY <2>3
  <2>8. Append(Becomes(s, g), h) = Cut(s, m, <<g, h>>)
    BY ONLY <2>4, <2>5, <2>6, <2>7, m \in Nat, CutCalls
  <2>9. QED
    BY <2>3, <2>8
<1>4. stack' = [stack EXCEPT ![t] = Cut(stack[t], m, new)]
  BY <1>3
<1>9. \A i \in DOMAIN new : NestedAt(new, i)
  BY NestedPair
<1> HIDE DEF new
<1>8. \A i \in DOMAIN new : FrameSound(new[i], t, m + i)'
  <2>3. \A i \in DOMAIN new : (i = 1 /\ new[i] = g) \/ (i = 2 /\ new[i] = h)
    BY <1>0
  <2>4. QED
    BY <2>3
<1>10. Step(t, m, new, n, n2)
  <2>1. stack[t][m + 1] = Top(t)
    BY <1>1, <1>2
  <2>2. /\ m > 0 => m < Len(stack[t])
        /\ m > 0 /\ (stack[t][m + 1].caller = "loader" \/ (new # <<>> /\ new[1].caller = "loader")) =>
             /\ stack[t][m + 1].caller = "loader"
             /\ new # <<>> /\ new[1].caller = "loader" /\ new[1].key = stack[t][m + 1].key
    BY <1>0, <1>1, <1>2, <2>1
  <2>3. m \in Nat /\ m <= Len(stack[t])
    BY <1>1, <1>2
  <2>4. QED
    BY <1>0, <1>4, <1>8, <1>9, <2>2, <2>3 DEF Step
<1>11. Short(t, m, new)
  BY <1>0, <1>1, <1>2 DEF Short
<1>12. \A e : Gain(t, m, new, e) = Holds(g, e) + Holds(h, e) - Holds(Top(t), e)
  <2> SUFFICES ASSUME NEW e PROVE Gain(t, m, new, e) = Holds(g, e) + Holds(h, e) - Holds(Top(t), e)
    OBVIOUS
  <2>1. Holds(g, e) \in Nat /\ Holds(h, e) \in Nat /\ Holds(Top(t), e) \in Nat
    BY <1>1, HoldsNat
  <2>2. HoldsAt(stack, t, m + 1, e) = Holds(Top(t), e) /\ HoldsAt(stack, t, m + 2, e) = 0
    <3>1. Types(n)
      OBVIOUS
    <3>2. m \in Nat
      BY <1>2
    <3>3. Len(stack[t]) = m + 1
      BY <1>1, <1>2
    <3>4. /\ HoldsAt(stack, t, m + 1, e) = Holds(stack[t][Len(stack[t])], e)
          /\ HoldsAt(stack, t, m + 2, e) = 0
      BY ONLY <3>1, <3>2, <3>3, t \in Threads, OldCalls
    <3>5. QED
      BY <1>1, <3>4
  <2>3. QED
    BY <1>0, <2>1, <2>2 DEF Gain
<1>13. QED
  BY <1>10, <1>11, <1>12 DEF new

\* An idle thread calls g.
Pushing(t, m, g, n) ==
  /\ t \in Threads
  /\ m = 0
  /\ stack[t] = <<>>
  /\ Steady(n, n)
  /\ g \in FrameOf(n)
  /\ stack' = [stack EXCEPT ![t] = Append(@, g)]
  /\ \A u \in Threads : u # t => held'[u] \subseteq held[u]
  /\ \A e \in 1..n : entries[e].value = "busy" => entries'[e].value = "busy"
  /\ FrameSound(g, t, 1)'
  /\ g.op # "loader"

LEMMA PushStep ==
  ASSUME NEW n, Types(n), NEW t, NEW m, NEW g,
         Pushing(t, m, g, n)
  PROVE  /\ Step(t, m, <<g>>, n, n) /\ Short(t, m, <<g>>)
         /\ \A e : Gain(t, m, <<g>>, e) = Holds(g, e)
<1> SUFFICES ASSUME t \in Threads,
                    m = 0,
                    stack[t] = <<>>,
                    Steady(n, n),
                    g \in FrameOf(n),
                    stack' = [stack EXCEPT ![t] = Append(@, g)],
                    \A u \in Threads : u # t => held'[u] \subseteq held[u],
                    \A e \in 1..n : entries[e].value = "busy" => entries'[e].value = "busy",
                    FrameSound(g, t, 1)',
                    g.op # "loader"
             PROVE  /\ Step(t, m, <<g>>, n, n) /\ Short(t, m, <<g>>)
                    /\ \A e : Gain(t, m, <<g>>, e) = Holds(g, e)
  BY DEF Pushing
<1> DEFINE new == <<g>>
<1>0. new \in Seq(FrameOf(n)) /\ Len(new) = 1 /\ new[1] = g /\ DOMAIN new = 1..1 /\ new # <<>>
  OBVIOUS
<1>1. stack[t] \in Seq(FrameOf(n)) /\ Len(stack[t]) = 0
  BY DEF Types
<1>3. Append(stack[t], g) = Cut(stack[t], m, new)
  <2>2. PICK F : F = FrameOf(n)
    OBVIOUS
  <2>3. PICK s : s = stack[t]
    OBVIOUS
  <2>4. s \in Seq(F) /\ g \in F
    BY <1>1, <2>2, <2>3
  <2>5. Append(s, g) = Cut(s, Len(s), <<g>>)
    BY ONLY <2>4, Cuts
  <2>6. QED
    BY <1>1, <2>3, <2>5
<1>4. stack' = [stack EXCEPT ![t] = Cut(stack[t], m, new)]
  BY <1>3
<1>8. \A i \in DOMAIN new : FrameSound(new[i], t, m + i)'
  <2>1. \A i \in DOMAIN new : i = 1 /\ new[i] = g /\ m + i = 1
    BY <1>0
  <2>2. QED
    BY <2>1 DEF FrameSound
<1>9. \A i \in DOMAIN new : NestedAt(new, i)
  BY NestedOne
<1>13. m \in Nat /\ m <= Len(stack[t]) /\ ~(m > 0)
  BY <1>1
<1> HIDE DEF new
<1>10. Step(t, m, new, n, n)
  BY <1>0, <1>4, <1>8, <1>9, <1>13 DEF Step
<1>11. Short(t, m, new)
  BY <1>0, <1>1, <1>13 DEF Short
<1>12. \A e : Gain(t, m, new, e) = Holds(g, e)
  <2> SUFFICES ASSUME NEW e PROVE Gain(t, m, new, e) = Holds(g, e)
    OBVIOUS
  <2>1. Holds(g, e) \in Nat
    BY HoldsNat
  <2>2. HoldsAt(stack, t, m + 1, e) = 0 /\ HoldsAt(stack, t, m + 2, e) = 0
    BY <1>1, OldCalls
  <2>3. QED
    BY <1>0, <2>1, <2>2 DEF Gain
<1>14. QED
  BY <1>10, <1>11, <1>12 DEF new

\* The top call returns.
Popping(t, m, n) ==
  /\ t \in Threads
  /\ m \in Nat
  /\ Len(stack[t]) = m + 1
  /\ Steady(n, n)
  /\ stack' = [stack EXCEPT ![t] = Front(@)]
  /\ \A u \in Threads : u # t \/ m > 0 => held'[u] \subseteq held[u]
  /\ \A e \in 1..n : entries[e].value = "busy" /\ entries'[e].value # "busy" =>
       Top(t).op \in {"loader", "unwind"} /\ Top(t).entry = e
  /\ m > 0 => Top(t).caller # "loader"

LEMMA PopStep ==
  ASSUME NEW n, Types(n), FramesSound, Nested, NEW t, NEW m,
         Popping(t, m, n)
  PROVE  /\ Step(t, m, <<>>, n, n) /\ Short(t, m, <<>>)
         /\ \A e : Gain(t, m, <<>>, e) = 0 - Holds(Top(t), e)
<1> SUFFICES ASSUME t \in Threads,
                    m \in Nat,
                    Len(stack[t]) = m + 1,
                    Steady(n, n),
                    stack' = [stack EXCEPT ![t] = Front(@)],
                    \A u \in Threads : u # t \/ m > 0 => held'[u] \subseteq held[u],
                    \A e \in 1..n : entries[e].value = "busy" /\ entries'[e].value # "busy" =>
                      Top(t).op \in {"loader", "unwind"} /\ Top(t).entry = e,
                    m > 0 => Top(t).caller # "loader"
             PROVE  /\ Step(t, m, <<>>, n, n) /\ Short(t, m, <<>>)
                    /\ \A e : Gain(t, m, <<>>, e) = 0 - Holds(Top(t), e)
  BY DEF Popping
<1> DEFINE new == <<>>
<1>20. stack[t] # <<>>
  OBVIOUS
<1>0. new \in Seq(FrameOf(n)) /\ Len(new) = 0 /\ DOMAIN new = {}
  OBVIOUS
<1>1. /\ stack[t] \in Seq(FrameOf(n)) /\ DOMAIN stack[t] = 1..Len(stack[t])
      /\ Len(stack[t]) \in Nat /\ Len(stack[t]) >= 1
      /\ Top(t) = stack[t][Len(stack[t])] /\ Top(t) \in FrameOf(n)
  BY <1>20, TopFrame
<1>2. m \in Nat /\ m + 1 = Len(stack[t]) /\ m + 1 \in DOMAIN stack[t] /\ m + 1 > m
  BY <1>1
<1>3. Front(stack[t]) = Cut(stack[t], m, new)
  <2>2. PICK F : F = FrameOf(n)
    OBVIOUS
  <2>3. PICK s : s = stack[t]
    OBVIOUS
  <2>0. PICK f : f = Top(t)
    OBVIOUS
  <2>4. s \in Seq(F) /\ f \in F /\ s # <<>>
    BY <1>20, <1>1, <2>0, <2>2, <2>3
  <2>5. Front(s) = Cut(s, Len(s) - 1, <<>>)
    BY ONLY <2>4, Cuts
  <2>6. QED
    BY <1>1, <2>3, <2>5
<1>4. stack' = [stack EXCEPT ![t] = Cut(stack[t], m, new)]
  BY <1>3
<1>6. \A e \in 1..n : entries[e].value = "busy" /\ entries'[e].value # "busy" =>
         \E i \in DOMAIN stack[t] : i > m /\ Runs(stack, t, i, e)
  <2> SUFFICES ASSUME NEW e \in 1..n, entries[e].value = "busy", entries'[e].value # "busy"
               PROVE  \E i \in DOMAIN stack[t] : i > m /\ Runs(stack, t, i, e)
    OBVIOUS
  <2>1. Runs(stack, t, m + 1, e)
    BY <1>1, <1>2 DEF Runs
  <2>2. QED
    BY <1>2, <2>1
<1> HIDE DEF new
<1>10. Step(t, m, new, n, n)
  <2>1. stack[t][m + 1] = Top(t)
    BY <1>1, <1>2
  <2>2. /\ m > 0 => m < Len(stack[t])
        /\ m > 0 => stack[t][m + 1].caller # "loader"
        /\ new = <<>>
    BY <1>0, <1>1, <1>2, <2>1 DEF new
  <2>3. m \in Nat /\ m <= Len(stack[t])
    BY <1>1, <1>2
  <2>4. QED
    BY <1>0, <1>4, <1>6, <2>2, <2>3 DEF Step
<1>11. Short(t, m, new)
  BY <1>0, <1>1, <1>2 DEF Short
<1>12. \A e : Gain(t, m, new, e) = 0 - Holds(Top(t), e)
  <2> SUFFICES ASSUME NEW e PROVE Gain(t, m, new, e) = 0 - Holds(Top(t), e)
    OBVIOUS
  <2>1. Holds(Top(t), e) \in Nat
    BY <1>1, HoldsNat
  <2>2. HoldsAt(stack, t, m + 1, e) = Holds(Top(t), e) /\ HoldsAt(stack, t, m + 2, e) = 0
    <3>1. Types(n)
      OBVIOUS
    <3>2. m \in Nat
      BY <1>2
    <3>3. Len(stack[t]) = m + 1
      BY <1>1, <1>2
    <3>4. /\ HoldsAt(stack, t, m + 1, e) = Holds(stack[t][Len(stack[t])], e)
          /\ HoldsAt(stack, t, m + 2, e) = 0
      BY ONLY <3>1, <3>2, <3>3, t \in Threads, OldCalls
    <3>5. QED
      BY <1>1, <3>4
  <2>3. QED
    BY <1>0, <2>1, <2>2 DEF Gain
<1>13. QED
  BY <1>10, <1>11, <1>12 DEF new

\* The top call returns to b below it, and new calls take the place of both.
Returning(t, m, b, new, n) ==
  /\ t \in Threads /\ m \in Nat /\ Len(stack[t]) = m + 2 /\ b = stack[t][m + 1]
  /\ new \in Seq(FrameOf(n)) /\ new # <<>> /\ Len(new) <= 2
  /\ new[1].caller = b.caller /\ new[1].key = b.key
  /\ stack' = [stack EXCEPT ![t] = Cut(stack[t], m, new)]
  /\ \A u \in Threads : held'[u] \subseteq held[u]
  /\ \A e \in 1..n : entries[e].value = "busy" /\ entries'[e].value # "busy" =>
       Top(t).op \in {"loader", "unwind"} /\ Top(t).entry = e
  /\ \A i \in DOMAIN new : FrameSound(new[i], t, m + i)'
  /\ \A i \in DOMAIN new : NestedAt(new, i)

LEMMA ReturnStep ==
  ASSUME NEW n, Types(n), FramesSound, Nested, NEW t, NEW m, NEW b, NEW new, Returning(t, m, b, new, n),
         Steady(n, n)
  PROVE  /\ Step(t, m, new, n, n) /\ Short(t, m, new)
         /\ \A e : HoldsAt(stack, t, m + 1, e) = Holds(b, e) /\ HoldsAt(stack, t, m + 2, e) = Holds(Top(t), e)
         /\ \A e : Holds(b, e) \in Nat /\ Holds(Top(t), e) \in Nat
<1>0. /\ t \in Threads /\ m \in Nat /\ Len(stack[t]) = m + 2 /\ b = stack[t][m + 1]
      /\ new \in Seq(FrameOf(n)) /\ new # <<>> /\ Len(new) <= 2
      /\ new[1].caller = b.caller /\ new[1].key = b.key
  BY DEF Returning
<1>20. stack[t] # <<>>
  BY <1>0
<1>1. /\ stack[t] \in Seq(FrameOf(n)) /\ DOMAIN stack[t] = 1..Len(stack[t])
      /\ Len(stack[t]) \in Nat /\ Len(stack[t]) >= 1
      /\ Top(t) = stack[t][Len(stack[t])] /\ Top(t) \in FrameOf(n)
  BY <1>0, <1>20, TopFrame
<1>2. /\ m \in Nat /\ m + 2 = Len(stack[t]) /\ m + 1 = Len(stack[t]) - 1
      /\ m + 1 \in DOMAIN stack[t] /\ m + 2 \in DOMAIN stack[t] /\ m + 2 > m
  BY <1>0, <1>1
<1>6. \A e \in 1..n : entries[e].value = "busy" /\ entries'[e].value # "busy" =>
         \E i \in DOMAIN stack[t] : i > m /\ Runs(stack, t, i, e)
  <2> SUFFICES ASSUME NEW e \in 1..n, entries[e].value = "busy", entries'[e].value # "busy"
               PROVE  \E i \in DOMAIN stack[t] : i > m /\ Runs(stack, t, i, e)
    BY DEF Returning
  <2>1. Runs(stack, t, m + 2, e)
    BY <1>0, <1>1, <1>2 DEF Runs, Returning
  <2>2. QED
    BY <1>2, <2>1
<1>10. Step(t, m, new, n, n)
  <2>1. /\ m > 0 => m < Len(stack[t])
        /\ m > 0 /\ (stack[t][m + 1].caller = "loader" \/ (new # <<>> /\ new[1].caller = "loader")) =>
             /\ stack[t][m + 1].caller = "loader"
             /\ new # <<>> /\ new[1].caller = "loader" /\ new[1].key = stack[t][m + 1].key
    BY <1>0, <1>1, <1>2
  <2>2. m \in Nat /\ m <= Len(stack[t])
    BY <1>1, <1>2
  <2>3. QED
    BY <1>0, <1>6, <2>1, <2>2 DEF Step, Returning
<1>11. Short(t, m, new)
  BY <1>0, <1>2 DEF Short
<1>12. \A e : HoldsAt(stack, t, m + 1, e) = Holds(b, e) /\ HoldsAt(stack, t, m + 2, e) = Holds(Top(t), e)
  BY <1>0, <1>1, <1>2 DEF HoldsAt
<1>13. \A e : Holds(b, e) \in Nat /\ Holds(Top(t), e) \in Nat
  <2>1. b \in FrameOf(n)
    BY <1>0, <1>1, <1>2
  <2>2. QED
    BY <1>1, <2>1, HoldsNat
<1>14. QED
  BY <1>10, <1>11, <1>12, <1>13

\* The call below the top one becomes g.
BelowBecoming(t, m, b, g, n) ==
  /\ t \in Threads
  /\ m \in Nat
  /\ Len(stack[t]) = m + 2
  /\ b = stack[t][m + 1]
  /\ g \in FrameOf(n)
  /\ Steady(n, n)
  /\ stack' = [stack EXCEPT ![t] = Becomes(Front(@), g)]
  /\ \A u \in Threads : held'[u] \subseteq held[u]
  /\ \A e \in 1..n : entries[e].value = "busy" /\ entries'[e].value # "busy" =>
       Top(t).op \in {"loader", "unwind"} /\ Top(t).entry = e
  /\ g.caller = b.caller
  /\ g.key = b.key
  /\ FrameSound(g, t, m + 1)'
  /\ g.op = "loader" => g.loaded = Len(g.keep)

LEMMA BelowStep ==
  ASSUME NEW n, Types(n), FramesSound, Nested, NEW t, NEW m, NEW b, NEW g,
         BelowBecoming(t, m, b, g, n)
  PROVE  /\ Step(t, m, <<g>>, n, n) /\ Short(t, m, <<g>>)
         /\ \A e : Gain(t, m, <<g>>, e) = Holds(g, e) - Holds(b, e) - Holds(Top(t), e)
<1> SUFFICES ASSUME t \in Threads,
                    m \in Nat,
                    Len(stack[t]) = m + 2,
                    b = stack[t][m + 1],
                    g \in FrameOf(n),
                    Steady(n, n),
                    stack' = [stack EXCEPT ![t] = Becomes(Front(@), g)],
                    \A u \in Threads : held'[u] \subseteq held[u],
                    \A e \in 1..n : entries[e].value = "busy" /\ entries'[e].value # "busy" =>
                      Top(t).op \in {"loader", "unwind"} /\ Top(t).entry = e,
                    g.caller = b.caller,
                    g.key = b.key,
                    FrameSound(g, t, m + 1)',
                    g.op = "loader" => g.loaded = Len(g.keep)
             PROVE  /\ Step(t, m, <<g>>, n, n) /\ Short(t, m, <<g>>)
                    /\ \A e : Gain(t, m, <<g>>, e) = Holds(g, e) - Holds(b, e) - Holds(Top(t), e)
  BY DEF BelowBecoming
<1> DEFINE new == <<g>>
<1>0. new \in Seq(FrameOf(n)) /\ Len(new) = 1 /\ new[1] = g /\ DOMAIN new = 1..1 /\ new # <<>>
  OBVIOUS
<1>3. Becomes(Front(stack[t]), g) = Cut(stack[t], m, new)
  <2>1. PICK F : F = FrameOf(n)
    OBVIOUS
  <2>2. PICK s : s = stack[t]
    OBVIOUS
  <2>3. LongBy2(F, s, m)
    BY <2>1, <2>2 DEF Types, LongBy2
  <2>4. g \in F
    BY <2>1
  <2>6. Becomes(Front(s), g) = Cut(s, m, <<g>>)
    BY ONLY <2>3, <2>4, CutBelow
  <2>7. QED
    BY <2>2, <2>6
<1>4. stack' = [stack EXCEPT ![t] = Cut(stack[t], m, new)]
  BY <1>3
<1>8. \A i \in DOMAIN new : FrameSound(new[i], t, m + i)'
  <2>1. \A i \in DOMAIN new : i = 1 /\ new[i] = g
    BY <1>0
  <2>2. QED
    BY <2>1
<1>9. \A i \in DOMAIN new : NestedAt(new, i)
  BY NestedOne
<1> HIDE DEF new
<1>10. /\ Step(t, m, new, n, n) /\ Short(t, m, new)
       /\ \A e : HoldsAt(stack, t, m + 1, e) = Holds(b, e) /\ HoldsAt(stack, t, m + 2, e) = Holds(Top(t), e)
       /\ \A e : Holds(b, e) \in Nat /\ Holds(Top(t), e) \in Nat
  <2>1. Returning(t, m, b, new, n)
    <3>1. /\ t \in Threads /\ m \in Nat /\ Len(stack[t]) = m + 2 /\ b = stack[t][m + 1]
          /\ \A u \in Threads : held'[u] \subseteq held[u]
      OBVIOUS
    <3>2. /\ new \in Seq(FrameOf(n)) /\ new # <<>> /\ Len(new) <= 2
          /\ new[1].caller = b.caller /\ new[1].key = b.key
      BY <1>0
    <3>3. \A e \in 1..n : entries[e].value = "busy" /\ entries'[e].value # "busy" =>
            Top(t).op \in {"loader", "unwind"} /\ Top(t).entry = e
      OBVIOUS
    <3>4. QED
      BY <3>1, <3>2, <3>3, <1>4, <1>8, <1>9 DEF Returning
  <2>2. QED
    BY <2>1, ReturnStep
<1>11. \A e : Gain(t, m, new, e) = Holds(g, e) - Holds(b, e) - Holds(Top(t), e)
  <2> SUFFICES ASSUME NEW e PROVE Gain(t, m, new, e) = Holds(g, e) - Holds(b, e) - Holds(Top(t), e)
    OBVIOUS
  <2>1. Holds(g, e) \in Nat
    BY HoldsNat
  <2>2. QED
    BY <1>0, <1>10, <2>1 DEF Gain
<1>12. QED
  BY <1>10, <1>11 DEF new

\* The call below the top one becomes g, which goes on to h.
BelowCalling(t, m, b, g, h, n) ==
  /\ t \in Threads
  /\ m \in Nat
  /\ Len(stack[t]) = m + 2
  /\ b = stack[t][m + 1]
  /\ g \in FrameOf(n)
  /\ h \in FrameOf(n)
  /\ Steady(n, n)
  /\ stack' = [stack EXCEPT ![t] = Append(Becomes(Front(@), g), h)]
  /\ \A u \in Threads : held'[u] \subseteq held[u]
  /\ \A e \in 1..n : entries[e].value = "busy" /\ entries'[e].value # "busy" =>
       Top(t).op \in {"loader", "unwind"} /\ Top(t).entry = e
  /\ g.caller = b.caller
  /\ g.key = b.key
  /\ FrameSound(g, t, m + 1)'
  /\ FrameSound(h, t, m + 2)'
  /\ MayCall(g, h)

LEMMA BelowCallStep ==
  ASSUME NEW n, Types(n), FramesSound, Nested, NEW t, NEW m, NEW b, NEW g, NEW h,
         BelowCalling(t, m, b, g, h, n)
  PROVE  /\ Step(t, m, <<g, h>>, n, n) /\ Short(t, m, <<g, h>>)
         /\ \A e : Gain(t, m, <<g, h>>, e) = Holds(g, e) + Holds(h, e) - Holds(b, e) - Holds(Top(t), e)
<1> SUFFICES ASSUME t \in Threads,
                    m \in Nat,
                    Len(stack[t]) = m + 2,
                    b = stack[t][m + 1],
                    g \in FrameOf(n),
                    h \in FrameOf(n),
                    Steady(n, n),
                    stack' = [stack EXCEPT ![t] = Append(Becomes(Front(@), g), h)],
                    \A u \in Threads : held'[u] \subseteq held[u],
                    \A e \in 1..n : entries[e].value = "busy" /\ entries'[e].value # "busy" =>
                      Top(t).op \in {"loader", "unwind"} /\ Top(t).entry = e,
                    g.caller = b.caller,
                    g.key = b.key,
                    FrameSound(g, t, m + 1)',
                    FrameSound(h, t, m + 2)',
                    MayCall(g, h)
             PROVE  /\ Step(t, m, <<g, h>>, n, n) /\ Short(t, m, <<g, h>>)
                    /\ \A e : Gain(t, m, <<g, h>>, e) = Holds(g, e) + Holds(h, e) - Holds(b, e) - Holds(Top(t), e)
  BY DEF BelowCalling
<1> DEFINE new == <<g, h>>
<1>0. new \in Seq(FrameOf(n)) /\ Len(new) = 2 /\ new[1] = g /\ new[2] = h /\ DOMAIN new = 1..2 /\ new # <<>>
  OBVIOUS
<1>3. Append(Becomes(Front(stack[t]), g), h) = Cut(stack[t], m, new)
  <2>1. PICK F : F = FrameOf(n)
    OBVIOUS
  <2>2. PICK s : s = stack[t]
    OBVIOUS
  <2>3. LongBy2(F, s, m)
    BY <2>1, <2>2 DEF Types, LongBy2
  <2>4. g \in F
    BY <2>1
  <2>5. h \in F
    BY <2>1
  <2>7. Append(Becomes(Front(s), g), h) = Cut(s, m, <<g, h>>)
    BY ONLY <2>3, <2>4, <2>5, CutBelowCalls
  <2>8. QED
    BY <2>2, <2>7
<1>4. stack' = [stack EXCEPT ![t] = Cut(stack[t], m, new)]
  BY <1>3
<1>9. \A i \in DOMAIN new : NestedAt(new, i)
  BY NestedPair
<1> HIDE DEF new
<1>8. \A i \in DOMAIN new : FrameSound(new[i], t, m + i)'
  <2>1. \A i \in DOMAIN new : (i = 1 /\ new[i] = g) \/ (i = 2 /\ new[i] = h)
    BY <1>0
  <2>2. QED
    BY <2>1
<1>10. /\ Step(t, m, new, n, n) /\ Short(t, m, new)
       /\ \A e : HoldsAt(stack, t, m + 1, e) = Holds(b, e) /\ HoldsAt(stack, t, m + 2, e) = Holds(Top(t), e)
       /\ \A e : Holds(b, e) \in Nat /\ Holds(Top(t), e) \in Nat
  <2>1. Returning(t, m, b, new, n)
    <3>1. /\ t \in Threads /\ m \in Nat /\ Len(stack[t]) = m + 2 /\ b = stack[t][m + 1]
          /\ \A u \in Threads : held'[u] \subseteq held[u]
      OBVIOUS
    <3>2. /\ new \in Seq(FrameOf(n)) /\ new # <<>> /\ Len(new) <= 2
          /\ new[1].caller = b.caller /\ new[1].key = b.key
      BY <1>0
    <3>3. \A e \in 1..n : entries[e].value = "busy" /\ entries'[e].value # "busy" =>
            Top(t).op \in {"loader", "unwind"} /\ Top(t).entry = e
      OBVIOUS
    <3>4. QED
      BY <3>1, <3>2, <3>3, <1>4, <1>8, <1>9 DEF Returning
  <2>2. QED
    BY <2>1, ReturnStep
<1>11. \A e : Gain(t, m, new, e) = Holds(g, e) + Holds(h, e) - Holds(b, e) - Holds(Top(t), e)
  <2> SUFFICES ASSUME NEW e PROVE Gain(t, m, new, e) = Holds(g, e) + Holds(h, e) - Holds(b, e) - Holds(Top(t), e)
    OBVIOUS
  <2>1. Holds(g, e) \in Nat /\ Holds(h, e) \in Nat
    BY HoldsNat
  <2>2. QED
    BY <1>0, <1>10, <2>1 DEF Gain
<1>12. QED
  BY <1>10, <1>11 DEF new

----------------------------------------------------------------------------
(* A step of the top call of a thread *)

\* Thread t has f as its top call, with m calls below it.
Topped(t, m, f, n) ==
  /\ Types(n) /\ Rest(n)
  /\ t \in Threads /\ m \in Nat /\ Len(stack[t]) = m + 1 /\ stack[t] # <<>>
  /\ DOMAIN stack[t] = 1..(m + 1) /\ f = Top(t) /\ f = stack[t][m + 1]
  /\ f \in FrameOf(n) /\ FrameSound(f, t, m + 1)
  /\ f.op = "loader" => f.loaded = Len(f.keep)

LEMMA TopSetup ==
  ASSUME IInv, NEW t \in Threads, stack[t] # <<>>
  PROVE  \E n, m, f : Topped(t, m, f, n)
<1>1. PICK n : n = Len(entries)
  OBVIOUS
<1>2. Types(n) /\ Rest(n)
  BY <1>1, HasTypes, HasRest DEF IInv
<1>3. FramesSound /\ Nested
  BY DEF IInv
<1>4. /\ stack[t] \in Seq(FrameOf(n)) /\ DOMAIN stack[t] = 1..Len(stack[t])
      /\ Len(stack[t]) \in Nat /\ Len(stack[t]) >= 1
      /\ Top(t) = stack[t][Len(stack[t])] /\ Top(t) \in FrameOf(n)
      /\ FrameSound(Top(t), t, Len(stack[t])) /\ NestedAt(stack[t], Len(stack[t]))
  BY <1>2, <1>3, TopFrame
<1>5. PICK m \in Nat : Len(stack[t]) = m + 1
  <2>1. Len(stack[t]) - 1 \in Nat /\ Len(stack[t]) = (Len(stack[t]) - 1) + 1
    BY <1>4
  <2>2. QED
    BY <2>1
<1>6. PICK f : f = Top(t)
  OBVIOUS
<1>7. FrameSound(f, t, m + 1) /\ f = stack[t][m + 1]
  BY <1>4, <1>5, <1>6
<1>8. f.op = "loader" => f.loaded = Len(f.keep)
  <2>1. ~Waits(stack[t], Len(stack[t]))
    BY <1>4 DEF Waits
  <2>2. f \in FrameOf(n) /\ Len(f.keep) \in Nat
    BY <1>4, <1>6 DEF FrameOf
  <2>3. QED
    BY <1>4, <1>6, <2>1, <2>2 DEF NestedAt
<1>9. Topped(t, m, f, n)
  BY <1>2, <1>4, <1>5, <1>6, <1>7, <1>8 DEF Topped
<1>10. QED
  BY <1>9

Running == {"loader", "unwind"}

\* The new calls run what f ran.
Alike(f, new) ==
  /\ f.op \in Running <=> Len(new) >= 1 /\ new[1].op \in Running
  /\ f.op \in Running => new[1].entry = f.entry
  /\ Len(new) >= 2 => new[2].op \notin Running

\* What the step does to the entries is what it does to the owners on the stack.
Balanced(t, m, new, n) ==
  /\ asset_map' = asset_map /\ held' = held /\ retained' = retained
  /\ used' = used /\ used_before' = used_before
  /\ loads' \in 0..MaxLoads /\ panics' \in 0..MaxPanics
  /\ \A e \in 1..n : /\ entries'[e].keep = entries[e].keep /\ entries'[e].value = entries[e].value
                     /\ entries'[e].strong = entries[e].strong + Gain(t, m, new, e)
  /\ Follows(new, n)

LEMMA TopUnlike ==
  ASSUME NEW t, NEW m, NEW f, NEW n, Topped(t, m, f, n)
  PROVE  /\ f.op # "remove" => Unremoving(t, m)
         /\ \A new : f.op # "reap" /\ (new # <<>> => new[1].op # "reap") => Unreaping(t, m, new)
<1>1. /\ m \in Nat /\ DOMAIN stack[t] = 1..(m + 1) /\ f = stack[t][m + 1]
  BY DEF Topped
<1>2. f.op # "remove" => Unremoving(t, m)
  <2>1. \A i \in DOMAIN stack[t] : i > m => i = m + 1
    BY <1>1
  <2>2. QED
    BY <1>1, <2>1 DEF Unremoving
<1>3. \A new : f.op # "reap" /\ (new # <<>> => new[1].op # "reap") => Unreaping(t, m, new)
  BY <1>1 DEF Unreaping
<1>4. QED
  BY <1>2, <1>3

LEMMA TopRuns ==
  ASSUME NEW t, NEW m, NEW f, NEW n, Topped(t, m, f, n), NEW new,
         Step(t, m, new, n, n), Short(t, m, new), Alike(f, new)
  PROVE  SameRuns(t, m, n)
<1>1. /\ Types(n) /\ t \in Threads /\ m \in Nat /\ Len(stack[t]) = m + 1 /\ f = stack[t][m + 1]
  BY DEF Topped
<1>2. \A e : /\ Runs(stack, t, m + 1, e) <=> f.op \in Running /\ f.entry = e
             /\ ~Runs(stack, t, m + 2, e)
  BY <1>1, OldRuns DEF Running
<1>3. /\ \A e : Runs(stack', t, m + 1, e) <=>
                  Len(new) >= 1 /\ new[1].op \in Running /\ new[1].entry = e
      /\ \A e : Runs(stack', t, m + 2, e) <=>
                  Len(new) >= 2 /\ new[2].op \in Running /\ new[2].entry = e
  BY <1>1, NewCalls DEF Running
<1>4. QED
  BY <1>2, <1>3 DEF SameRuns, Alike

LEMMA TopStep ==
  ASSUME IInv, NEW t, NEW m, NEW f, NEW n, Topped(t, m, f, n), NEW new,
         Step(t, m, new, n, n), Short(t, m, new), Balanced(t, m, new, n),
         Alike(f, new), f.op \notin {"remove", "reap"}, new # <<>> => new[1].op # "reap"
  PROVE  IInv'
<1>1. SameRuns(t, m, n)
  BY TopRuns
<1>2. Unremoving(t, m) /\ Unreaping(t, m, new)
  BY TopUnlike
<1>3. Types(n) /\ Rest(n)
  BY DEF Topped
<1>4. /\ asset_map' = asset_map /\ held' = held /\ retained' = retained
      /\ used' = used /\ used_before' = used_before
      /\ loads' \in 0..MaxLoads /\ panics' \in 0..MaxPanics
      /\ \A e \in 1..n : /\ entries'[e].keep = entries[e].keep /\ entries'[e].value = entries[e].value
                         /\ entries'[e].strong = entries[e].strong + Gain(t, m, new, e)
      /\ Follows(new, n)
  BY DEF Balanced
<1>5. QED
  BY <1>1, <1>2, <1>3, <1>4, OrdinaryStep

\* The top call becomes g, and no count goes to zero.
Replaces(t, m, f, g, n) ==
  /\ g \in FrameOf(n) /\ Steady(n, n)
  /\ stack' = [stack EXCEPT ![t] = Becomes(@, g)]
  /\ asset_map' = asset_map /\ held' = held /\ retained' = retained
  /\ used' = used /\ used_before' = used_before
  /\ loads' \in 0..MaxLoads /\ panics' \in 0..MaxPanics
  /\ g.caller = f.caller /\ g.key = f.key
  /\ f.op \notin {"remove", "reap"} /\ g.op \notin {"remove", "reap"}
  /\ f.op \in Running <=> g.op \in Running
  /\ f.op \in Running => g.entry = f.entry
  /\ FrameSound(g, t, m + 1)'
  /\ g.op = "loader" => g.loaded = Len(g.keep)
  /\ \A e \in 1..n : /\ entries'[e].keep = entries[e].keep /\ entries'[e].value = entries[e].value
                     /\ entries'[e].strong = entries[e].strong + Holds(g, e) - Holds(f, e)
                     /\ entries[e].strong > 0 => entries'[e].strong > 0

LEMMA ReplaceStep ==
  ASSUME IInv, NEW t, NEW m, NEW f, NEW n, Topped(t, m, f, n), NEW g, Replaces(t, m, f, g, n)
  PROVE  IInv'
<1> DEFINE new == <<g>>
<1>1. /\ Types(n) /\ t \in Threads /\ m \in Nat /\ Len(stack[t]) = m + 1 /\ f = Top(t)
      /\ FramesSound /\ Nested
  BY DEF Topped, IInv
<1>2. Len(new) = 1 /\ new[1] = g /\ DOMAIN new = 1..1 /\ new # <<>>
  OBVIOUS
<1>3. /\ Step(t, m, <<g>>, n, n) /\ Short(t, m, <<g>>)
      /\ \A e : Gain(t, m, <<g>>, e) = Holds(g, e) - Holds(Top(t), e)
  <2>1. g \in FrameOf(n) /\ Steady(n, n) /\ stack' = [stack EXCEPT ![t] = Becomes(@, g)]
    BY DEF Replaces
  <2>2. \A u \in Threads : u # t \/ m > 0 => held'[u] \subseteq held[u]
    BY DEF Replaces
  <2>3. \A e \in 1..n : entries[e].value = "busy" /\ entries'[e].value # "busy" =>
           Top(t).op \in {"loader", "unwind"} /\ Top(t).entry = e
    BY DEF Replaces
  <2>4. m > 0 /\ (g.caller = "loader" \/ Top(t).caller = "loader") =>
           g.caller = Top(t).caller /\ g.key = Top(t).key
    BY <1>1 DEF Replaces
  <2>5. FrameSound(g, t, m + 1)' /\ (g.op = "loader" => g.loaded = Len(g.keep))
    BY DEF Replaces
  <2>6. Becoming(t, m, g, n, n)
    BY <1>1, <2>1, <2>2, <2>3, <2>4, <2>5 DEF Becoming
  <2>7. QED
    BY <1>1, <2>6, BecomesStep
<1> HIDE DEF new
<1>4. \A e \in 1..n : Holds(g, e) \in Nat /\ Holds(f, e) \in Nat /\ entries[e].strong \in Nat
  <2>1. g \in FrameOf(n) /\ f \in FrameOf(n)
    BY DEF Replaces, Topped
  <2>2. QED
    BY <1>1, <2>1, HoldsNat, Counting
<1>5. Follows(new, n)
  BY <1>4 DEF Follows, Replaces
<1>6. Balanced(t, m, new, n)
  <2>1. \A e \in 1..n : /\ entries'[e].keep = entries[e].keep /\ entries'[e].value = entries[e].value
                        /\ entries'[e].strong = entries[e].strong + Gain(t, m, new, e)
    <3>1. \A e : Gain(t, m, new, e) = Holds(g, e) - Holds(f, e)
      BY <1>1, <1>3 DEF new
    <3>2. QED
      BY <1>4, <3>1 DEF Replaces
  <2>2. QED
    BY <1>5, <2>1 DEF Balanced, Replaces
<1>7. Alike(f, new) /\ f.op \notin {"remove", "reap"} /\ (new # <<>> => new[1].op # "reap")
  BY <1>2 DEF Alike, Replaces
<1>8. Step(t, m, new, n, n) /\ Short(t, m, new)
  BY <1>3 DEF new
<1>9. QED
  BY <1>6, <1>7, <1>8, TopStep

\* The top call drops the first of what it has to drop.
DropsNext(t, f) ==
  /\ f.op \in {"loader", "unwind", "fields"} /\ f.rest # <<>>
  /\ entries' = Released(entries, Head(f.rest))
  /\ stack' = [stack EXCEPT ![t] = Dropping(Becomes(@, [f EXCEPT !.rest = Tail(@)]), entries, Head(f.rest))]
  /\ asset_map' = asset_map /\ held' = held /\ retained' = retained
  /\ used' = used /\ used_before' = used_before /\ loads' = loads /\ panics' = panics

LEMMA DropNext ==
  ASSUME IInv, NEW t, NEW m, NEW f, NEW n, Topped(t, m, f, n), DropsNext(t, f)
  PROVE  IInv'
<1>1. /\ Types(n) /\ Rest(n) /\ t \in Threads /\ m \in Nat /\ Len(stack[t]) = m + 1 /\ f = Top(t)
      /\ FramesSound /\ Nested /\ Counted /\ m + 1 \in DOMAIN stack[t] /\ f = stack[t][m + 1]
      /\ f \in FrameOf(n) /\ FrameSound(f, t, m + 1) /\ (f.op = "loader" => f.loaded = Len(f.keep))
  BY DEF Topped, IInv
<1>2. PICK x : x = Head(f.rest)
  OBVIOUS
<1>3. PICK g : g = [f EXCEPT !.rest = Tail(@)]
  OBVIOUS
<1>4. f.op \in {"loader", "unwind", "fields"} /\ f.rest # <<>> /\ entries' = Released(entries, x)
  BY <1>2 DEF DropsNext
<1>5. /\ g \in FrameOf(n) /\ g.op = f.op /\ g.caller = f.caller /\ g.key = f.key /\ g.entry = f.entry
      /\ g.keep = f.keep /\ g.loaded = f.loaded /\ g.rest = Tail(f.rest) /\ x \in 1..n
      /\ x = f.rest[1] /\ 1 \in DOMAIN f.rest
  <2> DEFINE N == 1..n
  <2>1. f.rest \in Seq(N)
    BY <1>1 DEF FrameOf
  <2> HIDE DEF N
  <2>2. Tail(f.rest) \in Seq(N) /\ x \in N /\ x = f.rest[1] /\ 1 \in DOMAIN f.rest
    BY <1>2, <1>4, <2>1
  <2>3. g \in FrameOf(n)
    BY <1>1, <1>3, <2>2 DEF FrameOf, N
  <2>4. QED
    BY <1>1, <1>3, <2>2, <2>3 DEF FrameOf, N
<1>6. entries[x].strong > 0
  <2>1. \E j \in DOMAIN f.rest : f.rest[j] = x
    BY <1>5
  <2>2. f.op # "reap"
    BY <1>4
  <2>3. QED
    BY <1>1, <1>5, <2>1, <2>2, FrameOwned
<1>7. /\ Steady(n, n)
      /\ \A e \in 1..n : /\ entries'[e].keep = entries[e].keep /\ entries'[e].value = entries[e].value
                         /\ entries'[e].strong = entries[e].strong - (IF x = e THEN 1 ELSE 0)
  BY <1>1, <1>4, <1>5, <1>6, SteadyReleased
<1>8. \A e : Holds(g, e) = Holds(f, e) - (IF x = e THEN 1 ELSE 0)
  BY <1>1, <1>2, <1>4, <1>5, HoldsTail
<1>9. FrameSound(g, t, m + 1)'
  <2>1. FrameSound(g, t, m + 1)
    BY <1>1, <1>4, <1>5 DEF FrameSound, Holding, LoadOps
  <2>2. held'[t] \subseteq held[t]
    BY DEF DropsNext
  <2>3. g.op \in {"loader", "unwind"} => entries'[g.entry].value = "busy"
    <3>1. g.op \in {"loader", "unwind"} => g.entry \in 1..n /\ entries[g.entry].value = "busy"
      BY <1>1, <2>1 DEF FrameSound, Holding, Types
    <3>2. QED
      BY <1>7, <3>1
  <2>4. QED
    BY <1>1, <1>5, <1>7, <2>1, <2>2, <2>3, FrameKept
<1>10. \A e \in 1..n : Holds(g, e) \in Nat /\ Holds(f, e) \in Nat /\ entries[e].strong \in Nat
  BY <1>1, <1>5, HoldsNat, Counting
<1>11. /\ Len(stack[t]) = m + 1 /\ \A u \in Threads : held'[u] \subseteq held[u]
       /\ \A e \in 1..n : entries[e].value = "busy" => entries'[e].value = "busy"
  BY <1>1, <1>7 DEF DropsNext
<1>12. stack' = [stack EXCEPT ![t] = Dropping(Becomes(@, g), entries, x)]
  BY <1>2, <1>3 DEF DropsNext
<1>13. Released(entries, x)[x].strong = entries'[x].strong
  BY <1>4
<1>14. /\ asset_map' = asset_map /\ held' = held /\ retained' = retained
       /\ used' = used /\ used_before' = used_before
       /\ loads' \in 0..MaxLoads /\ panics' \in 0..MaxPanics
  BY <1>1 DEF DropsNext, Rest
<1>15. CASE entries'[x].strong = 0
  <2>1. PICK h : h = Frame("remove", "user", entries[x].key, x)
    OBVIOUS
  <2>2. /\ h \in FrameOf(n) /\ h.op = "remove" /\ h.caller = "user" /\ h.entry = x
        /\ h.rest = <<>> /\ h.keep = <<>>
    <3>1. n \in Nat /\ entries[x].key \in Keys
      BY <1>1, <1>5, Counting DEF Types
    <3>2. "remove" \in Ops /\ "user" \in Callers /\ x \in (1..n) \cup {NoEntry}
      BY <1>5 DEF Ops, Callers
    <3>3. QED
      BY <2>1, <3>1, <3>2, AFrame
  <2>3. stack' = [stack EXCEPT ![t] = Append(Becomes(@, g), h)]
    BY <1>12, <1>13, <1>15, <2>1 DEF Dropping
  <2>4. FrameSound(h, t, m + 2)'
    <3>1. x \in Entry'
      BY <1>5, <1>7 DEF Steady, Entry
    <3>2. PICK k, i : k = entries[x].key /\ i = m + 2
      OBVIOUS
    <3>3. h = Frame("remove", "user", k, x)
      BY <2>1, <3>2
    <3>4. FrameSound(Frame("remove", "user", k, x), t, i)'
      BY <1>15, <3>1, RemoverSound
    <3>5. QED
      BY <3>2, <3>3, <3>4 DEF FrameSound
  <2>5. MayCall(g, h)
    BY <1>1, <1>4, <1>5, <2>2 DEF MayCall
  <2>6. /\ Step(t, m, <<g, h>>, n, n) /\ Short(t, m, <<g, h>>)
        /\ \A e : Gain(t, m, <<g, h>>, e) = Holds(g, e) + Holds(h, e) - Holds(Top(t), e)
    <3>1. g.caller = Top(t).caller /\ g.key = Top(t).key
      BY <1>1, <1>5
    <3>2. Calling(t, m, g, h, n, n)
      BY <1>1, <1>5, <1>7, <1>9, <1>11, <2>2, <2>3, <2>4, <2>5, <3>1 DEF Calling
    <3>3. Types(n) /\ FramesSound /\ Nested
      BY <1>1
    <3>4. QED
      BY ONLY <3>2, <3>3, CallsStep
  <2>7. \A e : Holds(h, e) = 0
    BY <2>2, HoldsNothing DEF Holding
  <2> DEFINE new == <<g, h>>
  <2>8. Len(new) = 2 /\ new[1] = g /\ new[2] = h /\ DOMAIN new = 1..2
    OBVIOUS
  <2> HIDE DEF new
  <2>9. Follows(new, n)
    <3>1. \A e \in 1..n : entries[e].strong > 0 /\ entries'[e].strong = 0 => e = x
      BY <1>7, <1>10
    <3>2. new[2].op = "remove" /\ new[2].entry = x /\ 2 \in DOMAIN new
      BY <2>2, <2>8
    <3>3. QED
      BY <3>1, <3>2 DEF Follows
  <2>10. Balanced(t, m, new, n)
    <3>1. \A e : Gain(t, m, new, e) = Holds(g, e) + Holds(h, e) - Holds(f, e)
      BY <1>1, <2>6 DEF new
    <3>2. \A e \in 1..n : entries'[e].strong = entries[e].strong + Gain(t, m, new, e)
      BY <1>7, <1>8, <1>10, <2>7, <3>1
    <3>3. QED
      BY <1>7, <1>14, <2>9, <3>2 DEF Balanced
  <2>11. Alike(f, new) /\ f.op \notin {"remove", "reap"} /\ (new # <<>> => new[1].op # "reap")
    BY <1>4, <1>5, <2>2, <2>8 DEF Alike, Running
  <2>12. Step(t, m, new, n, n) /\ Short(t, m, new)
    BY <2>6 DEF new
  <2>13. QED
    BY <2>10, <2>11, <2>12, TopStep
<1>16. CASE entries'[x].strong # 0
  <2>1. stack' = [stack EXCEPT ![t] = Becomes(@, g)]
    BY <1>12, <1>13, <1>16 DEF Dropping
  <2>2. \A e \in 1..n : /\ entries'[e].keep = entries[e].keep /\ entries'[e].value = entries[e].value
                        /\ entries'[e].strong = entries[e].strong + Holds(g, e) - Holds(f, e)
                        /\ entries[e].strong > 0 => entries'[e].strong > 0
    <3> SUFFICES ASSUME NEW e \in 1..n
                 PROVE  /\ entries'[e].keep = entries[e].keep /\ entries'[e].value = entries[e].value
                        /\ entries'[e].strong = entries[e].strong + Holds(g, e) - Holds(f, e)
                        /\ entries[e].strong > 0 => entries'[e].strong > 0
      OBVIOUS
    <3>1. Holds(g, e) = Holds(f, e) - (IF x = e THEN 1 ELSE 0) /\ Holds(g, e) \in Nat /\ Holds(f, e) \in Nat
      BY <1>8, <1>10
    <3>2. QED
      BY <1>6, <1>7, <1>10, <1>16, <3>1
  <2>3. Replaces(t, m, f, g, n)
    BY <1>1, <1>4, <1>5, <1>7, <1>9, <1>14, <2>1, <2>2 DEF Replaces, Running
  <2>4. QED
    BY <2>3, ReplaceStep
<1>17. QED
  BY <1>15, <1>16

----------------------------------------------------------------------------
(* The actions *)

\* A thread that is in no call begins one.
Pushes(t, g, n) ==
  /\ asset_map' = asset_map /\ held' = held /\ retained' = retained
  /\ used' = used /\ used_before' = used_before
  /\ loads' \in 0..MaxLoads /\ panics' \in 0..MaxPanics
  /\ g.op \notin Running \cup {"reap"}
  /\ \A e \in 1..n : /\ entries'[e].keep = entries[e].keep /\ entries'[e].value = entries[e].value
                     /\ entries'[e].strong = entries[e].strong + Holds(g, e)

LEMMA IdleStep ==
  ASSUME IInv, NEW n, Types(n), Rest(n), NEW t, NEW m, NEW g, Pushing(t, m, g, n), Pushes(t, g, n)
  PROVE  IInv'
<1> DEFINE new == <<g>>
<1>1. t \in Threads /\ stack[t] = <<>> /\ g \in FrameOf(n) /\ m = 0
  BY DEF Pushing
<1>2. /\ Step(t, m, <<g>>, n, n) /\ Short(t, m, <<g>>)
      /\ \A e : Gain(t, m, <<g>>, e) = Holds(g, e)
  BY PushStep
<1>3. Len(new) = 1 /\ new[1] = g /\ new # <<>> /\ m \in Nat /\ Len(stack[t]) = m /\ DOMAIN stack[t] = {}
  BY <1>1
<1>4. Step(t, m, new, n, n) /\ Short(t, m, new) /\ \A e : Gain(t, m, new, e) = Holds(g, e)
  BY <1>2
<1> HIDE DEF new
<1>5. \A e \in 1..n : Holds(g, e) \in Nat /\ entries[e].strong \in Nat
  BY <1>1, HoldsNat, Counting
<1>6. Follows(new, n)
  BY <1>5 DEF Follows, Pushes
<1>7. SameRuns(t, m, n)
  <2>1. \A e : ~Runs(stack, t, m + 1, e) /\ ~Runs(stack, t, m + 2, e)
    BY <1>1, <1>3, OldRuns
  <2>2. \A e : ~Runs(stack', t, m + 1, e) /\ ~Runs(stack', t, m + 2, e)
    <3>1. /\ \A e : Runs(stack', t, m + 1, e) <=>
                     Len(new) >= 1 /\ new[1].op \in {"loader", "unwind"} /\ new[1].entry = e
          /\ \A e : Runs(stack', t, m + 2, e) <=>
                     Len(new) >= 2 /\ new[2].op \in {"loader", "unwind"} /\ new[2].entry = e
      BY <1>4, NewCalls
    <3>2. QED
      BY <1>3, <3>1 DEF Pushes, Running
  <2>3. QED
    BY <2>1, <2>2 DEF SameRuns
<1>8. Unremoving(t, m) /\ Unreaping(t, m, new)
  BY <1>1, <1>3 DEF Unremoving, Unreaping, Pushes
<1>9. /\ asset_map' = asset_map /\ held' = held /\ retained' = retained
      /\ used' = used /\ used_before' = used_before
      /\ loads' \in 0..MaxLoads /\ panics' \in 0..MaxPanics
  BY DEF Pushes
<1>10. \A e \in 1..n : /\ entries'[e].keep = entries[e].keep /\ entries'[e].value = entries[e].value
                       /\ entries'[e].strong = entries[e].strong + Gain(t, m, new, e)
  BY <1>4 DEF Pushes
<1>11. QED
  BY <1>4, <1>6, <1>7, <1>8, <1>9, <1>10, OrdinaryStep

LEMMA IdleSetup ==
  ASSUME IInv
  PROVE  \E n : Types(n) /\ Rest(n) /\ n = Len(entries)
BY HasTypes, HasRest DEF IInv

LEMMA LoadStep ==
  ASSUME IInv, NEW t \in Threads, NEW k \in Keys, Wants(t, k), NEW caller \in {"user", "retainer"},
         caller = "retainer" => t = Painter, loads < MaxLoads, loads' = loads + 1, Calls(t, k, caller),
         UNCHANGED <<asset_map, entries, held, retained, used, used_before, panics>>
  PROVE  IInv'
<1>1. PICK n : Types(n) /\ Rest(n)
  BY IdleSetup
<1>2. PICK g : g = Frame("fetch", caller, k, NoEntry)
  OBVIOUS
<1>3. /\ g \in FrameOf(n) /\ g.op = "fetch" /\ g.caller = caller /\ g.key = k /\ g.entry = NoEntry
      /\ g.rest = <<>> /\ g.keep = <<>> /\ g.loaded = 0
  <2>1. PICK op, e : op = "fetch" /\ e = NoEntry
    OBVIOUS
  <2>2. n \in Nat /\ op \in Ops /\ caller \in Callers /\ e \in (1..n) \cup {NoEntry}
    BY <1>1, <2>1 DEF Types, Ops, Callers
  <2>3. g = Frame(op, caller, k, e)
    BY <1>2, <2>1
  <2>4. /\ g \in FrameOf(n) /\ g.op = op /\ g.caller = caller /\ g.key = k /\ g.entry = e
        /\ g.rest = <<>> /\ g.keep = <<>> /\ g.loaded = 0
    BY <2>2, <2>3, AFrame
  <2>5. QED
    BY <2>1, <2>4
<1>4. Steady(n, n)
  BY <1>1, SteadySame
<1>5. stack[t] = <<>> /\ stack' = [stack EXCEPT ![t] = Append(@, g)]
  BY <1>2 DEF Wants, Idle, Calls
<1>6. FrameSound(g, t, 1)'
  <2>1. FrameSound(g, t, 1)
    BY <1>3 DEF FrameSound, Wants, LoadOps, Holding
  <2>2. QED
    BY <2>1 DEF FrameSound, Entry
<1>10. PICK m : m = 0
  OBVIOUS
<1>7. Pushing(t, m, g, n)
  BY <1>3, <1>4, <1>5, <1>6, <1>10 DEF Pushing
<1>8. Pushes(t, g, n)
  <2>1. \A e : Holds(g, e) = 0
    BY <1>3, HoldsNothing DEF Holding
  <2>2. \A e \in 1..n : entries[e].strong \in Nat
    BY <1>1, Counting
  <2>3. loads' \in 0..MaxLoads /\ panics' \in 0..MaxPanics
    BY <1>1, BoundsAssumption DEF Rest
  <2>4. QED
    BY <1>3, <2>1, <2>2, <2>3 DEF Pushes, Running
<1>9. QED
  BY <1>1, <1>7, <1>8, IdleStep

LEMMA FetchUntrackedStep ==
  ASSUME IInv, NEW t \in Threads, NEW k \in Keys, FetchUntracked(t, k)
  PROVE  IInv'
<1>1. PICK n : Types(n) /\ Rest(n)
  BY IdleSetup
<1>0. Wants(t, k) /\ Upgrades(k) /\ MapSound
  BY DEF FetchUntracked, IInv
<1>20. PICK x : x = asset_map[k].weak
  OBVIOUS
<1>2. PICK g : g = Frame("peek", "user", k, x)
  OBVIOUS
<1>11. x \in 1..n /\ entries[x].strong > 0 /\ entries[x].key = k
  BY <1>0, <1>1, <1>20 DEF Upgrades, Rest, MapSound
<1>3. /\ g \in FrameOf(n) /\ g.op = "peek" /\ g.caller = "user" /\ g.key = k /\ g.entry = x
      /\ g.rest = <<>> /\ g.keep = <<>> /\ g.loaded = 0
  <2>1. n \in Nat /\ "peek" \in Ops /\ "user" \in Callers /\ x \in (1..n) \cup {NoEntry}
    BY <1>1, <1>11 DEF Types, Ops, Callers
  <2>2. QED
    BY <1>2, <2>1, AFrame
<1>12. entries' = Cloned(entries, x)
  BY <1>20 DEF FetchUntracked
<1>4. /\ Steady(n, n)
      /\ \A e \in 1..n : /\ entries'[e].keep = entries[e].keep /\ entries'[e].value = entries[e].value
                         /\ entries'[e].strong = entries[e].strong + (IF x = e THEN 1 ELSE 0)
  BY <1>1, <1>11, <1>12, SteadyCloned
<1>5. stack[t] = <<>> /\ stack' = [stack EXCEPT ![t] = Append(@, g)]
  BY <1>0, <1>2, <1>20 DEF Wants, Idle, FetchUntracked
<1>13. held' = held
  BY DEF FetchUntracked
<1>6. FrameSound(g, t, 1)'
  <2>1. FrameSound(g, t, 1)
    BY <1>0, <1>1, <1>3, <1>11 DEF FrameSound, Wants, LoadOps, Holding, Types
  <2>2. held'[t] \subseteq held[t] /\ g.op \notin {"loader", "unwind"}
    BY <1>3, <1>13
  <2>3. QED
    BY <1>1, <1>3, <1>4, <2>1, <2>2, FrameKept
<1>10. PICK m : m = 0
  OBVIOUS
<1>7. Pushing(t, m, g, n)
  BY <1>3, <1>4, <1>5, <1>6, <1>10, <1>13 DEF Pushing
<1>8. Pushes(t, g, n)
  <2>1. \A e : Holds(g, e) = IF x = e THEN 1 ELSE 0
    BY <1>3, HoldsEntry DEF Holding
  <2>2. \A e \in 1..n : entries[e].strong \in Nat
    BY <1>1, Counting
  <2>3. loads' \in 0..MaxLoads /\ panics' \in 0..MaxPanics
    BY <1>1 DEF Rest, FetchUntracked
  <2>4. QED
    BY <1>3, <1>4, <2>1, <2>2, <2>3 DEF Pushes, Running, FetchUntracked
<1>9. QED
  BY <1>1, <1>7, <1>8, IdleStep

\* A load finds the live entry of its key, or goes on as it was.
LEMMA FoundStep ==
  ASSUME IInv, NEW t, NEW m, NEW f, NEW n, Topped(t, m, f, n), f.op \in {"fetch", "insert"},
         Upgrades(f.key), Found(t, asset_map[f.key].weak),
         asset_map' = asset_map, held' = held, retained' = retained, used' = used, used_before' = used_before,
         loads' = loads, panics' = panics
  PROVE  IInv'
<1>1. /\ Types(n) /\ Rest(n) /\ t \in Threads /\ f = Top(t) /\ f \in FrameOf(n) /\ FrameSound(f, t, m + 1)
      /\ MapSound /\ m \in Nat
  BY DEF Topped, IInv
<1>2. PICK x : x = asset_map[f.key].weak
  OBVIOUS
<1>3. PICK g : g = [f EXCEPT !.op = "init", !.entry = x]
  OBVIOUS
<1>4. x \in 1..n /\ entries[x].strong > 0 /\ entries[x].key = f.key
  BY <1>1, <1>2 DEF Upgrades, Rest, MapSound
<1>5. entries' = Cloned(entries, x) /\ stack' = [stack EXCEPT ![t] = Becomes(@, g)]
  BY <1>1, <1>2, <1>3 DEF Found
<1>6. /\ g \in FrameOf(n) /\ g.op = "init" /\ g.caller = f.caller /\ g.key = f.key /\ g.entry = x
      /\ g.rest = f.rest /\ g.keep = f.keep /\ g.loaded = f.loaded
  BY <1>1, <1>3, <1>4 DEF FrameOf, Ops
<1>7. f.rest = <<>> /\ f.keep = <<>>
  BY <1>1 DEF FrameSound
<1>8. /\ Steady(n, n)
      /\ \A e \in 1..n : /\ entries'[e].keep = entries[e].keep /\ entries'[e].value = entries[e].value
                         /\ entries'[e].strong = entries[e].strong + (IF x = e THEN 1 ELSE 0)
  BY <1>1, <1>4, <1>5, SteadyCloned
<1>9. FrameSound(g, t, m + 1)'
  <2>1. FrameSound(g, t, m + 1)
    BY <1>1, <1>4, <1>6 DEF FrameSound, Holding, LoadOps, Types
  <2>2. held'[t] \subseteq held[t] /\ g.op \notin {"loader", "unwind"}
    BY <1>6
  <2>3. QED
    BY <1>1, <1>6, <1>8, <2>1, <2>2, FrameKept
<1>10. \A e : Holds(g, e) = IF x = e THEN 1 ELSE 0
  BY <1>6, <1>7, HoldsEntry DEF Holding
<1>11. \A e : Holds(f, e) = 0
  BY <1>7, HoldsNothing DEF Holding
<1>12. \A e \in 1..n : entries[e].strong \in Nat
  BY <1>1, Counting
<1>13. \A e \in 1..n : /\ entries'[e].keep = entries[e].keep /\ entries'[e].value = entries[e].value
                       /\ entries'[e].strong = entries[e].strong + Holds(g, e) - Holds(f, e)
                       /\ entries[e].strong > 0 => entries'[e].strong > 0
  BY <1>8, <1>10, <1>11, <1>12
<1>14. loads' \in 0..MaxLoads /\ panics' \in 0..MaxPanics
  BY <1>1 DEF Rest
<1>15. Replaces(t, m, f, g, n)
  BY <1>5, <1>6, <1>8, <1>9, <1>13, <1>14 DEF Replaces, Running
<1>16. QED
  BY <1>15, ReplaceStep

LEMMA FetchEntryStep ==
  ASSUME IInv, NEW t \in Threads, FetchEntry(t)
  PROVE  IInv'
<1>1. stack[t] # <<>> /\ Top(t).op = "fetch"
  BY DEF FetchEntry, In, Idle
<1>2. PICK n, m, f : Topped(t, m, f, n)
  BY <1>1, TopSetup
<1>3. /\ Types(n) /\ Rest(n) /\ f = Top(t) /\ f \in FrameOf(n) /\ FrameSound(f, t, m + 1) /\ m \in Nat
  BY <1>2 DEF Topped
<1>4. /\ asset_map' = asset_map /\ held' = held /\ retained' = retained /\ used' = used
      /\ used_before' = used_before /\ loads' = loads /\ panics' = panics
  BY DEF FetchEntry
<1>5. CASE Upgrades(f.key)
  <2>1. Found(t, asset_map[f.key].weak) /\ f.op \in {"fetch", "insert"}
    BY <1>1, <1>3, <1>5 DEF FetchEntry
  <2>2. QED
    BY <1>2, <1>4, <1>5, <2>1, FoundStep
<1>6. CASE ~Upgrades(f.key)
  <2>1. PICK g : g = [f EXCEPT !.op = "insert"]
    OBVIOUS
  <2>2. entries' = entries /\ stack' = [stack EXCEPT ![t] = Becomes(@, g)]
    BY <1>3, <1>6, <2>1 DEF FetchEntry
  <2>3. /\ g \in FrameOf(n) /\ g.op = "insert" /\ g.caller = f.caller /\ g.key = f.key /\ g.entry = f.entry
        /\ g.rest = f.rest /\ g.keep = f.keep /\ g.loaded = f.loaded
    BY <1>3, <2>1 DEF FrameOf, Ops
  <2>4. f.rest = <<>> /\ f.keep = <<>> /\ f.op = "fetch"
    BY <1>1, <1>3 DEF FrameSound
  <2>5. Steady(n, n)
    BY <1>3, <2>2, SteadySame
  <2>6. FrameSound(g, t, m + 1)'
    <3>1. FrameSound(g, t, m + 1)
      BY <1>3, <2>3, <2>4 DEF FrameSound, Holding, LoadOps
    <3>2. held'[t] \subseteq held[t] /\ g.op \notin {"loader", "unwind"}
      BY <1>4, <2>3
    <3>3. QED
      BY <1>3, <2>3, <2>5, <3>1, <3>2, FrameKept
  <2>7. (\A e : Holds(g, e) = 0) /\ \A e : Holds(f, e) = 0
    <3>1. \A e : Holds(g, e) = 0
      BY <2>3, <2>4, HoldsNothing DEF Holding
    <3>2. \A e : Holds(f, e) = 0
      BY <2>4, HoldsNothing DEF Holding
    <3>3. QED
      BY <3>1, <3>2
  <2>8. \A e \in 1..n : entries[e].strong \in Nat
    BY <1>3, Counting
  <2>9. \A e \in 1..n : /\ entries'[e].keep = entries[e].keep /\ entries'[e].value = entries[e].value
                        /\ entries'[e].strong = entries[e].strong + Holds(g, e) - Holds(f, e)
                        /\ entries[e].strong > 0 => entries'[e].strong > 0
    BY <2>2, <2>7, <2>8
  <2>10. loads' \in 0..MaxLoads /\ panics' \in 0..MaxPanics
    BY <1>3, <1>4 DEF Rest
  <2>11. Replaces(t, m, f, g, n)
    BY <1>4, <2>2, <2>3, <2>4, <2>5, <2>6, <2>9, <2>10 DEF Replaces, Running
  <2>12. QED
    BY <1>2, <2>11, ReplaceStep
<1>7. QED
  BY <1>5, <1>6

LEMMA LoaderPanicsStep ==
  ASSUME IInv, NEW t \in Threads, LoaderPanics(t)
  PROVE  IInv'
<1>1. stack[t] # <<>> /\ Top(t).op = "loader"
  BY DEF LoaderPanics, In, Idle
<1>2. PICK n, m, f : Topped(t, m, f, n)
  BY <1>1, TopSetup
<1>3. /\ Types(n) /\ Rest(n) /\ f = Top(t) /\ f \in FrameOf(n) /\ FrameSound(f, t, m + 1) /\ m \in Nat
      /\ f.op = "loader"
  BY <1>1, <1>2 DEF Topped
<1>4. /\ asset_map' = asset_map /\ held' = held /\ retained' = retained /\ used' = used
      /\ used_before' = used_before /\ loads' = loads /\ entries' = entries
      /\ panics < MaxPanics /\ panics' = panics + 1
  BY DEF LoaderPanics
<1>5. PICK g : g = Unwound(f)
  OBVIOUS
<1>6. stack' = [stack EXCEPT ![t] = Becomes(@, g)]
  BY <1>3, <1>5 DEF LoaderPanics
<1>7. /\ f.rest \in Seq(1..n) /\ f.keep \in Seq(1..n)
      /\ g \in FrameOf(n) /\ g.op = "unwind" /\ g.caller = f.caller /\ g.key = f.key /\ g.entry = f.entry
      /\ g.rest = f.rest \o f.keep /\ g.keep = f.keep
  <2> DEFINE N == 1..n
  <2>1. f.rest \in Seq(N) /\ f.keep \in Seq(N)
    BY <1>3 DEF FrameOf
  <2> HIDE DEF N
  <2>2. f.rest \o f.keep \in Seq(N)
    BY <2>1
  <2>3. QED
    BY <1>3, <1>5, <2>1, <2>2 DEF FrameOf, N, Ops, Unwound
<1>8. Steady(n, n)
  BY <1>3, <1>4, SteadySame
<1>9. FrameSound(g, t, m + 1)'
  <2>1. FrameSound(g, t, m + 1)
    BY <1>3, <1>7 DEF FrameSound, Holding, LoadOps
  <2>2. held'[t] \subseteq held[t]
    BY <1>4
  <2>3. g.op \in {"loader", "unwind"} => entries'[g.entry].value = "busy"
    BY <1>4, <2>1 DEF FrameSound
  <2>4. QED
    BY <1>3, <1>7, <1>8, <2>1, <2>2, <2>3, FrameKept
<1>10. \A e : Holds(g, e) = Holds(f, e) /\ Holds(f, e) \in Nat
  <2> SUFFICES ASSUME NEW e PROVE Holds(g, e) = Holds(f, e) /\ Holds(f, e) \in Nat
    OBVIOUS
  <2>1. Occ(f.rest \o f.keep, e) = Occ(f.rest, e) + Occ(f.keep, e)
    BY <1>7, OccConcat
  <2>2. Occ(f.rest, e) \in Nat /\ Occ(f.keep, e) \in Nat
    BY <1>7, PlacesFinite
  <2>3. QED
    BY <1>3, <1>7, <2>1, <2>2 DEF Holds, Holding
<1>12. \A e \in 1..n : entries[e].strong \in Nat
  BY <1>3, Counting
<1>13. \A e \in 1..n : /\ entries'[e].keep = entries[e].keep /\ entries'[e].value = entries[e].value
                       /\ entries'[e].strong = entries[e].strong + Holds(g, e) - Holds(f, e)
                       /\ entries[e].strong > 0 => entries'[e].strong > 0
  BY <1>4, <1>10, <1>12
<1>14. loads' \in 0..MaxLoads /\ panics' \in 0..MaxPanics
  BY <1>3, <1>4, BoundsAssumption DEF Rest
<1>15. Replaces(t, m, f, g, n)
  BY <1>3, <1>4, <1>6, <1>7, <1>8, <1>9, <1>13, <1>14 DEF Replaces, Running
<1>16. QED
  BY <1>2, <1>15, ReplaceStep

\* A loader that returns, one that panicked, and a dropped entry drop what they have.
LEMMA LoaderReturnsStep ==
  ASSUME IInv, NEW t \in Threads, LoaderReturns(t)
  PROVE  IInv'
<1>1. stack[t] # <<>> /\ Top(t).op = "loader"
  BY DEF LoaderReturns, In, Idle
<1>2. PICK n, m, f : Topped(t, m, f, n)
  BY <1>1, TopSetup
<1>3. DropsNext(t, f)
  <2>1. f = Top(t)
    BY <1>2 DEF Topped
  <2>2. QED
    BY <1>1, <2>1 DEF LoaderReturns, DropsNext
<1>4. QED
  BY <1>2, <1>3, DropNext

LEMMA LoadDependencyStep ==
  ASSUME IInv, NEW t \in Threads, LoadDependency(t)
  PROVE  IInv'
<1>1. stack[t] # <<>> /\ Top(t).op = "loader"
  BY DEF LoadDependency, In, Idle
<1>2. PICK n, m, f : Topped(t, m, f, n)
  BY <1>1, TopSetup
<1>3. /\ Types(n) /\ Rest(n) /\ f = Top(t) /\ f \in FrameOf(n) /\ FrameSound(f, t, m + 1) /\ m \in Nat
      /\ f.op = "loader" /\ f.loaded = Len(f.keep) /\ Len(stack[t]) = m + 1
      /\ FramesSound /\ Nested
  BY <1>1, <1>2 DEF Topped, IInv
<1>4. /\ asset_map' = asset_map /\ held' = held /\ retained' = retained /\ used' = used
      /\ used_before' = used_before /\ loads' = loads /\ entries' = entries /\ panics' = panics
      /\ f.loaded < Len(DependsOn[f.key])
  BY <1>3 DEF LoadDependency
<1>5. PICK g, h, k, c, op, no : /\ g = [f EXCEPT !.loaded = @ + 1] /\ h = Frame(op, c, k, no)
                                /\ k = DependsOn[f.key][f.loaded + 1]
                                /\ c = "loader" /\ op = "fetch" /\ no = NoEntry
  OBVIOUS
<1>6. stack' = [stack EXCEPT ![t] = Append(Becomes(@, g), h)]
  BY <1>3, <1>5 DEF LoadDependency
<1>7. /\ g \in FrameOf(n) /\ g.op = "loader" /\ g.caller = f.caller /\ g.key = f.key /\ g.entry = f.entry
      /\ g.rest = f.rest /\ g.keep = f.keep /\ g.loaded = f.loaded + 1 /\ f.loaded \in Nat /\ f.key \in Keys
  BY <1>3, <1>5 DEF FrameOf
<1>8. k \in Keys
  <2>1. DependsOn[f.key] \in Seq(Keys)
    BY <1>7, Acyclic
  <2>2. f.loaded + 1 \in 1..Len(DependsOn[f.key])
    BY <1>4, <1>7, <2>1
  <2>3. QED
    BY <1>5, <2>1, <2>2
<1>9. /\ h \in FrameOf(n) /\ h.op = op /\ h.caller = c /\ h.key = k /\ h.entry = no
      /\ h.rest = <<>> /\ h.keep = <<>> /\ h.loaded = 0
  <2>1. n \in Nat /\ op \in Ops /\ c \in Callers /\ no \in (1..n) \cup {NoEntry}
    BY <1>3, <1>5 DEF Types, Ops, Callers
  <2>2. QED
    BY <1>5, <1>8, <2>1, AFrame
<1>10. Steady(n, n)
  BY <1>3, <1>4, SteadySame
<1>11. FrameSound(g, t, m + 1)'
  <2>1. FrameSound(g, t, m + 1)
    <3>1. g.loaded <= Len(DependsOn[g.key]) /\ Len(g.keep) <= g.loaded
      <4>1. DependsOn[f.key] \in Seq(Keys)
        BY <1>7, Acyclic
      <4>2. Len(DependsOn[f.key]) \in Nat
        BY <4>1
      <4>3. QED
        BY <1>3, <1>4, <1>7, <4>2
    <3>2. QED
      BY <1>3, <1>7, <3>1 DEF FrameSound, Holding, LoadOps
  <2>2. held'[t] \subseteq held[t]
    BY <1>4
  <2>3. g.op \in {"loader", "unwind"} => entries'[g.entry].value = "busy"
    BY <1>4, <2>1 DEF FrameSound
  <2>4. QED
    BY <1>3, <1>7, <1>10, <2>1, <2>2, <2>3, FrameKept
<1>12. FrameSound(h, t, m + 2)'
  <2>1. h.op = "fetch" /\ h.caller = "loader" /\ h.rest = <<>> /\ h.keep = <<>> /\ h.loaded = 0 /\ m + 2 > 1
    BY <1>3, <1>5, <1>9
  <2>2. PICK i : i = m + 2
    OBVIOUS
  <2>3. FrameSound(h, t, i)'
    BY <2>1, <2>2 DEF FrameSound, Holding, LoadOps
  <2>4. QED
    BY <2>2, <2>3 DEF FrameSound
<1>13. MayCall(g, h)
  BY <1>3, <1>5, <1>7, <1>9 DEF MayCall
<1>14. Calling(t, m, g, h, n, n)
  <2>1. /\ g.caller = Top(t).caller /\ g.key = Top(t).key
        /\ \A u \in Threads : held'[u] \subseteq held[u]
        /\ \A e \in 1..n : entries[e].value = "busy" => entries'[e].value = "busy"
    BY <1>3, <1>4, <1>7
  <2>2. QED
    BY <1>3, <1>6, <1>7, <1>9, <1>10, <1>11, <1>12, <1>13, <2>1 DEF Calling
<1>15. /\ Step(t, m, <<g, h>>, n, n) /\ Short(t, m, <<g, h>>)
       /\ \A e : Gain(t, m, <<g, h>>, e) = Holds(g, e) + Holds(h, e) - Holds(Top(t), e)
  <2>1. Types(n) /\ FramesSound /\ Nested
    BY <1>3
  <2>2. QED
    BY ONLY <1>14, <2>1, CallsStep
<1>16. \A e : Holds(h, e) = 0 /\ Holds(g, e) = Holds(f, e) /\ Holds(f, e) \in Nat
  <2>1. \A e : Holds(h, e) = 0
    BY <1>5, <1>9, HoldsNothing DEF Holding
  <2>2. \A e : Holds(g, e) = Holds(f, e)
    BY <1>3, <1>7 DEF Holds
  <2>3. \A e : Holds(f, e) \in Nat
    BY <1>3, HoldsNat
  <2>4. QED
    BY <2>1, <2>2, <2>3
<1> DEFINE new == <<g, h>>
<1>17. Len(new) = 2 /\ new[1] = g /\ new[2] = h /\ new # <<>>
  OBVIOUS
<1>18. Step(t, m, new, n, n) /\ Short(t, m, new) /\ \A e : Gain(t, m, new, e) = 0
  BY <1>3, <1>15, <1>16
<1> HIDE DEF new
<1>19. Balanced(t, m, new, n)
  <2>1. \A e \in 1..n : entries[e].strong \in Nat
    BY <1>3, Counting
  <2>2. \A e \in 1..n : /\ entries'[e].keep = entries[e].keep /\ entries'[e].value = entries[e].value
                        /\ entries'[e].strong = entries[e].strong + Gain(t, m, new, e)
    BY <1>4, <1>18, <2>1
  <2>3. Follows(new, n)
    BY <1>4 DEF Follows
  <2>4. QED
    BY <1>3, <1>4, <2>2, <2>3 DEF Balanced, Rest
<1>20. Alike(f, new) /\ f.op \notin {"remove", "reap"} /\ (new # <<>> => new[1].op # "reap")
  BY <1>3, <1>5, <1>7, <1>9, <1>17 DEF Alike, Running
<1>21. QED
  BY <1>2, <1>18, <1>19, <1>20, TopStep

\* The top call, which owns nothing but an entry at most, ends.
LEMMA EndStep ==
  ASSUME IInv, NEW t, NEW m, NEW f, NEW n, Topped(t, m, f, n),
         f.op \notin Running \cup {"remove", "reap"}, f.caller # "loader",
         Steady(n, n), stack' = [stack EXCEPT ![t] = Front(@)],
         asset_map' = asset_map, held' = held, retained' = retained, used' = used, used_before' = used_before,
         loads' = loads, panics' = panics,
         \A e \in 1..n : /\ entries'[e].keep = entries[e].keep /\ entries'[e].value = entries[e].value
                         /\ entries'[e].strong = entries[e].strong - Holds(f, e)
                         /\ entries[e].strong > 0 => entries'[e].strong > 0
  PROVE  IInv'
<1>1. /\ Types(n) /\ Rest(n) /\ f = Top(t) /\ f \in FrameOf(n) /\ m \in Nat /\ t \in Threads
      /\ Len(stack[t]) = m + 1 /\ FramesSound /\ Nested
  BY DEF Topped, IInv
<1>2. Popping(t, m, n)
  BY <1>1 DEF Popping
<1> DEFINE new == <<>>
<1>3. /\ Step(t, m, <<>>, n, n) /\ Short(t, m, <<>>)
      /\ \A e : Gain(t, m, <<>>, e) = 0 - Holds(Top(t), e)
  <2>1. Types(n) /\ FramesSound /\ Nested
    BY <1>1
  <2>2. QED
    BY ONLY <1>2, <2>1, PopStep
<1>4. Len(new) = 0 /\ new = <<>>
  OBVIOUS
<1>5. Step(t, m, new, n, n) /\ Short(t, m, new) /\ \A e : Gain(t, m, new, e) = 0 - Holds(f, e)
  BY <1>1, <1>3
<1> HIDE DEF new
<1>6. Balanced(t, m, new, n)
  <2>1. \A e \in 1..n : entries[e].strong \in Nat /\ Holds(f, e) \in Nat
    BY <1>1, Counting, HoldsNat
  <2>2. \A e \in 1..n : entries'[e].strong = entries[e].strong + Gain(t, m, new, e)
    BY <1>5, <2>1
  <2>3. Follows(new, n)
    BY <2>1 DEF Follows
  <2>4. QED
    BY <1>1, <2>2, <2>3 DEF Balanced, Rest
<1>7. Alike(f, new) /\ f.op \notin {"remove", "reap"} /\ (new # <<>> => new[1].op # "reap")
  BY <1>4 DEF Alike
<1>8. QED
  BY <1>5, <1>6, <1>7, TopStep

LEMMA DropFieldsStep ==
  ASSUME IInv, NEW t \in Threads, DropFields(t)
  PROVE  IInv'
<1>1. stack[t] # <<>> /\ Top(t).op = "fields"
  BY DEF DropFields, In, Idle
<1>2. PICK n, m, f : Topped(t, m, f, n)
  BY <1>1, TopSetup
<1>3. /\ Types(n) /\ f = Top(t) /\ f.op = "fields" /\ FrameSound(f, t, m + 1)
  BY <1>1, <1>2 DEF Topped
<1>4. CASE f.rest = <<>>
  <2>1. entries' = entries /\ stack' = [stack EXCEPT ![t] = Front(@)]
    BY <1>3, <1>4 DEF DropFields
  <2>2. Steady(n, n)
    BY <1>3, <2>1, SteadySame
  <2>3. \A e : Holds(f, e) = 0
    BY <1>3, <1>4, HoldsNothing DEF Holding
  <2>4. \A e \in 1..n : /\ entries'[e].keep = entries[e].keep /\ entries'[e].value = entries[e].value
                        /\ entries'[e].strong = entries[e].strong - Holds(f, e)
                        /\ entries[e].strong > 0 => entries'[e].strong > 0
    <3>1. \A e \in 1..n : entries[e].strong \in Nat
      BY <1>3, Counting
    <3>2. QED
      BY <2>1, <2>3, <3>1
  <2>5. f.op \notin Running \cup {"remove", "reap"} /\ f.caller # "loader"
    BY <1>3 DEF Running, FrameSound, LoadOps
  <2>6. /\ asset_map' = asset_map /\ held' = held /\ retained' = retained /\ used' = used
        /\ used_before' = used_before /\ loads' = loads /\ panics' = panics
    BY DEF DropFields
  <2>7. QED
    BY <1>2, <2>1, <2>2, <2>4, <2>5, <2>6, EndStep
<1>5. CASE f.rest # <<>>
  <2>1. DropsNext(t, f)
    BY <1>3, <1>5 DEF DropFields, DropsNext
  <2>2. QED
    BY <1>2, <2>1, DropNext
<1>6. QED
  BY <1>4, <1>5

----------------------------------------------------------------------------
(* Steps that change the owners elsewhere *)

HeldBecomes(e, d) ==
  IsFiniteSet(HeldBy(held', e)) /\ Cardinality(HeldBy(held', e)) = Cardinality(HeldBy(held, e)) + d

KeptBecomes(e, d) ==
  /\ IsFiniteSet(KeptBy(Keeps(entries'), e))
  /\ Cardinality(KeptBy(Keeps(entries'), e)) = Cardinality(KeptBy(Keeps(entries), e)) + d

\* The count of e follows its owners: dh more threads hold it, dr more retainers, dk more assets.
Recount(t, m, new, e, dh, dr, dk) ==
  /\ dh \in Int /\ dr \in Int /\ dk \in Int
  /\ HeldBecomes(e, dh) /\ KeptBecomes(e, dk)
  /\ Marked(retained', e) = Marked(retained, e) + dr
  /\ entries'[e].strong = entries[e].strong + Gain(t, m, new, e) + dh + dr + dk

LEMMA Recounted ==
  ASSUME NEW n, Types(n), Counted, NEW t, NEW m, NEW new, NEW n2, Step(t, m, new, n, n2), Short(t, m, new),
         NEW e \in 1..n, NEW dh, NEW dr, NEW dk, Recount(t, m, new, e, dh, dr, dk)
  PROVE  CountedAt(e)'
<1>1. CountedAt(e)
  BY DEF Counted, Types
<1>2. FiniteOwners(held, Keeps(entries), stack, e)
  BY <1>1 DEF CountedAt
<1>3. IsFiniteSet(HeldBy(held', e)) /\ IsFiniteSet(KeptBy(Keeps(entries'), e))
  BY DEF Recount, HeldBecomes, KeptBecomes
<1>4. /\ FiniteOwners(held', Keeps(entries'), stack', e)
      /\ Owners(held', retained', Keeps(entries'), stack', e) =
           Owners(held, retained, Keeps(entries), stack, e) + Gain(t, m, new, e)
           + (Cardinality(HeldBy(held', e)) - Cardinality(HeldBy(held, e)))
           + (Marked(retained', e) - Marked(retained, e))
           + (Cardinality(KeptBy(Keeps(entries'), e)) - Cardinality(KeptBy(Keeps(entries), e)))
  BY <1>2, <1>3, StepCounted
<1>5. /\ Cardinality(HeldBy(held', e)) - Cardinality(HeldBy(held, e)) = dh
      /\ Marked(retained', e) - Marked(retained, e) = dr
      /\ Cardinality(KeptBy(Keeps(entries'), e)) - Cardinality(KeptBy(Keeps(entries), e)) = dk
      /\ dh \in Int /\ dr \in Int /\ dk \in Int
  <2>1. Cardinality(HeldBy(held, e)) \in Nat /\ Cardinality(KeptBy(Keeps(entries), e)) \in Nat
    BY <1>2, FS_CardinalityType DEF FiniteOwners
  <2>2. Marked(retained, e) \in Nat
    BY DEF Marked
  <2>3. QED
    BY <2>1, <2>2 DEF Recount, HeldBecomes, KeptBecomes
<1>6. entries[e].strong = Owners(held, retained, Keeps(entries), stack, e) /\ entries[e].strong \in Nat
  BY <1>1, Counting DEF CountedAt
<1>7. Gain(t, m, new, e) \in Int
  <2>1. /\ Len(new) >= 1 => new[1] \in FrameOf(n2)
        /\ Len(new) >= 2 => new[2] \in FrameOf(n2)
    BY DEF Step
  <2>2. t \in Threads
    BY DEF Step
  <2>3. QED
    BY <2>1, <2>2, HoldsNat, HoldsAtNat DEF Gain
<1>8. entries'[e].strong = entries[e].strong + Gain(t, m, new, e) + dh + dr + dk
  BY DEF Recount
<1>9. entries'[e].strong = Owners(held', retained', Keeps(entries'), stack', e)
  BY <1>4, <1>5, <1>6, <1>7, <1>8
<1>10. QED
  BY <1>4, <1>9 DEF CountedAt

LEMMA OwnersSame ==
  ASSUME NEW n, Types(n), Counted, NEW e \in 1..n
  PROVE  /\ held' = held => HeldBecomes(e, 0)
         /\ Keeps(entries') = Keeps(entries) => KeptBecomes(e, 0)
         /\ IsFiniteSet(HeldBy(held, e)) /\ IsFiniteSet(KeptBy(Keeps(entries), e))
<1>1. IsFiniteSet(HeldBy(held, e)) /\ IsFiniteSet(KeptBy(Keeps(entries), e))
  BY DEF Counted, CountedAt, FiniteOwners, Types
<1>2. Cardinality(HeldBy(held, e)) \in Nat /\ Cardinality(KeptBy(Keeps(entries), e)) \in Nat
  BY <1>1, FS_CardinalityType
<1>3. QED
  BY <1>1, <1>2 DEF HeldBecomes, KeptBecomes

\* Thread t gets x, which it did not have.
LEMMA HeldGets ==
  ASSUME NEW n, Types(n), Counted, NEW t \in Threads, NEW x, x \notin held[t],
         held' = [held EXCEPT ![t] = @ \cup {x}], NEW e \in 1..n
  PROVE  HeldBecomes(e, IF e = x THEN 1 ELSE 0)
<1>1. IsFiniteSet(HeldBy(held, e)) /\ DOMAIN held = Threads
  BY OwnersSame DEF Types
<1>2. PICK hd, hd2 : hd = held /\ hd2 = held'
  OBVIOUS
<1>3. Gets(hd, t, x, hd2, e)
  BY <1>1, <1>2 DEF Gets
<1>4. IsFiniteSet(HeldBy(hd2, e)) /\ Cardinality(HeldBy(hd2, e)) = Cardinality(HeldBy(hd, e)) + (IF e = x THEN 1 ELSE 0)
  BY <1>3, HeldMore
<1>5. QED
  BY <1>2, <1>4 DEF HeldBecomes

LEMMA HeldLoses ==
  ASSUME NEW n, Types(n), Counted, NEW t \in Threads, NEW x, x \in held[t],
         held' = [held EXCEPT ![t] = @ \ {x}], NEW e \in 1..n
  PROVE  HeldBecomes(e, 0 - (IF e = x THEN 1 ELSE 0))
<1>1. IsFiniteSet(HeldBy(held, e)) /\ DOMAIN held = Threads /\ Cardinality(HeldBy(held, e)) \in Nat
  BY OwnersSame, FS_CardinalityType DEF Types
<1>2. PICK hd, hd2 : hd = held /\ hd2 = held'
  OBVIOUS
<1>3. Loses(hd, t, x, hd2, e)
  BY <1>1, <1>2 DEF Loses
<1>4. IsFiniteSet(HeldBy(hd2, e)) /\ Cardinality(HeldBy(hd2, e)) = Cardinality(HeldBy(hd, e)) - (IF e = x THEN 1 ELSE 0)
  BY <1>3, HeldLess
<1>5. QED
  BY <1>1, <1>2, <1>4 DEF HeldBecomes

\* A step that leaves the map as it is.
LEMMA MapSameStep ==
  ASSUME IInv, NEW n, Types(n), NEW t, NEW m, NEW new, Step(t, m, new, n, n), Short(t, m, new),
         Rest(n)', asset_map' = asset_map,
         \A e \in 1..n : CountedAt(e)',
         \A e \in 1..n : BusyAt(e)',
         \A e \in 1..n : KeepAt(e)',
         HeldReady', RetainerSound', Follows(new, n), Unremoving(t, m)
  PROVE  IInv'
<1>0. /\ FramesSound /\ Nested /\ Counted /\ BusyOnce /\ KeepsSound /\ HeldReady
      /\ MapSound /\ LiveIsShared /\ NothingLeaks /\ RetainerSound
  BY DEF IInv
<1>1. Steady(n, n)
  BY DEF Step
<1>2. Rest(n)
  BY HasRest DEF IInv, Types
<1>3. TypeOK' /\ Entry' = 1..n
  BY StepTypes
<1>4. FramesSound' /\ Nested'
  BY <1>0, StepFrames, StepNested
<1>5. Counted'
  BY <1>3 DEF Counted
<1>6. BusyOnce'
  BY <1>3 DEF BusyOnce, BusyAt
<1>7. KeepsSound'
  BY <1>3 DEF KeepsSound, KeepAt
<1>9. LiveIsShared' /\ MapSound'
  BY <1>0, <1>1, <1>2, MapKept
<1>10. NothingLeaks'
  BY <1>0, <1>2, NothingLeaksKept
<1>12. QED
  BY <1>3, <1>4, <1>5, <1>6, <1>7, <1>9, <1>10 DEF IInv

\* The top call ends and its thread gets e, which the retainer may keep as well.
Granted(t, m, f, e, n) ==
  /\ m = 0
  /\ f.op \in {"peek", "init", "loader"}
  /\ f.entry = e
  /\ f.caller # "loader"
  /\ Steady(n, n)
  /\ stack' = [stack EXCEPT ![t] = Front(@)]
  /\ asset_map' = asset_map
  /\ held' = [held EXCEPT ![t] = @ \cup {e}]
  /\ used_before' = used_before /\ loads' = loads /\ panics' = panics
  /\ \/ retained' = retained /\ used' = used
     \/ f.caller = "retainer" /\ retained' = KeptAlive(e) /\ used' = used \cup {e}
  /\ entries'[e].value = "ready"
  /\ f.op # "loader" => entries[e].value = "ready"
  /\ \A x \in 1..n : x # e => entries'[x].value = entries[x].value /\ entries'[x].keep = entries[x].keep
  /\ \A x \in 1..n : entries'[x].strong = entries[x].strong + (Marked(retained', x) - Marked(retained, x))
  /\ \A x \in 1..n : KeptBecomes(x, Holds(f, x) - (IF x = e THEN 1 ELSE 0))
  /\ KeepAt(e)'

LEMMA GrantedRetainer ==
  ASSUME IInv, NEW t, NEW m, NEW f, NEW n, Topped(t, m, f, n), NEW e, e \in 1..n, Granted(t, m, f, e, n),
         Step(t, m, <<>>, n, n)
  PROVE  RetainerSound'
<1>1. /\ Types(n) /\ t \in Threads /\ RetainerSound /\ FrameSound(f, t, m + 1) /\ f = stack[t][m + 1] /\ m = 0
      /\ stack[t] # <<>> /\ f.op # "reap" /\ used_before' = used_before
  BY DEF Topped, IInv, Granted
<1>2. CASE retained' = retained /\ used' = used
  <2>1. PICK new : new = <<>>
    OBVIOUS
  <2>2. Step(t, m, new, n, n) /\ (new # <<>> => new[1].op # "reap")
    BY <2>1
  <2>3. Unreaping(t, m, new)
    BY <1>1, <2>2, TopUnlike
  <2>4. QED
    BY <1>1, <1>2, <2>2, <2>3, RetainerKept
<1>3. CASE f.caller = "retainer" /\ retained' = KeptAlive(e) /\ used' = used \cup {e}
  <2>1. t = Painter
    BY <1>1, <1>3 DEF FrameSound
  <2>2. ~Reaping
    BY <1>1, <2>1 DEF Reaping
  <2>3. ~Reaping'
    <3>1. Len(stack'[t]) = m + Len(<<>>)
      BY <1>1, StepStack
    <3>2. stack' \in [Threads -> Seq(FrameOf(n))]
      BY <1>1, StepStack
    <3>3. stack'[t] = <<>>
      BY <1>1, <3>1, <3>2
    <3>4. QED
      BY <2>1, <3>3 DEF Reaping
  <2>4. DOMAIN retained = used \cup used_before /\ \A x \in DOMAIN retained : retained[x] <=> x \in used
    BY <1>1, <2>2 DEF RetainerSound
  <2>5. DOMAIN retained' = used' \cup used_before'
    BY <1>1, <1>3, <2>4 DEF KeptAlive
  <2>6. \A x \in DOMAIN retained' : retained'[x] <=> x \in used'
    BY <1>1, <1>3, <2>4 DEF KeptAlive
  <2>7. retained' = [x \in DOMAIN retained' |-> retained'[x]]
    BY <1>3 DEF KeptAlive
  <2>8. QED
    BY <2>3, <2>5, <2>6, <2>7 DEF RetainerSound
<1>4. QED
  BY <1>2, <1>3 DEF Granted

LEMMA GrantStep ==
  ASSUME IInv, NEW t, NEW m, NEW f, NEW n, Topped(t, m, f, n), NEW e, e \in 1..n, Granted(t, m, f, e, n)
  PROVE  IInv'
<1>1. /\ Types(n) /\ Rest(n) /\ f = Top(t) /\ f \in FrameOf(n) /\ m \in Nat /\ t \in Threads
      /\ Len(stack[t]) = m + 1 /\ f = stack[t][m + 1] /\ FrameSound(f, t, m + 1)
      /\ FramesSound /\ Nested /\ Counted /\ BusyOnce /\ KeepsSound /\ HeldReady
  BY DEF Topped, IInv
<1>2. /\ m = 0 /\ f.op \in {"peek", "init", "loader"} /\ f.entry = e /\ f.caller # "loader" /\ Steady(n, n)
      /\ held' = [held EXCEPT ![t] = @ \cup {e}]
      /\ entries'[e].value = "ready" /\ (f.op # "loader" => entries[e].value = "ready")
      /\ \A x \in 1..n : x # e => entries'[x].value = entries[x].value /\ entries'[x].keep = entries[x].keep
  BY DEF Granted
<1>3. /\ e \notin held[t]
  <2>1. entries[e].key = f.key
    BY <1>1, <1>2 DEF FrameSound, Holding
  <2>2. \A x \in held[t] : entries[x].key # f.key
    BY <1>1, <1>2 DEF FrameSound, LoadOps
  <2>3. QED
    BY <2>1, <2>2
<1>4. Popping(t, m, n)
  <2>1. \A u \in Threads : u # t \/ m > 0 => held'[u] \subseteq held[u]
    BY <1>1, <1>2 DEF Types
  <2>2. \A x \in 1..n : entries[x].value = "busy" /\ entries'[x].value # "busy" =>
           Top(t).op \in {"loader", "unwind"} /\ Top(t).entry = x
    BY <1>1, <1>2
  <2>3. stack' = [stack EXCEPT ![t] = Front(@)]
    BY DEF Granted
  <2>4. QED
    BY <1>1, <1>2, <2>1, <2>2, <2>3 DEF Popping
<1> DEFINE new == <<>>
<1>5. /\ Step(t, m, <<>>, n, n) /\ Short(t, m, <<>>)
      /\ \A x : Gain(t, m, <<>>, x) = 0 - Holds(Top(t), x)
  <2>1. Types(n) /\ FramesSound /\ Nested
    BY <1>1
  <2>2. QED
    BY ONLY <1>4, <2>1, PopStep
<1>6. RetainerSound'
  BY <1>5, GrantedRetainer
<1>7. Len(new) = 0 /\ new = <<>> /\ DOMAIN new = {}
  OBVIOUS
<1>8. Step(t, m, new, n, n) /\ Short(t, m, new) /\ \A x : Gain(t, m, new, x) = 0 - Holds(f, x)
  BY <1>1, <1>5
<1> HIDE DEF new
<1>9. \A x \in 1..n : CountedAt(x)'
  <2> SUFFICES ASSUME NEW x \in 1..n PROVE CountedAt(x)'
    OBVIOUS
  <2>1. PICK dh : dh = IF x = e THEN 1 ELSE 0
    OBVIOUS
  <2>2. PICK dr : dr = Marked(retained', x) - Marked(retained, x)
    OBVIOUS
  <2>3. PICK dk : dk = Holds(f, x) - (IF x = e THEN 1 ELSE 0)
    OBVIOUS
  <2>4. HeldBecomes(x, dh)
    BY <1>1, <1>2, <1>3, <2>1, HeldGets
  <2>5. KeptBecomes(x, dk)
    BY <2>3 DEF Granted
  <2>6. Holds(f, x) \in Nat /\ Marked(retained', x) \in Nat /\ Marked(retained, x) \in Nat /\ entries[x].strong \in Nat
    BY <1>1, HoldsNat, Counting DEF Marked
  <2>7. dh \in Int /\ dr \in Int /\ dk \in Int /\ Marked(retained', x) = Marked(retained, x) + dr
    BY <2>1, <2>2, <2>3, <2>6
  <2>8. entries'[x].strong = entries[x].strong + dr
    BY <2>2 DEF Granted
  <2>9. entries'[x].strong = entries[x].strong + Gain(t, m, new, x) + dh + dr + dk
    BY <1>8, <2>1, <2>3, <2>6, <2>7, <2>8
  <2>10. Recount(t, m, new, x, dh, dr, dk)
    BY <2>4, <2>5, <2>7, <2>9 DEF Recount
  <2>11. QED
    BY <1>1, <1>8, <2>10, Recounted
<1>10. \A x \in 1..n : BusyAt(x)'
  <2> SUFFICES ASSUME NEW x \in 1..n PROVE BusyAt(x)'
    OBVIOUS
  <2>1. /\ Runs(stack, t, m + 1, x) <=> f.op \in {"loader", "unwind"} /\ f.entry = x
        /\ ~Runs(stack, t, m + 2, x)
    BY <1>1, OldRuns
  <2>2. ~Runs(stack', t, m + 1, x) /\ ~Runs(stack', t, m + 2, x)
    BY <1>1, <1>7, <1>8, NewCalls
  <2>3. \/ /\ \A i \in {m + 1, m + 2} : Runs(stack', t, i, x) <=> Runs(stack, t, i, x)
           /\ entries'[x].value = "busy" => x \in 1..n /\ entries[x].value = "busy"
        \/ /\ Runs(stack, t, m + 1, x) \/ Runs(stack, t, m + 2, x)
           /\ ~Runs(stack', t, m + 1, x) /\ ~Runs(stack', t, m + 2, x)
           /\ entries'[x].value # "busy"
    BY <1>2, <2>1, <2>2
  <2>4. QED
    BY <1>1, <1>8, <2>3, StepBusy
<1>11. \A x \in 1..n : KeepAt(x)'
  <2> SUFFICES ASSUME NEW x \in 1..n PROVE KeepAt(x)'
    OBVIOUS
  <2>1. CASE x = e
    BY <2>1 DEF Granted
  <2>2. CASE x # e
    BY <1>1, <1>2, <2>2, KeepKept
  <2>3. QED
    BY <2>1, <2>2
<1>12. DOMAIN retained' \subseteq DOMAIN retained \cup {e} /\ used' \subseteq used \cup {e}
       /\ \A x \in DOMAIN retained' : retained'[x] \in BOOLEAN
  BY <1>1 DEF Granted, KeptAlive, Rest
<1>13. HeldReady'
  <2>1. \A u \in Threads : \A x \in held'[u] : x \in held[u] \/ entries'[x].value = "ready"
    BY <1>1, <1>2 DEF Types
  <2>2. \A x \in DOMAIN retained' : x \in DOMAIN retained \/ entries'[x].value = "ready"
    BY <1>2, <1>12
  <2>3. QED
    BY <1>1, <1>2, <2>1, <2>2, HeldReadyKept
<1>14. Rest(n)'
  BY <1>1, <1>2, <1>12 DEF Rest, Granted
<1>15. Follows(new, n)
  <2>1. \A x \in 1..n : entries[x].strong > 0 => entries'[x].strong > 0
    <3> SUFFICES ASSUME NEW x \in 1..n, entries[x].strong > 0 PROVE entries'[x].strong > 0
      OBVIOUS
    <3>1. entries[x].strong \in Nat
      BY <1>1, Counting
    <3>2. Marked(retained', x) >= Marked(retained, x) /\ Marked(retained', x) \in Nat /\ Marked(retained, x) \in Nat
      <4>1. DOMAIN retained \subseteq DOMAIN retained'
        BY DEF Granted, KeptAlive
      <4>2. QED
        BY <4>1 DEF Marked
    <3>3. entries'[x].strong = entries[x].strong + (Marked(retained', x) - Marked(retained, x))
      BY DEF Granted
    <3>4. QED
      BY <3>1, <3>2, <3>3
  <2>2. \A x \in 1..n : ~(entries[x].strong > 0 /\ entries'[x].strong = 0)
    BY <2>1
  <2>3. QED
    BY <2>2 DEF Follows
<1>16. Unremoving(t, m)
  BY <1>2, TopUnlike
<1>17. asset_map' = asset_map
  BY DEF Granted
<1>18. QED
  BY <1>1, <1>6, <1>8, <1>9, <1>10, <1>11, <1>13, <1>14, <1>15, <1>16, <1>17, MapSameStep

\* One entry changes.
OneChanges(x, c, n) ==
  /\ Types(n) /\ x \in 1..n /\ c \in EntryOf(n) /\ entries' = [entries EXCEPT ![x] = c]
  /\ c.key = entries[x].key /\ c.id = entries[x].id
  /\ entries[x].value = "ready" => c.value = "ready"
  /\ entries[x].strong = 0 => c.strong = 0

LEMMA SteadyOne ==
  ASSUME NEW n, NEW x, NEW c, OneChanges(x, c, n)
  PROVE  Steady(n, n) /\ \A e \in 1..n : entries'[e] = IF e = x THEN c ELSE entries[e]
<1> SUFFICES ASSUME Types(n), x \in 1..n, c \in EntryOf(n), entries' = [entries EXCEPT ![x] = c],
                    c.key = entries[x].key, c.id = entries[x].id,
                    entries[x].value = "ready" => c.value = "ready", entries[x].strong = 0 => c.strong = 0
             PROVE  Steady(n, n) /\ \A e \in 1..n : entries'[e] = IF e = x THEN c ELSE entries[e]
  BY DEF OneChanges
<1>1. n \in Nat /\ DOMAIN entries = 1..n /\ entries \in Seq(EntryOf(n)) /\ Len(entries) = n
  BY DEF Types
<1>2. entries' \in Seq(EntryOf(n)) /\ Len(entries') = n
  BY <1>1
<1>3. \A e \in 1..n : entries'[e] = IF e = x THEN c ELSE entries[e]
  BY <1>1
<1>4. QED
  BY <1>1, <1>2, <1>3 DEF Steady

\* What one asset keeps changes.
LEMMA KeepOf ==
  ASSUME NEW n, Types(n), Counted, Steady(n, n), NEW e \in 1..n,
         \A y \in 1..n : y # e => entries'[y].keep = entries[y].keep, NEW x \in 1..n
  PROVE  KeptBecomes(x, Occ(entries'[e].keep, x) - Occ(entries[e].keep, x))
<1>1. n \in Nat /\ DOMAIN entries = 1..n /\ DOMAIN entries' = 1..n /\ entries' \in Seq(EntryOf(n))
  BY DEF Types, Steady
<1>2. entries'[e].keep \in Seq(1..n) /\ entries[e].keep \in Seq(1..n)
  <2>1. entries'[e] \in EntryOf(n) /\ entries[e] \in EntryOf(n)
    BY <1>1, Counting
  <2>2. QED
    BY <2>1 DEF EntryOf
<1>3. PICK ks, ks2 : ks = Keeps(entries) /\ ks2 = Keeps(entries')
  OBVIOUS
<1>4. /\ DOMAIN ks = 1..n /\ DOMAIN ks2 = 1..n /\ ks[e] = entries[e].keep /\ ks2[e] = entries'[e].keep
      /\ \A y \in DOMAIN ks : y # e => ks2[y] = ks[y]
  BY <1>1, <1>3 DEF Keeps
<1>5. IsFiniteSet(KeptBy(ks, x)) /\ Cardinality(KeptBy(ks, x)) \in Nat
  BY <1>3, OwnersSame, FS_CardinalityType
<1>6. PICK S : S = 1..n
  OBVIOUS
<1>7. KeepChanges(S, ks, ks2, e, x)
  BY <1>2, <1>4, <1>5, <1>6 DEF KeepChanges
<1>8. /\ IsFiniteSet(KeptBy(ks2, x))
      /\ Cardinality(KeptBy(ks2, x)) = Cardinality(KeptBy(ks, x)) - Occ(ks[e], x) + Occ(ks2[e], x)
  BY <1>7, KeptChanged
<1>9. Occ(ks[e], x) \in Nat /\ Occ(ks2[e], x) \in Nat
  BY <1>2, <1>4, PlacesFinite
<1>10. Cardinality(KeptBy(ks2, x)) = Cardinality(KeptBy(ks, x)) + (Occ(ks2[e], x) - Occ(ks[e], x))
  BY <1>5, <1>8, <1>9
<1>11. QED
  BY <1>3, <1>4, <1>8, <1>10 DEF KeptBecomes

\* The entries once the load of e has its result, which the caller may share.
Result(f, e, es) ==
  /\ e = f.entry /\ f.rest = <<>>
  /\ \/ f.op = "init" /\ es = entries /\ entries[e].value = "ready"
     \/ f.op = "loader" /\ LoaderDone(f) /\ es = [entries EXCEPT ![e].value = "ready", ![e].keep = f.keep]

Shared(es, e, q) == entries' = IF q = 1 THEN Cloned(es, e) ELSE es

LEMMA ResultEntries ==
  ASSUME IInv, NEW t, NEW m, NEW f, NEW n, Topped(t, m, f, n), NEW e, NEW es, Result(f, e, es),
         NEW q \in {0, 1}, Shared(es, e, q)
  PROVE  /\ e \in 1..n /\ entries[e].key = f.key /\ entries[e].strong > 0
         /\ Steady(n, n)
         /\ entries'[e].value = "ready"
         /\ f.op # "loader" => entries[e].value = "ready"
         /\ \A x \in 1..n : x # e => entries'[x].value = entries[x].value /\ entries'[x].keep = entries[x].keep
         /\ \A x \in 1..n : entries'[x].strong = entries[x].strong + (IF x = e THEN q ELSE 0)
         /\ entries'[e].keep = IF f.op = "loader" THEN f.keep ELSE entries[e].keep
<1>1. /\ Types(n) /\ f = Top(t) /\ f \in FrameOf(n) /\ m \in Nat /\ t \in Threads
      /\ Len(stack[t]) = m + 1 /\ f = stack[t][m + 1] /\ FrameSound(f, t, m + 1) /\ Counted
      /\ DOMAIN stack[t] = 1..(m + 1) /\ n \in Nat
  BY DEF Topped, IInv, Types
<1>2. f.op \in {"init", "loader"} /\ f.entry = e
  BY DEF Result
<1>3. e \in 1..n /\ entries[e].key = f.key
  BY <1>1, <1>2 DEF FrameSound, Holding, Types
<1>4. entries[e].strong > 0
  <2>1. PICK i : i = m + 1 /\ i \in DOMAIN stack[t] /\ f = stack[t][i]
    BY <1>1
  <2>2. f.op \in Holding /\ f.entry = e
    BY <1>2 DEF Holding
  <2>3. QED
    BY <1>1, <1>3, <2>1, <2>2, FrameOwned
<1>5. entries[e] \in EntryOf(n) /\ DOMAIN entries = 1..n
  BY <1>1, <1>3 DEF Types
<1>6. f.keep \in Seq(1..n)
  BY <1>1 DEF FrameOf
<1>7. PICK c : c = IF f.op = "loader" THEN [entries[e] EXCEPT !.value = "ready", !.keep = f.keep] ELSE entries[e]
  OBVIOUS
<1>8. /\ c \in EntryOf(n) /\ c.key = entries[e].key /\ c.id = entries[e].id
      /\ c.value = "ready" /\ c.strong = entries[e].strong
      /\ c.keep = IF f.op = "loader" THEN f.keep ELSE entries[e].keep
  BY <1>5, <1>6, <1>7 DEF Result, EntryOf
<1>9. es = [entries EXCEPT ![e] = c]
  <2>1. CASE f.op = "loader"
    <3>1. es = [entries EXCEPT ![e] = [entries[e] EXCEPT !.value = "ready", !.keep = f.keep]]
      BY <1>3, <1>5, <2>1 DEF Result, EntryOf
    <3>2. QED
      BY <1>7, <2>1, <3>1
  <2>2. CASE f.op = "init"
    <3>1. es = entries /\ c = entries[e]
      BY <1>7, <2>2 DEF Result
    <3>2. entries \in Seq(EntryOf(n))
      BY <1>1 DEF Types
    <3>3. QED
      BY <1>3, <1>5, <3>1, <3>2
  <2>3. QED
    BY <1>2, <2>1, <2>2
<1>10. PICK d : d = IF q = 1 THEN [c EXCEPT !.strong = @ + 1] ELSE c
  OBVIOUS
<1>11. /\ d \in EntryOf(n) /\ d.key = entries[e].key /\ d.id = entries[e].id
       /\ d.value = "ready" /\ d.strong = entries[e].strong + q
       /\ d.keep = IF f.op = "loader" THEN f.keep ELSE entries[e].keep
  BY <1>5, <1>8, <1>10 DEF EntryOf
<1>12. entries' = [entries EXCEPT ![e] = d]
  <2>1. es[e] = c
    BY <1>3, <1>5, <1>9
  <2>2. Cloned(es, e) = [es EXCEPT ![e] = [c EXCEPT !.strong = @ + 1]]
    BY <2>1 DEF Cloned
  <2>3. QED
    BY <1>9, <1>10, <2>2 DEF Shared
<1>13. Steady(n, n) /\ \A x \in 1..n : entries'[x] = IF x = e THEN d ELSE entries[x]
  <2>1. entries[e].strong # 0
    BY <1>4, <1>5 DEF EntryOf
  <2>2. OneChanges(e, d, n)
    BY <1>1, <1>3, <1>11, <1>12, <2>1 DEF OneChanges
  <2>3. QED
    BY <2>2, SteadyOne
<1>14. \A x \in 1..n : entries[x].strong \in Nat
  BY <1>1, Counting
<1>15. QED
  BY <1>2, <1>3, <1>4, <1>11, <1>13, <1>14 DEF Result

LEMMA ResultKept ==
  ASSUME IInv, NEW t, NEW m, NEW f, NEW n, Topped(t, m, f, n), NEW e, NEW es, Result(f, e, es),
         NEW q \in {0, 1}, Shared(es, e, q)
  PROVE  /\ KeepAt(e)'
         /\ \A x \in 1..n : KeptBecomes(x, Holds(f, x) - (IF x = e THEN 1 ELSE 0))
<1>1. /\ Types(n) /\ f \in FrameOf(n) /\ FrameSound(f, t, m + 1) /\ Counted /\ KeepsSound
      /\ f.op = "loader" => f.loaded = Len(f.keep)
  BY DEF Topped, IInv
<1>2. /\ e \in 1..n /\ entries[e].key = f.key /\ Steady(n, n)
      /\ entries'[e].value = "ready"
      /\ f.op # "loader" => entries[e].value = "ready"
      /\ \A x \in 1..n : x # e => entries'[x].value = entries[x].value /\ entries'[x].keep = entries[x].keep
      /\ entries'[e].keep = IF f.op = "loader" THEN f.keep ELSE entries[e].keep
  BY ResultEntries
<1>3. f.op \in {"init", "loader"} /\ f.entry = e /\ f.rest = <<>> /\ f.keep \in Seq(1..n)
  BY <1>1 DEF Result, FrameOf
<1>4. CASE f.op = "init"
  <2>1. KeepAt(e)'
    BY <1>1, <1>2, <1>4, KeepKept
  <2>2. Keeps(entries') = Keeps(entries)
    BY <1>1, <1>2, <1>4, KeepsSame
  <2>3. f.keep = <<>>
    BY <1>1, <1>4 DEF FrameSound
  <2>4. \A x : Holds(f, x) = IF f.entry = x THEN 1 ELSE 0
    BY <1>3, <1>4, <2>3, HoldsEntry DEF Holding
  <2>5. \A x \in 1..n : KeptBecomes(x, Holds(f, x) - (IF x = e THEN 1 ELSE 0))
    <3> SUFFICES ASSUME NEW x \in 1..n PROVE KeptBecomes(x, Holds(f, x) - (IF x = e THEN 1 ELSE 0))
      OBVIOUS
    <3>1. Holds(f, x) - (IF x = e THEN 1 ELSE 0) = 0
      BY <1>3, <2>4
    <3>2. KeptBecomes(x, 0)
      BY <1>1, <2>2, OwnersSame
    <3>3. QED
      BY <3>1, <3>2
  <2>6. QED
    BY <2>1, <2>5
<1>5. CASE f.op = "loader"
  <2>1. /\ entries[e].value = "busy" /\ f.loaded = Len(f.keep) /\ f.loaded = Len(DependsOn[f.key])
        /\ \A j \in DOMAIN f.keep : /\ entries[f.keep[j]].key = DependsOn[f.key][j]
                                    /\ entries[f.keep[j]].value = "ready"
    BY <1>1, <1>3, <1>5 DEF FrameSound, Result, LoaderDone
  <2>2. entries[e].keep = <<>> /\ entries[e].id = e
    BY <1>1, <1>2, <2>1 DEF KeepsSound, Types
  <2>3. \A j \in DOMAIN f.keep : f.keep[j] \in 1..n
    <3>1. \A s, S : s \in Seq(S) => \A j \in DOMAIN s : s[j] \in S
      OBVIOUS
    <3>2. QED
      BY <1>3, <3>1
  <2>4. KeepAt(e)'
    <3>1. \A x \in 1..n : /\ entries'[x].key = entries[x].key /\ entries'[x].id = entries[x].id
                          /\ entries[x].value = "ready" => entries'[x].value = "ready"
      BY <1>2 DEF Steady
    <3>2. entries'[e].keep = f.keep /\ entries'[e].key = f.key /\ entries'[e].id = e /\ entries'[e].value = "ready"
      BY <1>2, <1>5, <2>2, <3>1
    <3>3. \A j \in DOMAIN f.keep : /\ entries'[f.keep[j]].key = DependsOn[f.key][j]
                                   /\ entries'[f.keep[j]].value = "ready"
      BY <2>1, <2>3, <3>1
    <3>4. QED
      BY <2>1, <3>2, <3>3 DEF KeepAt, Alive, Ready
  <2>5. \A x \in 1..n : KeptBecomes(x, Holds(f, x) - (IF x = e THEN 1 ELSE 0))
    <3> SUFFICES ASSUME NEW x \in 1..n PROVE KeptBecomes(x, Holds(f, x) - (IF x = e THEN 1 ELSE 0))
      OBVIOUS
    <3>1. KeptBecomes(x, Occ(entries'[e].keep, x) - Occ(entries[e].keep, x))
      BY <1>1, <1>2, KeepOf
    <3>2. Occ(f.keep, x) \in Nat
      BY <1>3, PlacesFinite
    <3>3. Occ(<<>>, x) = 0
      BY OccEmpty
    <3>4. Holds(f, x) = (IF f.entry = x THEN 1 ELSE 0) + 0 + Occ(f.keep, x)
      BY <1>3, <1>5, <3>3 DEF Holds, Holding
    <3>5. Holds(f, x) - (IF x = e THEN 1 ELSE 0) = Occ(entries'[e].keep, x) - Occ(entries[e].keep, x)
      BY <1>2, <1>3, <1>5, <2>2, <3>2, <3>3, <3>4
    <3>6. QED
      BY <3>1, <3>5
  <2>6. QED
    BY <2>4, <2>5
<1>6. QED
  BY <1>3, <1>4, <1>5

\* The load of a thread's own code, or of the retainer, returns.
LEMMA ReturnsUpStep ==
  ASSUME IInv, NEW t, NEW m, NEW f, NEW n, Topped(t, m, f, n), NEW e, NEW es, Result(f, e, es),
         f.caller # "loader", Returns(t, e, es),
         asset_map' = asset_map, used_before' = used_before, loads' = loads, panics' = panics
  PROVE  IInv'
<1>1. /\ Types(n) /\ f = Top(t) /\ f \in FrameOf(n) /\ m \in Nat /\ t \in Threads
      /\ FrameSound(f, t, m + 1) /\ f.op \in {"init", "loader"} /\ stack \in [Threads -> Seq(FrameOf(n))]
  BY DEF Topped, Result, Types
<1>2. m = 0
  BY <1>1 DEF FrameSound, LoadOps
<1>3. f.caller \in {"user", "retainer"}
  BY <1>1 DEF FrameOf, Callers
<1>4. PICK q \in {0, 1} : q = IF f.caller = "retainer" /\ e \notin DOMAIN retained THEN 1 ELSE 0
  OBVIOUS
<1>5. /\ stack' = [stack EXCEPT ![t] = Front(@)]
      /\ held' = [held EXCEPT ![t] = @ \cup {e}]
      /\ \/ f.caller = "user" /\ entries' = es /\ retained' = retained /\ used' = used
         \/ /\ f.caller = "retainer" /\ retained' = KeptAlive(e) /\ used' = used \cup {e}
            /\ entries' = IF e \in DOMAIN retained THEN es ELSE Cloned(es, e)
  <2>1. stack' = [stack EXCEPT ![t] = Front(stack[t])]
    BY <1>1, <1>3 DEF Returns
  <2>2. QED
    BY <1>1, <1>3, <2>1 DEF Returns
<1>6. Shared(es, e, q)
  BY <1>4, <1>5 DEF Shared
<1>7. /\ e \in 1..n /\ entries[e].strong > 0
      /\ Steady(n, n)
      /\ entries'[e].value = "ready"
      /\ f.op # "loader" => entries[e].value = "ready"
      /\ \A x \in 1..n : x # e => entries'[x].value = entries[x].value /\ entries'[x].keep = entries[x].keep
      /\ \A x \in 1..n : entries'[x].strong = entries[x].strong + (IF x = e THEN q ELSE 0)
  BY <1>6, ResultEntries
<1>8. /\ KeepAt(e)'
      /\ \A x \in 1..n : KeptBecomes(x, Holds(f, x) - (IF x = e THEN 1 ELSE 0))
  BY <1>6, ResultKept
<1>9. \A x \in 1..n : entries'[x].strong = entries[x].strong + (Marked(retained', x) - Marked(retained, x))
  <2> SUFFICES ASSUME NEW x \in 1..n
               PROVE  entries'[x].strong = entries[x].strong + (Marked(retained', x) - Marked(retained, x))
    OBVIOUS
  <2>1. Marked(retained', x) - Marked(retained, x) = IF x = e THEN q ELSE 0
    <3>1. CASE f.caller = "user"
      BY <1>4, <1>5, <3>1 DEF Marked
    <3>2. CASE f.caller = "retainer"
      <4>1. DOMAIN retained' = DOMAIN retained \cup {e}
        BY <1>5, <3>2 DEF KeptAlive
      <4>2. QED
        BY <1>4, <3>2, <4>1 DEF Marked
    <3>3. QED
      BY <1>3, <3>1, <3>2
  <2>2. QED
    BY <1>7, <2>1
<1>10. Granted(t, m, f, e, n)
  <2>1. f.op \in {"peek", "init", "loader"} /\ f.entry = e
    BY <1>1 DEF Result
  <2>2. \/ retained' = retained /\ used' = used
        \/ f.caller = "retainer" /\ retained' = KeptAlive(e) /\ used' = used \cup {e}
    BY <1>5
  <2>3. QED
    BY <1>2, <1>5, <1>7, <1>8, <1>9, <2>1, <2>2 DEF Granted
<1>11. QED
  BY <1>7, <1>10, GrantStep

\* The top call drops its entry, and the thread may be the last to do so.
LEMMA PeekReadyStep ==
  ASSUME IInv, NEW t, NEW m, NEW f, NEW n, Topped(t, m, f, n), f.op = "peek", Usable(f.entry),
         stack' = [stack EXCEPT ![t] = Front(@)], held' = [held EXCEPT ![t] = @ \cup {f.entry}],
         entries' = entries, UNCHANGED <<asset_map, retained, used, used_before, loads, panics>>
  PROVE  IInv'
<1>1. /\ Types(n) /\ f = Top(t) /\ f \in FrameOf(n) /\ m \in Nat /\ t \in Threads
      /\ FrameSound(f, t, m + 1) /\ KeepsSound /\ Counted
  BY DEF Topped, IInv
<1>2. PICK e : e = f.entry
  OBVIOUS
<1>3. m = 0 /\ f.caller # "loader" /\ e \in 1..n /\ f.rest = <<>>
  BY <1>1, <1>2 DEF FrameSound, LoadOps, Holding, Types
<1>4. \A x : Holds(f, x) = IF e = x THEN 1 ELSE 0
  BY <1>2, <1>3, HoldsEntry DEF Holding
<1>5. Keeps(entries') = Keeps(entries)
  OBVIOUS
<1>6. \A x \in 1..n : KeptBecomes(x, Holds(f, x) - (IF x = e THEN 1 ELSE 0))
  <2> SUFFICES ASSUME NEW x \in 1..n PROVE KeptBecomes(x, Holds(f, x) - (IF x = e THEN 1 ELSE 0))
    OBVIOUS
  <2>1. Holds(f, x) - (IF x = e THEN 1 ELSE 0) = 0
    BY <1>4
  <2>2. KeptBecomes(x, 0)
    BY <1>1, <1>5, OwnersSame
  <2>3. QED
    BY <2>1, <2>2
<1>7. Steady(n, n)
  BY <1>1, SteadySame
<1>8. KeepAt(e)'
  BY <1>1, <1>3, <1>7, KeepKept
<1>9. \A x \in 1..n : entries'[x].strong = entries[x].strong + (Marked(retained', x) - Marked(retained, x))
  <2>1. \A x \in 1..n : entries[x].strong \in Nat /\ Marked(retained, x) \in Nat
    BY <1>1, Counting DEF Marked
  <2>2. QED
    BY <2>1
<1>10. entries[e].value = "ready"
  BY <1>2 DEF Usable
<1>11. Granted(t, m, f, e, n)
  BY <1>2, <1>3, <1>6, <1>7, <1>8, <1>9, <1>10 DEF Granted
<1>12. QED
  BY <1>3, <1>11, GrantStep

\* The pointer to an asset that is not ready is dropped again.
LEMMA PeekUnreadyStep ==
  ASSUME IInv, NEW t, NEW m, NEW f, NEW n, Topped(t, m, f, n), f.op = "peek",
         entries' = Released(entries, f.entry), stack' = [stack EXCEPT ![t] = Dropping(Front(@), entries, f.entry)],
         UNCHANGED <<asset_map, held, retained, used, used_before, loads, panics>>
  PROVE  IInv'
<1>1. /\ Types(n) /\ Rest(n) /\ f = Top(t) /\ f \in FrameOf(n) /\ m \in Nat /\ t \in Threads
      /\ FrameSound(f, t, m + 1) /\ Counted /\ DOMAIN stack[t] = 1..(m + 1) /\ f = stack[t][m + 1]
      /\ Len(stack[t]) = m + 1 /\ FramesSound /\ Nested
  BY DEF Topped, IInv
<1>2. PICK e : e = f.entry
  OBVIOUS
<1>3. m = 0 /\ f.caller # "loader" /\ e \in 1..n /\ f.rest = <<>> /\ entries[e].key = f.key
  BY <1>1, <1>2 DEF FrameSound, LoadOps, Holding, Types
<1>4. \A x : Holds(f, x) = IF e = x THEN 1 ELSE 0
  BY <1>2, <1>3, HoldsEntry DEF Holding
<1>5. entries[e].strong > 0
  <2>1. PICK i : i = m + 1 /\ i \in DOMAIN stack[t] /\ f = stack[t][i]
    BY <1>1
  <2>2. f.op \in Holding /\ f.entry = e
    BY <1>2 DEF Holding
  <2>3. QED
    BY <1>1, <1>3, <2>1, <2>2, FrameOwned
<1>6. entries' = Released(entries, e)
  BY <1>2
<1>7. /\ Steady(n, n)
      /\ \A x \in 1..n : /\ entries'[x].keep = entries[x].keep /\ entries'[x].value = entries[x].value
                         /\ entries'[x].strong = entries[x].strong - (IF e = x THEN 1 ELSE 0)
  BY <1>1, <1>3, <1>5, <1>6, SteadyReleased
<1>8. \A x \in 1..n : entries[x].strong \in Nat
  BY <1>1, Counting
<1>9. Released(entries, e)[e].strong = entries'[e].strong
  BY <1>6
<1>10. CASE entries'[e].strong # 0
  <2>1. stack' = [stack EXCEPT ![t] = Front(@)]
    BY <1>2, <1>9, <1>10 DEF Dropping
  <2>2. f.op \notin Running \cup {"remove", "reap"}
    BY DEF Running
  <2>3. \A x \in 1..n : /\ entries'[x].keep = entries[x].keep /\ entries'[x].value = entries[x].value
                        /\ entries'[x].strong = entries[x].strong - Holds(f, x)
                        /\ entries[x].strong > 0 => entries'[x].strong > 0
    BY <1>4, <1>7, <1>8, <1>10
  <2>4. QED
    BY <1>3, <1>7, <2>1, <2>2, <2>3, EndStep
<1>11. CASE entries'[e].strong = 0
  <2>1. PICK op, c, no : op = "remove" /\ c = "user" /\ no = NoEntry
    OBVIOUS
  <2>2. PICK h : h = Frame(op, c, f.key, e)
    OBVIOUS
  <2>3. op \in Ops /\ c \in Callers /\ f.key \in Keys /\ e \in (1..n) \cup {NoEntry} /\ n \in Nat
    BY <1>1, <1>3, <2>1 DEF Ops, Callers, FrameOf, Types
  <2>4. h \in FrameOf(n) /\ h.op = "remove" /\ h.caller = "user" /\ h.key = f.key /\ h.entry = e /\ h.rest = <<>>
    BY <2>1, <2>2, <2>3, AFrame
  <2>5. stack' = [stack EXCEPT ![t] = Becomes(@, h)]
    BY <1>2, <1>3, <1>9, <1>11, <2>1, <2>2 DEF Dropping, Becomes
  <2>6. FrameSound(h, t, m + 1)'
    <3>1. e \in Entry' /\ entries'[e].strong = 0
      BY <1>3, <1>7, <1>11 DEF Entry, Steady
    <3>2. FrameSound(Frame("remove", "user", f.key, e), t, m + 1)'
      BY <3>1, RemoverSound
    <3>3. QED
      BY <2>1, <2>2, <3>2
  <2>7. Becoming(t, m, h, n, n)
    BY <1>1, <1>3, <1>7, <2>4, <2>5, <2>6 DEF Becoming
  <2> DEFINE new == <<h>>
  <2>8. /\ Step(t, m, <<h>>, n, n) /\ Short(t, m, <<h>>)
        /\ \A x : Gain(t, m, <<h>>, x) = Holds(h, x) - Holds(Top(t), x)
    <3>1. Types(n) /\ FramesSound /\ Nested
      BY <1>1
    <3>2. QED
      BY ONLY <2>7, <3>1, BecomesStep
  <2>9. Len(new) = 1 /\ new[1] = h /\ DOMAIN new = 1..1 /\ new # <<>>
    OBVIOUS
  <2>10. Step(t, m, new, n, n) /\ Short(t, m, new) /\ \A x : Gain(t, m, new, x) = Holds(h, x) - Holds(f, x)
    BY <1>1, <2>8
  <2> HIDE DEF new
  <2>11. \A x : Holds(h, x) = 0
    BY <2>4, HoldsNothing DEF Holding
  <2>12. Follows(new, n)
    <3>1. \A x \in 1..n : entries[x].strong > 0 /\ entries'[x].strong = 0 => x = e
      BY <1>7, <1>8
    <3>2. 1 \in DOMAIN new
      BY <2>9
    <3>3. QED
      BY <2>4, <2>9, <3>1, <3>2 DEF Follows
  <2>13. Balanced(t, m, new, n)
    <3>1. \A x \in 1..n : entries'[x].strong = entries[x].strong + Gain(t, m, new, x)
      BY <1>4, <1>7, <1>8, <2>10, <2>11
    <3>2. QED
      BY <1>1, <1>7, <2>12, <3>1 DEF Balanced, Rest
  <2>14. Alike(f, new) /\ f.op \notin {"remove", "reap"} /\ (new # <<>> => new[1].op # "reap")
    BY <2>4, <2>9 DEF Alike, Running
  <2>15. QED
    BY <2>10, <2>13, <2>14, TopStep
<1>12. QED
  BY <1>10, <1>11

LEMMA PeekStep ==
  ASSUME IInv, NEW t \in Threads, Peek(t)
  PROVE  IInv'
<1>1. stack[t] # <<>> /\ Top(t).op = "peek"
  BY DEF Peek, In, Idle
<1>2. PICK n, m, f : Topped(t, m, f, n)
  BY <1>1, TopSetup
<1>3. f = Top(t) /\ f.op = "peek"
  BY <1>1, <1>2 DEF Topped
<1>4. UNCHANGED <<asset_map, retained, used, used_before, loads, panics>>
  BY DEF Peek
<1>5. CASE /\ Usable(f.entry) /\ stack' = [stack EXCEPT ![t] = Front(@)]
           /\ held' = [held EXCEPT ![t] = @ \cup {f.entry}] /\ entries' = entries
  BY <1>2, <1>3, <1>4, <1>5, PeekReadyStep
<1>6. CASE /\ entries' = Released(entries, f.entry) /\ stack' = [stack EXCEPT ![t] = Dropping(Front(@), entries, f.entry)]
           /\ held' = held
  BY <1>2, <1>3, <1>4, <1>6, PeekUnreadyStep
<1>7. QED
  BY <1>3, <1>5, <1>6 DEF Peek

\* Below the top call f, which a loader waits for, is that loader b, with m calls below it.
Under(t, m, b, f, n) ==
  /\ t \in Threads
  /\ m \in Nat
  /\ Len(stack[t]) = m + 2
  /\ DOMAIN stack[t] = 1..(m + 2)
  /\ b = stack[t][m + 1]
  /\ f = stack[t][m + 2]
  /\ f = Top(t)
  /\ b \in FrameOf(n)
  /\ f \in FrameOf(n)
  /\ FrameSound(b, t, m + 1)
  /\ b.op = "loader"
  /\ b.loaded = Len(b.keep) + 1
  /\ f.key = DependsOn[b.key][b.loaded]
  /\ Last(Front(stack[t])) = b

LEMMA UnderSetup ==
  ASSUME IInv, NEW t, NEW m1, NEW f, NEW n, Topped(t, m1, f, n), f.caller = "loader"
  PROVE  \E m, b : m1 = m + 1 /\ Under(t, m, b, f, n)
<1>1. /\ Types(n) /\ f = Top(t) /\ f \in FrameOf(n) /\ m1 \in Nat /\ t \in Threads
      /\ FrameSound(f, t, m1 + 1) /\ Len(stack[t]) = m1 + 1 /\ f = stack[t][m1 + 1]
      /\ DOMAIN stack[t] = 1..(m1 + 1) /\ FramesSound /\ Nested /\ stack[t] \in Seq(FrameOf(n))
  BY DEF Topped, IInv, Types
<1>2. PICK m \in Nat : m1 = m + 1
  <2>1. m1 >= 1
    BY <1>1 DEF FrameSound
  <2>2. m1 - 1 \in Nat /\ m1 = (m1 - 1) + 1
    BY <1>1, <2>1
  <2>3. QED
    BY <2>2
<1>3. m1 + 1 = m + 2
  BY <1>2
<1>4. PICK b : b = stack[t][m + 1]
  OBVIOUS
<1>5. Len(stack[t]) = m + 2 /\ DOMAIN stack[t] = 1..(m + 2) /\ f = stack[t][m + 2]
  BY <1>1, <1>3
<1>6. m + 1 \in DOMAIN stack[t] /\ (m + 1) + 1 = m + 2 /\ m + 1 < Len(stack[t])
  BY <1>5
<1>7. b \in FrameOf(n) /\ FrameSound(b, t, m + 1) /\ NestedAt(stack[t], m + 1)
  BY <1>1, <1>4, <1>6 DEF FramesSound, Nested
<1>8. Waits(stack[t], m + 1)
  BY <1>5, <1>6 DEF Waits
<1>9. b.op = "loader" /\ b.loaded = Len(b.keep) + 1 /\ f.key = DependsOn[b.key][b.loaded]
  BY <1>4, <1>5, <1>6, <1>7, <1>8 DEF NestedAt
<1>10. Last(Front(stack[t])) = b
  <2>1. PICK F, s : F = FrameOf(n) /\ s = stack[t]
    OBVIOUS
  <2>2. LongBy2(F, s, m)
    BY <1>1, <1>5, <2>1 DEF LongBy2
  <2>3. Last(Front(s)) = s[m + 1]
    BY <2>2, FrontOfFront
  <2>4. QED
    BY <1>4, <2>1, <2>3
<1>11. Under(t, m, b, f, n)
  BY <1>1, <1>4, <1>5, <1>7, <1>9, <1>10 DEF Under
<1>12. QED
  BY <1>2, <1>11

\* A loader that has got the asset it waited for.
Getting(t, m, b, f, e, g, n) ==
  /\ Types(n) /\ Under(t, m, b, f, n) /\ e \in 1..n
  /\ g = [b EXCEPT !.rest = Append(@, e), !.keep = Append(@, e)]
  /\ Steady(n, n) /\ held' = held
  /\ entries[e].key = f.key /\ entries'[e].value = "ready"
  /\ entries'[b.entry].value = "busy"

LEMMA LoaderGets ==
  ASSUME NEW t, NEW m, NEW b, NEW f, NEW e, NEW g, NEW n, Getting(t, m, b, f, e, g, n)
  PROVE  /\ g \in FrameOf(n) /\ g.op = "loader" /\ g.caller = b.caller /\ g.key = b.key /\ g.entry = b.entry
         /\ g.loaded = Len(g.keep) /\ FrameSound(g, t, m + 1)'
         /\ \A x : Holds(g, x) = Holds(b, x) + (IF x = e THEN 2 ELSE 0)
<1> SUFFICES ASSUME Types(n), Under(t, m, b, f, n), e \in 1..n,
                    g = [b EXCEPT !.rest = Append(@, e), !.keep = Append(@, e)],
                    Steady(n, n), held' = held, entries[e].key = f.key, entries'[e].value = "ready",
                    entries'[b.entry].value = "busy"
             PROVE  /\ g \in FrameOf(n) /\ g.op = "loader" /\ g.caller = b.caller /\ g.key = b.key
                    /\ g.entry = b.entry
                    /\ g.loaded = Len(g.keep) /\ FrameSound(g, t, m + 1)'
                    /\ \A x : Holds(g, x) = Holds(b, x) + (IF x = e THEN 2 ELSE 0)
  BY DEF Getting
<1>1. /\ t \in Threads /\ m \in Nat /\ b \in FrameOf(n) /\ FrameSound(b, t, m + 1) /\ b.op = "loader"
      /\ b.loaded = Len(b.keep) + 1 /\ f.key = DependsOn[b.key][b.loaded]
  BY DEF Under
<1>2. b.keep \in Seq(1..n) /\ b.rest \in Seq(1..n)
  BY <1>1 DEF FrameOf
<1>3. /\ Append(b.rest, e) \in Seq(1..n) /\ Append(b.keep, e) \in Seq(1..n)
      /\ Len(Append(b.keep, e)) = Len(b.keep) + 1
  BY <1>2
<1>4. /\ g \in FrameOf(n) /\ g.op = "loader" /\ g.caller = b.caller /\ g.key = b.key /\ g.entry = b.entry
      /\ g.loaded = b.loaded /\ g.rest = Append(b.rest, e) /\ g.keep = Append(b.keep, e)
  BY <1>1, <1>3 DEF FrameOf
<1>5. g.loaded = Len(g.keep)
  BY <1>1, <1>3, <1>4
<1>6. FrameSound(b, t, m + 1)'
  BY <1>1, FrameKept
<1>7. \A j \in DOMAIN g.keep : /\ entries'[g.keep[j]].key = DependsOn[b.key][j]
                               /\ entries'[g.keep[j]].value = "ready"
  <2> SUFFICES ASSUME NEW j \in DOMAIN g.keep
               PROVE  /\ entries'[g.keep[j]].key = DependsOn[b.key][j]
                      /\ entries'[g.keep[j]].value = "ready"
    OBVIOUS
  <2>1. CASE j \in DOMAIN b.keep
    <3>1. g.keep[j] = b.keep[j]
      BY <1>2, <1>4, <2>1
    <3>2. QED
      BY <1>1, <1>6, <2>1, <3>1 DEF FrameSound
  <2>2. CASE j \notin DOMAIN b.keep
    <3>1. j = Len(b.keep) + 1 /\ g.keep[j] = e
      BY <1>2, <1>4, <2>2
    <3>2. entries'[e].key = entries[e].key
      BY DEF Steady
    <3>3. QED
      BY <1>1, <3>1, <3>2
  <2>3. QED
    BY <2>1, <2>2
<1>8. FrameSound(g, t, m + 1)'
  <2>1. g.loaded <= Len(DependsOn[g.key]) /\ Len(g.keep) <= g.loaded
    <3>1. Len(b.keep) \in Nat
      BY <1>2
    <3>2. QED
      BY <1>1, <1>3, <1>4, <3>1 DEF FrameSound
  <2>2. b.entry \in Entry' /\ entries'[b.entry].key = b.key
    BY <1>1, <1>6 DEF FrameSound, Holding
  <2>3. /\ b.caller = "loader" => m + 1 > 1
        /\ b.caller = "retainer" => t = Painter
        /\ b.caller # "loader" => m + 1 = 1 /\ \A x \in held'[t] : entries'[x].key # b.key
    BY <1>1, <1>6 DEF FrameSound, LoadOps
  <2>4. QED
    BY <1>4, <1>7, <2>1, <2>2, <2>3 DEF FrameSound, Holding, LoadOps
<1>9. \A x : Holds(g, x) = Holds(b, x) + (IF x = e THEN 2 ELSE 0)
  <2> SUFFICES ASSUME NEW x PROVE Holds(g, x) = Holds(b, x) + (IF x = e THEN 2 ELSE 0)
    OBVIOUS
  <2>1. PICK S : S = 1..n
    OBVIOUS
  <2>2. b.keep \in Seq(S)
    BY <1>2, <2>1
  <2>3. b.rest \in Seq(S)
    BY <1>2, <2>1
  <2>4. e \in S
    BY <2>1
  <2>5. Occ(g.keep, x) = Occ(b.keep, x) + (IF e = x THEN 1 ELSE 0)
    BY <1>4, <2>2, <2>4, OccAppend
  <2>6. Occ(g.rest, x) = Occ(b.rest, x) + (IF e = x THEN 1 ELSE 0)
    BY <1>4, <2>3, <2>4, OccAppend
  <2>7. Occ(b.keep, x) \in Nat /\ Occ(b.rest, x) \in Nat
    BY <1>2, PlacesFinite
  <2>8. PICK d \in {0, 1} : d = IF b.entry = x THEN 1 ELSE 0
    OBVIOUS
  <2>9. Holds(b, x) = d + Occ(b.rest, x) + Occ(b.keep, x)
    BY <1>1, <2>8 DEF Holds, Holding
  <2>10. Holds(g, x) = d + Occ(g.rest, x) + Occ(g.keep, x)
    BY <1>4, <2>8 DEF Holds, Holding
  <2>11. QED
    BY <2>5, <2>6, <2>7, <2>8, <2>9, <2>10
<1>10. QED
  BY <1>4, <1>5, <1>8, <1>9

\* The load that a loader waits for returns.
LEMMA ReturnsDownStep ==
  ASSUME IInv, NEW t, NEW m1, NEW f, NEW n, Topped(t, m1, f, n), NEW e, NEW es, Result(f, e, es),
         f.caller = "loader", Returns(t, e, es),
         asset_map' = asset_map, used_before' = used_before, loads' = loads, panics' = panics
  PROVE  IInv'
<1>1. PICK m, b : m1 = m + 1 /\ Under(t, m, b, f, n)
  BY UnderSetup
<1>2. /\ t \in Threads /\ m \in Nat /\ Len(stack[t]) = m + 2 /\ DOMAIN stack[t] = 1..(m + 2)
      /\ b = stack[t][m + 1] /\ f = stack[t][m + 2] /\ f = Top(t) /\ b \in FrameOf(n) /\ f \in FrameOf(n)
      /\ FrameSound(b, t, m + 1) /\ b.op = "loader" /\ Last(Front(stack[t])) = b
  BY <1>1 DEF Under
<1>3. /\ Types(n) /\ Rest(n) /\ FramesSound /\ Nested /\ Counted /\ BusyOnce /\ KeepsSound /\ HeldReady
      /\ RetainerSound /\ FrameSound(f, t, m1 + 1) /\ f.op \in {"init", "loader"} /\ f.entry = e
  BY DEF Topped, IInv, Result
<1>4. PICK g : g = [b EXCEPT !.rest = Append(@, e), !.keep = Append(@, e)]
  OBVIOUS
<1>5. PICK q \in {0, 1} : q = 1
  OBVIOUS
<1>6. /\ entries' = Cloned(es, e) /\ held' = held /\ retained' = retained /\ used' = used
      /\ stack' = [stack EXCEPT ![t] = Becomes(Front(@), g)]
  <2>1. /\ entries' = Tracked(es, Last(Front(stack[t])), e).entries
        /\ stack' = [stack EXCEPT ![t] = Becomes(Front(stack[t]), Tracked(es, Last(Front(stack[t])), e).loader)]
        /\ held' = held /\ retained' = retained /\ used' = used
    BY <1>2 DEF Returns
  <2>2. Tracked(es, b, e).entries = Cloned(es, e) /\ Tracked(es, b, e).loader = g
    BY <1>4 DEF Tracked
  <2>3. QED
    BY <1>2, <2>1, <2>2
<1>7. Shared(es, e, q)
  BY <1>5, <1>6 DEF Shared
<1>8. /\ e \in 1..n /\ entries[e].key = f.key /\ entries[e].strong > 0
      /\ Steady(n, n)
      /\ entries'[e].value = "ready"
      /\ f.op # "loader" => entries[e].value = "ready"
      /\ \A x \in 1..n : x # e => entries'[x].value = entries[x].value /\ entries'[x].keep = entries[x].keep
      /\ \A x \in 1..n : entries'[x].strong = entries[x].strong + (IF x = e THEN 1 ELSE 0)
  BY <1>5, <1>7, ResultEntries
<1>9. /\ KeepAt(e)'
      /\ \A x \in 1..n : KeptBecomes(x, Holds(f, x) - (IF x = e THEN 1 ELSE 0))
  BY <1>7, ResultKept
<1>10. b.entry \in 1..n /\ entries[b.entry].value = "busy"
  BY <1>2, <1>3 DEF FrameSound, Holding, Types
<1>11. b.entry # e
  <2>1. CASE f.op = "init"
    BY <1>8, <1>10, <2>1
  <2>2. CASE f.op = "loader"
    <3>1. m + 1 \in DOMAIN stack[t] /\ m + 2 \in DOMAIN stack[t]
      BY <1>2
    <3>2. Runs(stack, t, m + 2, e) /\ (b.entry = e => Runs(stack, t, m + 1, e))
      BY <1>2, <1>3, <2>2, <3>1 DEF Runs
    <3>3. Runs(stack, t, m + 1, e) /\ Runs(stack, t, m + 2, e) => m + 1 = m + 2
      BY <1>2, <1>3, <1>8, <3>1 DEF BusyOnce, Types
    <3>4. QED
      BY <1>2, <3>2, <3>3
  <2>3. QED
    BY <1>3, <2>1, <2>2
<1>12. entries'[b.entry].value = "busy"
  BY <1>8, <1>10, <1>11
<1>13. /\ g \in FrameOf(n) /\ g.op = "loader" /\ g.caller = b.caller /\ g.key = b.key /\ g.entry = b.entry
       /\ g.loaded = Len(g.keep) /\ FrameSound(g, t, m + 1)'
       /\ \A x : Holds(g, x) = Holds(b, x) + (IF x = e THEN 2 ELSE 0)
  <2>1. Getting(t, m, b, f, e, g, n)
    BY <1>1, <1>3, <1>4, <1>6, <1>8, <1>12 DEF Getting
  <2>2. QED
    BY <2>1, LoaderGets
<1>14. BelowBecoming(t, m, b, g, n)
  <2>1. \A x \in 1..n : entries[x].value = "busy" /\ entries'[x].value # "busy" =>
           Top(t).op \in {"loader", "unwind"} /\ Top(t).entry = x
    BY <1>2, <1>3, <1>8
  <2>2. \A u \in Threads : held'[u] \subseteq held[u]
    BY <1>6
  <2>3. QED
    BY <1>2, <1>6, <1>8, <1>13, <2>1, <2>2 DEF BelowBecoming
<1> DEFINE new == <<g>>
<1>15. /\ Step(t, m, <<g>>, n, n) /\ Short(t, m, <<g>>)
       /\ \A x : Gain(t, m, <<g>>, x) = Holds(g, x) - Holds(b, x) - Holds(Top(t), x)
  <2>1. Types(n) /\ FramesSound /\ Nested
    BY <1>3
  <2>2. QED
    BY ONLY <1>14, <2>1, BelowStep
<1>16. Len(new) = 1 /\ new[1] = g /\ DOMAIN new = 1..1 /\ new # <<>>
  OBVIOUS
<1>17. Step(t, m, new, n, n) /\ Short(t, m, new)
       /\ \A x : Gain(t, m, new, x) = Holds(g, x) - Holds(b, x) - Holds(f, x)
  BY <1>2, <1>15
<1> HIDE DEF new
<1>18. \A x \in 1..n : CountedAt(x)'
  <2> SUFFICES ASSUME NEW x \in 1..n PROVE CountedAt(x)'
    OBVIOUS
  <2>1. PICK d : d = 0
    OBVIOUS
  <2>2. PICK dk : dk = Holds(f, x) - (IF x = e THEN 1 ELSE 0)
    OBVIOUS
  <2>3. HeldBecomes(x, d)
    BY <1>3, <1>6, <2>1, OwnersSame
  <2>4. KeptBecomes(x, dk)
    BY <1>9, <2>2
  <2>5. Holds(f, x) \in Nat /\ Holds(b, x) \in Nat /\ Marked(retained, x) \in Nat /\ entries[x].strong \in Nat
    BY <1>2, <1>3, HoldsNat, Counting DEF Marked
  <2>6. d \in Int /\ dk \in Int /\ Marked(retained', x) = Marked(retained, x) + d
    BY <1>6, <2>1, <2>2, <2>5
  <2>7. entries'[x].strong = entries[x].strong + Gain(t, m, new, x) + d + d + dk
    <3>1. entries'[x].strong = entries[x].strong + (IF x = e THEN 1 ELSE 0)
      BY <1>8
    <3>2. Holds(g, x) = Holds(b, x) + (IF x = e THEN 2 ELSE 0)
      BY <1>13
    <3>3. Gain(t, m, new, x) = Holds(g, x) - Holds(b, x) - Holds(f, x)
      BY <1>17
    <3>4. QED
      BY ONLY <2>1, <2>2, <2>5, <3>1, <3>2, <3>3
  <2>8. Recount(t, m, new, x, d, d, dk)
    BY <2>3, <2>4, <2>6, <2>7 DEF Recount
  <2>9. QED
    BY <1>3, <1>17, <2>8, Recounted
<1>19. \A x \in 1..n : BusyAt(x)'
  <2> SUFFICES ASSUME NEW x \in 1..n PROVE BusyAt(x)'
    OBVIOUS
  <2>1. /\ Runs(stack, t, m + 1, x) <=> b.entry = x
        /\ Runs(stack, t, m + 2, x) <=> f.op = "loader" /\ f.entry = x
    BY <1>2, <1>3 DEF Runs
  <2>2. (Runs(stack', t, m + 1, x) <=> b.entry = x) /\ ~Runs(stack', t, m + 2, x)
    BY <1>3, <1>13, <1>16, <1>17, NewCalls
  <2>3. CASE f.op = "loader" /\ x = e
    <3>1. /\ Runs(stack, t, m + 1, x) \/ Runs(stack, t, m + 2, x)
          /\ ~Runs(stack', t, m + 1, x) /\ ~Runs(stack', t, m + 2, x)
          /\ entries'[x].value # "busy"
      BY <1>3, <1>8, <1>11, <2>1, <2>2, <2>3
    <3>2. QED
      BY <1>3, <1>17, <3>1, StepBusy
  <2>4. CASE ~(f.op = "loader" /\ x = e)
    <3>1. /\ \A i \in {m + 1, m + 2} : Runs(stack', t, i, x) <=> Runs(stack, t, i, x)
          /\ entries'[x].value = "busy" => x \in 1..n /\ entries[x].value = "busy"
      BY <1>3, <1>8, <2>1, <2>2, <2>4
    <3>2. QED
      BY <1>3, <1>17, <3>1, StepBusy
  <2>5. QED
    BY <2>3, <2>4
<1>20. \A x \in 1..n : KeepAt(x)'
  <2> SUFFICES ASSUME NEW x \in 1..n PROVE KeepAt(x)'
    OBVIOUS
  <2>1. CASE x = e
    BY <1>9, <2>1
  <2>2. CASE x # e
    BY <1>3, <1>8, <2>2, KeepKept
  <2>3. QED
    BY <2>1, <2>2
<1>21. HeldReady'
  BY <1>3, <1>6, <1>8, HeldReadyKept
<1>22. RetainerSound'
  <2>1. Unreaping(t, m, new)
    BY <1>2, <1>13, <1>16 DEF Unreaping
  <2>2. QED
    BY <1>3, <1>6, <1>17, <2>1, RetainerKept
<1>23. Rest(n)'
  BY <1>3, <1>6 DEF Rest
<1>24. Follows(new, n)
  <2>1. \A x \in 1..n : entries[x].strong \in Nat
    BY <1>3, Counting
  <2>2. \A x \in 1..n : ~(entries[x].strong > 0 /\ entries'[x].strong = 0)
    BY <1>8, <2>1
  <2>3. QED
    BY <2>2 DEF Follows
<1>25. Unremoving(t, m)
  <2>1. \A i \in DOMAIN stack[t] : i > m => i = m + 1 \/ i = m + 2
    BY <1>2
  <2>2. QED
    BY <1>2, <1>3, <2>1 DEF Unremoving
<1>26. QED
  BY <1>3, <1>17, <1>18, <1>19, <1>20, <1>21, <1>22, <1>23, <1>24, <1>25, MapSameStep

LEMMA FindInitStep ==
  ASSUME IInv, NEW t \in Threads, FindInit(t)
  PROVE  IInv'
<1>1. stack[t] # <<>> /\ Top(t).op = "init"
  BY DEF FindInit, In, Idle
<1>2. PICK n, m, f : Topped(t, m, f, n)
  BY <1>1, TopSetup
<1>3. f = Top(t) /\ f.op = "init" /\ f.rest = <<>>
  BY <1>1, <1>2 DEF Topped, FrameSound
<1>4. PICK e, es : e = f.entry /\ es = entries
  OBVIOUS
<1>5. Result(f, e, es)
  BY <1>3, <1>4 DEF Result, FindInit
<1>6. /\ Returns(t, e, es)
      /\ asset_map' = asset_map /\ used_before' = used_before /\ loads' = loads /\ panics' = panics
  BY <1>3, <1>4 DEF FindInit
<1>7. QED
  BY <1>2, <1>5, <1>6, ReturnsUpStep, ReturnsDownStep

LEMMA FinishInitStep ==
  ASSUME IInv, NEW t \in Threads, FinishInit(t)
  PROVE  IInv'
<1>1. stack[t] # <<>> /\ Top(t).op = "loader"
  BY DEF FinishInit, In, Idle
<1>2. PICK n, m, f : Topped(t, m, f, n)
  BY <1>1, TopSetup
<1>3. f = Top(t) /\ f.op = "loader" /\ f.rest = <<>> /\ LoaderDone(f)
  BY <1>1, <1>2 DEF Topped, FinishInit
<1>4. PICK e, es : e = f.entry /\ es = [entries EXCEPT ![e].value = "ready", ![e].keep = f.keep]
  OBVIOUS
<1>5. Result(f, e, es)
  BY <1>3, <1>4 DEF Result
<1>6. /\ Returns(t, e, es)
      /\ asset_map' = asset_map /\ used_before' = used_before /\ loads' = loads /\ panics' = panics
  BY <1>3, <1>4 DEF FinishInit
<1>7. QED
  BY <1>2, <1>5, <1>6, ReturnsUpStep, ReturnsDownStep

\* The value of an entry changes.
LEMMA BeginInitStep ==
  ASSUME IInv, NEW t \in Threads, BeginInit(t)
  PROVE  IInv'
<1>1. stack[t] # <<>> /\ Top(t).op = "init"
  BY DEF BeginInit, In, Idle
<1>2. PICK n, m, f : Topped(t, m, f, n)
  BY <1>1, TopSetup
<1>3. /\ Types(n) /\ Rest(n) /\ f = Top(t) /\ f.op = "init" /\ f \in FrameOf(n) /\ FrameSound(f, t, m + 1)
      /\ m \in Nat /\ Len(stack[t]) = m + 1 /\ f = stack[t][m + 1]
      /\ FramesSound /\ Nested /\ Counted /\ BusyOnce /\ KeepsSound /\ HeldReady /\ RetainerSound
  BY <1>1, <1>2 DEF Topped, IInv
<1>4. PICK e : e = f.entry
  OBVIOUS
<1>5. PICK g : g = [f EXCEPT !.op = "loader"]
  OBVIOUS
<1>6. /\ entries' = [entries EXCEPT ![e].value = "busy"] /\ entries[e].value = "empty"
      /\ stack' = [stack EXCEPT ![t] = Becomes(@, g)]
      /\ asset_map' = asset_map /\ held' = held /\ retained' = retained /\ used' = used
      /\ used_before' = used_before /\ loads' = loads /\ panics' = panics
  BY <1>3, <1>4, <1>5 DEF BeginInit, Starts
<1>7. e \in 1..n /\ entries[e].key = f.key /\ f.rest = <<>> /\ f.keep = <<>> /\ f.loaded = 0
  BY <1>3, <1>4 DEF FrameSound, Holding, Types
<1>8. entries[e] \in EntryOf(n)
  BY <1>3, <1>7, Counting
<1>9. PICK c : c = [entries[e] EXCEPT !.value = "busy"]
  OBVIOUS
<1>10. /\ c \in EntryOf(n) /\ c.key = entries[e].key /\ c.id = entries[e].id /\ c.strong = entries[e].strong
       /\ c.keep = entries[e].keep /\ c.value = "busy"
  BY <1>8, <1>9 DEF EntryOf
<1>11. OneChanges(e, c, n)
  BY <1>3, <1>6, <1>7, <1>9, <1>10 DEF OneChanges
<1>12. Steady(n, n) /\ \A x \in 1..n : entries'[x] = IF x = e THEN c ELSE entries[x]
  BY <1>11, SteadyOne
<1>13. \A x \in 1..n : /\ entries'[x].keep = entries[x].keep /\ entries'[x].strong = entries[x].strong
                       /\ entries'[x].key = entries[x].key
                       /\ entries'[x].value = IF x = e THEN "busy" ELSE entries[x].value
  BY <1>10, <1>12
<1>14. /\ g \in FrameOf(n) /\ g.op = "loader" /\ g.caller = f.caller /\ g.key = f.key /\ g.entry = e
       /\ g.rest = <<>> /\ g.keep = <<>> /\ g.loaded = 0
  BY <1>3, <1>4, <1>5, <1>7 DEF FrameOf, Ops
<1>15. FrameSound(g, t, m + 1)'
  <2>1. FrameSound(f, t, m + 1)'
    BY <1>3, <1>6, <1>12, FrameKept
  <2>2. f.entry \in Entry' /\ entries'[f.entry].key = f.key
    BY <1>3, <2>1 DEF FrameSound, Holding
  <2>3. /\ f.caller = "loader" => m + 1 > 1
        /\ f.caller = "retainer" => t = Painter
        /\ f.caller # "loader" => m + 1 = 1 /\ \A x \in held'[t] : entries'[x].key # f.key
    BY <1>3, <2>1 DEF FrameSound, LoadOps
  <2>4. 0 <= Len(DependsOn[g.key]) /\ Len(g.keep) = 0 /\ DOMAIN g.keep = {}
    <3>1. g.key \in Keys
      BY <1>14 DEF FrameOf
    <3>2. DependsOn[g.key] \in Seq(Keys)
      BY <3>1, Acyclic
    <3>3. QED
      BY <1>14, <3>2
  <2>5. QED
    BY <1>4, <1>7, <1>13, <1>14, <2>2, <2>3, <2>4 DEF FrameSound, Holding, LoadOps
<1>16. Becoming(t, m, g, n, n)
  <2>1. \A x \in 1..n : ~(entries[x].value = "busy" /\ entries'[x].value # "busy")
    BY <1>13
  <2>2. g.op = "loader" => g.loaded = Len(g.keep)
    BY <1>14
  <2>3. QED
    BY <1>3, <1>6, <1>12, <1>14, <1>15, <2>1, <2>2 DEF Becoming
<1> DEFINE new == <<g>>
<1>17. /\ Step(t, m, <<g>>, n, n) /\ Short(t, m, <<g>>)
       /\ \A x : Gain(t, m, <<g>>, x) = Holds(g, x) - Holds(Top(t), x)
  <2>1. Types(n) /\ FramesSound /\ Nested
    BY <1>3
  <2>2. QED
    BY ONLY <1>16, <2>1, BecomesStep
<1>18. Len(new) = 1 /\ new[1] = g /\ DOMAIN new = 1..1 /\ new # <<>>
  OBVIOUS
<1>19. Step(t, m, new, n, n) /\ Short(t, m, new) /\ \A x : Gain(t, m, new, x) = Holds(g, x) - Holds(f, x)
  BY <1>3, <1>17
<1> HIDE DEF new
<1>20. \A x : Gain(t, m, new, x) = 0
  <2>1. \A x : Holds(g, x) = IF g.entry = x THEN 1 ELSE 0
    BY <1>14, HoldsEntry DEF Holding
  <2>2. \A x : Holds(f, x) = IF f.entry = x THEN 1 ELSE 0
    BY <1>3, <1>7, HoldsEntry DEF Holding
  <2>3. QED
    BY <1>4, <1>14, <1>19, <2>1, <2>2
<1>21. \A x \in 1..n : entries[x].strong \in Nat
  BY <1>3, Counting
<1>22. \A x \in 1..n : CountedAt(x)'
  <2> SUFFICES ASSUME NEW x \in 1..n PROVE CountedAt(x)'
    OBVIOUS
  <2>1. Keeps(entries') = Keeps(entries)
    BY <1>3, <1>12, <1>13, KeepsSame
  <2>2. entries'[x].strong = entries[x].strong + Gain(t, m, new, x)
    BY <1>13, <1>20, <1>21
  <2>3. Marked(retained', x) = Marked(retained, x)
    BY <1>6
  <2>4. QED
    BY <1>3, <1>6, <1>19, <2>1, <2>2, <2>3, StackCounted
<1>23. \A x \in 1..n : BusyAt(x)'
  <2> SUFFICES ASSUME NEW x \in 1..n PROVE BusyAt(x)'
    OBVIOUS
  <2>1. ~Runs(stack, t, m + 1, x) /\ ~Runs(stack, t, m + 2, x)
    <3>1. f.op \notin {"loader", "unwind"}
      BY <1>3
    <3>2. t \in Threads /\ Types(n) /\ m \in Nat /\ Len(stack[t]) = m + 1 /\ f = stack[t][Len(stack[t])]
      BY <1>3
    <3>3. QED
      BY <3>1, <3>2, OldRuns
  <2>2. (Runs(stack', t, m + 1, x) <=> e = x) /\ ~Runs(stack', t, m + 2, x)
    <3>1. /\ Runs(stack', t, m + 1, x) <=> Len(new) >= 1 /\ new[1].op \in {"loader", "unwind"} /\ new[1].entry = x
          /\ Runs(stack', t, m + 2, x) <=> Len(new) >= 2 /\ new[2].op \in {"loader", "unwind"} /\ new[2].entry = x
      BY <1>3, <1>19, NewCalls
    <3>2. QED
      BY <1>14, <1>18, <3>1
  <2>3. CASE x = e
    <3>1. /\ x \in 1..n /\ entries[x].value # "busy"
          /\ Runs(stack', t, m + 1, x) /\ ~Runs(stack', t, m + 2, x)
      BY <1>6, <2>2, <2>3
    <3>2. QED
      BY <1>3, <1>19, <3>1, StepBusy
  <2>4. CASE x # e
    <3>1. /\ \A i \in {m + 1, m + 2} : Runs(stack', t, i, x) <=> Runs(stack, t, i, x)
          /\ entries'[x].value = "busy" => x \in 1..n /\ entries[x].value = "busy"
      BY <1>13, <2>1, <2>2, <2>4
    <3>2. QED
      BY <1>3, <1>19, <3>1, StepBusy
  <2>5. QED
    BY <2>3, <2>4
<1>24. \A x \in 1..n : KeepAt(x)'
  <2>1. \A x \in 1..n : entries'[x].keep = entries[x].keep /\ (entries'[x].value = "ready" => entries[x].value = "ready")
    BY <1>13
  <2>2. QED
    BY <1>3, <1>12, <2>1, KeepKept
<1>25. HeldReady'
  BY <1>3, <1>6, <1>12, HeldReadyKept
<1>26. RetainerSound'
  <2>1. Unreaping(t, m, new)
    BY <1>2, <1>3, <1>14, <1>18, TopUnlike
  <2>2. QED
    BY <1>3, <1>6, <1>19, <2>1, RetainerKept
<1>27. Rest(n)'
  BY <1>3, <1>6 DEF Rest
<1>28. Follows(new, n)
  <2>1. \A x \in 1..n : ~(entries[x].strong > 0 /\ entries'[x].strong = 0)
    BY <1>13, <1>21
  <2>2. QED
    BY <2>1 DEF Follows
<1>29. Unremoving(t, m)
  BY <1>2, <1>3, TopUnlike
<1>30. QED
  BY <1>3, <1>6, <1>19, <1>22, <1>23, <1>24, <1>25, <1>26, <1>27, <1>28, <1>29, MapSameStep

\* An idle thread stays idle.
LEMMA StayStep ==
  ASSUME NEW n, Types(n), NEW t \in Threads, NEW m, m = 0, stack[t] = <<>>, Steady(n, n), stack' = stack,
         \A u \in Threads : u # t => held'[u] \subseteq held[u],
         \A e \in 1..n : entries[e].value = "busy" => entries'[e].value = "busy"
  PROVE  /\ Step(t, m, <<>>, n, n) /\ Short(t, m, <<>>)
         /\ \A e : Gain(t, m, <<>>, e) = 0
<1>1. stack \in [Threads -> Seq(FrameOf(n))] /\ Len(stack[t]) = m
  BY DEF Types
<1>2. stack' = [stack EXCEPT ![t] = Cut(stack[t], m, <<>>)]
  <2>1. PICK F, s : F = FrameOf(n) /\ s = stack[t]
    OBVIOUS
  <2>2. s \in Seq(F)
    BY <1>1, <2>1
  <2>3. Cuttable(F, s, m, <<>>)
    BY <1>1, <2>1, <2>2 DEF Cuttable
  <2>4. Cut(s, m, <<>>) \in Seq(F) /\ Len(Cut(s, m, <<>>)) = m + Len(<<>>)
    BY <2>3, CutIs
  <2>5. Cut(s, m, <<>>) = <<>>
    BY <2>4
  <2>6. QED
    BY <1>1, <2>1, <2>5
<1> DEFINE new == <<>>
<1>3. Len(new) = 0 /\ DOMAIN new = {} /\ new \in Seq(FrameOf(n)) /\ new = <<>>
  OBVIOUS
<1> HIDE DEF new
<1>4. Step(t, m, new, n, n)
  <2>1. m \in Nat /\ m <= Len(stack[t]) /\ ~(m > 0) /\ t \in Threads
    BY <1>1
  <2>2. stack' = [stack EXCEPT ![t] = Cut(stack[t], m, new)]
    BY <1>2 DEF new
  <2>3. \A i \in DOMAIN new : FrameSound(new[i], t, m + i)' /\ NestedAt(new, i)
    BY <1>3
  <2>4. QED
    BY <1>3, <2>1, <2>2, <2>3 DEF Step
<1>5. Short(t, m, new)
  BY <1>1, <1>3 DEF Short
<1>6. \A e : Gain(t, m, new, e) = 0
  <2>1. \A e : HoldsAt(stack, t, m + 1, e) = 0 /\ HoldsAt(stack, t, m + 2, e) = 0
    BY <1>1, OldCalls
  <2>2. QED
    BY <1>3, <2>1 DEF Gain
<1>7. QED
  BY <1>4, <1>5, <1>6 DEF new

\* What a thread does once it has dropped e.
Dropped(t, e, new) ==
  IF entries'[e].strong = 0
  THEN Len(new) = 1 /\ DOMAIN new = 1..1 /\ new[1].op = "remove" /\ new[1].entry = e /\ new[1].caller = "user"
  ELSE Len(new) = 0

LEMMA DropHeld ==
  ASSUME IInv, NEW n, Types(n), Rest(n), NEW t \in Threads, NEW m, m = 0, stack[t] = <<>>, NEW new,
         Step(t, m, new, n, n), Short(t, m, new), \A x : Gain(t, m, new, x) = 0,
         NEW e \in 1..n, e \in held[t], entries[e].strong > 0, Dropped(t, e, new),
         entries' = Released(entries, e), held' = [held EXCEPT ![t] = @ \ {e}],
         UNCHANGED <<asset_map, retained, used, used_before, loads, panics>>
  PROVE  IInv'
<1>1. FramesSound /\ Nested /\ Counted /\ BusyOnce /\ KeepsSound /\ HeldReady /\ RetainerSound
  BY DEF IInv
<1>2. /\ Steady(n, n)
      /\ \A x \in 1..n : /\ entries'[x].keep = entries[x].keep /\ entries'[x].value = entries[x].value
                         /\ entries'[x].strong = entries[x].strong - (IF e = x THEN 1 ELSE 0)
  BY SteadyReleased
<1>3. \A x \in 1..n : entries[x].strong \in Nat
  BY Counting
<1>4. \A x \in 1..n : CountedAt(x)'
  <2> SUFFICES ASSUME NEW x \in 1..n PROVE CountedAt(x)'
    OBVIOUS
  <2>1. PICK d : d = 0
    OBVIOUS
  <2>2. PICK dh : dh = 0 - (IF x = e THEN 1 ELSE 0)
    OBVIOUS
  <2>3. HeldBecomes(x, dh)
    BY <1>1, <2>2, HeldLoses
  <2>4. Keeps(entries') = Keeps(entries)
    BY <1>2, KeepsSame
  <2>5. KeptBecomes(x, d)
    BY <1>1, <2>1, <2>4, OwnersSame
  <2>6. d \in Int /\ dh \in Int /\ Marked(retained, x) \in Nat
    BY <2>1, <2>2 DEF Marked
  <2>7. Marked(retained', x) = Marked(retained, x) + d
    BY <2>1, <2>6
  <2>8. entries'[x].strong = entries[x].strong + Gain(t, m, new, x) + dh + d + d
    BY <1>2, <1>3, <2>1, <2>2
  <2>9. Recount(t, m, new, x, dh, d, d)
    BY <2>3, <2>5, <2>6, <2>7, <2>8 DEF Recount
  <2>10. QED
    BY <1>1, <2>9, Recounted
<1>5. \A x \in 1..n : BusyAt(x)'
  <2> SUFFICES ASSUME NEW x \in 1..n PROVE BusyAt(x)'
    OBVIOUS
  <2>1. ~Runs(stack, t, m + 1, x) /\ ~Runs(stack, t, m + 2, x)
    BY DEF Runs
  <2>2. /\ Runs(stack', t, m + 1, x) <=> Len(new) >= 1 /\ new[1].op \in {"loader", "unwind"} /\ new[1].entry = x
        /\ Runs(stack', t, m + 2, x) <=> Len(new) >= 2 /\ new[2].op \in {"loader", "unwind"} /\ new[2].entry = x
    BY NewCalls
  <2>3. /\ \A i \in {m + 1, m + 2} : Runs(stack', t, i, x) <=> Runs(stack, t, i, x)
        /\ entries'[x].value = "busy" => x \in 1..n /\ entries[x].value = "busy"
    BY <1>2, <2>1, <2>2 DEF Dropped
  <2>4. QED
    BY <1>1, <2>3, StepBusy
<1>6. \A x \in 1..n : KeepAt(x)'
  BY <1>1, <1>2, KeepKept
<1>7. held' \in [Threads -> SUBSET (1..n)] /\ \A u \in Threads : held'[u] \subseteq held[u]
  BY DEF Types
<1>8. HeldReady'
  BY <1>1, <1>2, <1>7, HeldReadyKept
<1>9. RetainerSound'
  <2>1. Unreaping(t, m, new)
    <3>1. new # <<>> => new[1].op # "reap"
      <4>1. new \in Seq(FrameOf(n))
        BY DEF Step
      <4>2. QED
        BY <4>1 DEF Dropped
    <3>2. QED
      BY <3>1 DEF Unreaping
  <2>2. QED
    BY <1>1, <2>1, RetainerKept
<1>10. Rest(n)'
  BY <1>7 DEF Rest
<1>11. Follows(new, n)
  <2>1. \A x \in 1..n : entries[x].strong > 0 /\ entries'[x].strong = 0 => x = e
    BY <1>2, <1>3
  <2>2. QED
    BY <2>1 DEF Follows, Dropped
<1>12. Unremoving(t, m)
  BY DEF Unremoving
<1>13. asset_map' = asset_map
  OBVIOUS
<1>14. QED
  BY <1>4, <1>5, <1>6, <1>8, <1>9, <1>10, <1>11, <1>12, <1>13, MapSameStep

LEMMA DropStep ==
  ASSUME IInv, NEW t \in Threads, NEW e \in held[t], Drop(t, e)
  PROVE  IInv'
<1>1. PICK n : Types(n) /\ Rest(n) /\ n = Len(entries)
  BY IdleSetup
<1>2. /\ stack[t] = <<>> /\ held' = [held EXCEPT ![t] = @ \ {e}] /\ entries' = Released(entries, e)
      /\ stack' = [stack EXCEPT ![t] = Dropping(@, entries, e)]
      /\ UNCHANGED <<asset_map, retained, used, used_before, loads, panics>>
  BY DEF Drop, Idle
<1>3. e \in 1..n
  BY <1>1 DEF Types
<1>4. Counted /\ FramesSound /\ Nested
  BY DEF IInv
<1>5. entries[e].strong > 0
  BY <1>1, <1>3, <1>4, OwnedAlive
<1>6. /\ Steady(n, n)
      /\ \A x \in 1..n : /\ entries'[x].keep = entries[x].keep /\ entries'[x].value = entries[x].value
                         /\ entries'[x].strong = entries[x].strong - (IF e = x THEN 1 ELSE 0)
  BY <1>1, <1>2, <1>3, <1>5, SteadyReleased
<1>7. \A u \in Threads : held'[u] \subseteq held[u]
  BY <1>1, <1>2 DEF Types
<1>8. Released(entries, e)[e].strong = entries'[e].strong
  BY <1>2
<1>9. PICK m : m = 0
  OBVIOUS
<1>10. \A x \in 1..n : entries[x].value = "busy" => entries'[x].value = "busy"
  BY <1>6
<1>11. CASE entries'[e].strong # 0
  <2>1. stack' = stack
    <3>1. stack' = [stack EXCEPT ![t] = stack[t]]
      BY <1>2, <1>8, <1>11 DEF Dropping
    <3>2. stack \in [Threads -> Seq(FrameOf(n))]
      BY <1>1 DEF Types
    <3>3. QED
      BY <3>1, <3>2
  <2>2. PICK new : new = <<>>
    OBVIOUS
  <2>3. /\ Step(t, m, <<>>, n, n) /\ Short(t, m, <<>>)
        /\ \A x : Gain(t, m, <<>>, x) = 0
    BY <1>1, <1>2, <1>6, <1>7, <1>9, <1>10, <2>1, StayStep
  <2>4. Step(t, m, new, n, n) /\ Short(t, m, new) /\ \A x : Gain(t, m, new, x) = 0
    BY <2>2, <2>3
  <2>5. Dropped(t, e, new)
    BY <1>11, <2>2 DEF Dropped
  <2>6. QED
    BY <1>1, <1>2, <1>3, <1>5, <1>9, <2>4, <2>5, DropHeld
<1>12. CASE entries'[e].strong = 0
  <2>1. PICK op, c, k : op = "remove" /\ c = "user" /\ k = entries[e].key
    OBVIOUS
  <2>2. PICK h : h = Frame(op, c, k, e)
    OBVIOUS
  <2>3. op \in Ops /\ c \in Callers /\ k \in Keys /\ e \in (1..n) \cup {NoEntry} /\ n \in Nat
    BY <1>1, <1>3, <2>1, Counting DEF Ops, Callers, Types
  <2>4. h \in FrameOf(n) /\ h.op = "remove" /\ h.caller = "user" /\ h.key = k /\ h.entry = e /\ h.rest = <<>>
    BY <2>1, <2>2, <2>3, AFrame
  <2>5. stack' = [stack EXCEPT ![t] = Append(@, h)]
    BY <1>2, <1>8, <1>12, <2>1, <2>2 DEF Dropping
  <2>6. FrameSound(h, t, 1)'
    <3>1. e \in Entry' /\ entries'[e].strong = 0
      BY <1>3, <1>6, <1>12 DEF Entry, Steady
    <3>2. FrameSound(Frame("remove", "user", k, e), t, 1)'
      BY <3>1, RemoverSound
    <3>3. QED
      BY <2>1, <2>2, <3>2
  <2>7. Pushing(t, m, h, n)
    BY <1>2, <1>6, <1>7, <1>9, <1>10, <2>4, <2>5, <2>6 DEF Pushing
  <2>8. PICK new : new = <<h>>
    OBVIOUS
  <2>9. /\ Step(t, m, <<h>>, n, n) /\ Short(t, m, <<h>>)
        /\ \A x : Gain(t, m, <<h>>, x) = Holds(h, x)
    BY <1>1, <2>7, PushStep
  <2>10. \A x : Holds(h, x) = 0
    BY <2>4, HoldsNothing DEF Holding
  <2>11. Step(t, m, new, n, n) /\ Short(t, m, new) /\ \A x : Gain(t, m, new, x) = 0
    BY <2>8, <2>9, <2>10
  <2>12. Dropped(t, e, new)
    BY <1>12, <2>4, <2>8 DEF Dropped
  <2>13. QED
    BY <1>1, <1>2, <1>3, <1>5, <1>9, <2>11, <2>12, DropHeld
<1>13. QED
  BY <1>11, <1>12

\* The entry that the map has for the key of e is e.
LEMMA OwnIs ==
  ASSUME NEW n, Types(n), KeepsSound, MapSound, NEW e \in 1..n, NEW k \in DOMAIN asset_map
  PROVE  /\ asset_map[k].weak = e => IsOwn(e) /\ k = entries[e].key
         /\ IsOwn(e) => asset_map[entries[e].key].weak = e
<1>1. entries[e].id = e
  BY DEF KeepsSound, Types
<1>2. asset_map[k].weak = e => asset_map[k].id = e /\ entries[e].key = k
  BY DEF MapSound
<1>3. IsOwn(e) => asset_map[entries[e].key].id = asset_map[entries[e].key].weak
  BY DEF IsOwn, MapSound
<1>4. asset_map[k].weak = e => IsOwn(e) /\ k = entries[e].key
  <2> SUFFICES ASSUME asset_map[k].weak = e PROVE IsOwn(e) /\ k = entries[e].key
    OBVIOUS
  <2>1. asset_map[k].id = e /\ entries[e].key = k
    BY <1>2
  <2>2. entries[e].key \in DOMAIN asset_map /\ asset_map[entries[e].key].id = entries[e].id
    BY <1>1, <2>1
  <2>3. QED
    BY <2>1, <2>2 DEF IsOwn
<1>5. IsOwn(e) => asset_map[entries[e].key].weak = e
  <2> SUFFICES ASSUME IsOwn(e) PROVE asset_map[entries[e].key].weak = e
    OBVIOUS
  <2>1. asset_map[entries[e].key].id = entries[e].id
    BY DEF IsOwn
  <2>2. QED
    BY <1>1, <1>3, <2>1
<1>6. QED
  BY <1>4, <1>5

LEMMA RemoveEntryStep ==
  ASSUME IInv, NEW t \in Threads, RemoveEntry(t)
  PROVE  IInv'
<1>1. stack[t] # <<>> /\ Top(t).op = "remove"
  BY DEF RemoveEntry, In, Idle
<1>2. PICK n, m, f : Topped(t, m, f, n)
  BY <1>1, TopSetup
<1>3. /\ Types(n) /\ Rest(n) /\ f = Top(t) /\ f.op = "remove" /\ f \in FrameOf(n) /\ FrameSound(f, t, m + 1)
      /\ m \in Nat /\ Len(stack[t]) = m + 1 /\ f = stack[t][m + 1] /\ DOMAIN stack[t] = 1..(m + 1)
      /\ FramesSound /\ Nested /\ Counted /\ BusyOnce /\ KeepsSound /\ HeldReady /\ RetainerSound
      /\ MapSound /\ LiveIsShared /\ NothingLeaks
  BY <1>1, <1>2 DEF Topped, IInv
<1>4. PICK e : e = f.entry
  OBVIOUS
<1>5. e \in 1..n /\ entries[e].strong = 0 /\ f.rest = <<>> /\ f.caller # "loader" /\ f.caller # "retainer"
  BY <1>3, <1>4 DEF FrameSound, Types, LoadOps
<1>6. PICK g : g = [f EXCEPT !.op = "fields", !.rest = entries[e].keep]
  OBVIOUS
<1>7. /\ asset_map' = IF IsOwn(e) THEN [k \in DOMAIN asset_map \ {entries[e].key} |-> asset_map[k]] ELSE asset_map
      /\ stack' = [stack EXCEPT ![t] = Becomes(@, g)]
      /\ entries' = [entries EXCEPT ![e].keep = <<>>]
      /\ held' = held /\ retained' = retained /\ used' = used
      /\ used_before' = used_before /\ loads' = loads /\ panics' = panics
  BY <1>3, <1>4, <1>6 DEF RemoveEntry
<1>8. entries[e] \in EntryOf(n) /\ entries[e].keep \in Seq(1..n)
  BY <1>3, <1>5, Counting
<1>9. PICK c : c = [entries[e] EXCEPT !.keep = <<>>]
  OBVIOUS
<1>10. /\ c \in EntryOf(n) /\ c.key = entries[e].key /\ c.id = entries[e].id /\ c.strong = entries[e].strong
       /\ c.keep = <<>> /\ c.value = entries[e].value
  <2>1. <<>> \in Seq(1..n)
    OBVIOUS
  <2>2. entries[e] \in EntryOf(n)
    BY <1>8
  <2>3. PICK none : none = <<>>
    OBVIOUS
  <2>4. c = [entries[e] EXCEPT !.keep = none] /\ none \in Seq(1..n)
    BY <1>9, <2>1, <2>3
  <2>5. /\ c \in EntryOf(n) /\ c.key = entries[e].key /\ c.id = entries[e].id /\ c.strong = entries[e].strong
        /\ c.keep = none /\ c.value = entries[e].value
    BY <2>2, <2>4 DEF EntryOf
  <2>6. QED
    BY <2>3, <2>5
<1>11. OneChanges(e, c, n)
  BY <1>3, <1>5, <1>7, <1>9, <1>10 DEF OneChanges
<1>12. Steady(n, n) /\ \A x \in 1..n : entries'[x] = IF x = e THEN c ELSE entries[x]
  BY <1>11, SteadyOne
<1>13. \A x \in 1..n : /\ x # e => entries'[x].keep = entries[x].keep
                       /\ entries'[x].strong = entries[x].strong
                       /\ entries'[x].key = entries[x].key /\ entries'[x].id = entries[x].id
                       /\ entries'[x].value = entries[x].value
  BY <1>10, <1>12
<1>14. entries'[e].keep = <<>>
  BY <1>5, <1>10, <1>12
<1>15. /\ g \in FrameOf(n) /\ g.op = "fields" /\ g.caller = f.caller /\ g.key = f.key /\ g.entry = e
       /\ g.rest = entries[e].keep /\ g.keep = f.keep /\ g.loaded = f.loaded
  BY <1>3, <1>4, <1>6, <1>8 DEF FrameOf, Ops
<1>16. FrameSound(g, t, m + 1)'
  <2>1. e \in Entry' /\ entries'[e].strong = 0
    BY <1>5, <1>12, <1>13 DEF Entry, Steady
  <2>2. QED
    BY <1>5, <1>15, <2>1 DEF FrameSound, Holding, LoadOps
<1>17. Becoming(t, m, g, n, n)
  <2>1. \A x \in 1..n : ~(entries[x].value = "busy" /\ entries'[x].value # "busy")
    BY <1>13
  <2>2. g.caller # "loader" /\ Top(t).caller # "loader"
    BY <1>3, <1>5, <1>15
  <2>3. QED
    BY <1>3, <1>7, <1>12, <1>15, <1>16, <2>1, <2>2 DEF Becoming
<1> DEFINE new == <<g>>
<1>18. /\ Step(t, m, <<g>>, n, n) /\ Short(t, m, <<g>>)
       /\ \A x : Gain(t, m, <<g>>, x) = Holds(g, x) - Holds(Top(t), x)
  <2>1. Types(n) /\ FramesSound /\ Nested
    BY <1>3
  <2>2. QED
    BY ONLY <1>17, <2>1, BecomesStep
<1>19. Len(new) = 1 /\ new[1] = g /\ DOMAIN new = 1..1 /\ new # <<>>
  OBVIOUS
<1>20. Step(t, m, new, n, n) /\ Short(t, m, new) /\ \A x : Gain(t, m, new, x) = Holds(g, x) - Holds(f, x)
  BY <1>3, <1>18
<1> HIDE DEF new
<1>21. \A x \in 1..n : Gain(t, m, new, x) = Occ(entries[e].keep, x) /\ Occ(entries[e].keep, x) \in Nat
  <2> SUFFICES ASSUME NEW x \in 1..n
               PROVE  Gain(t, m, new, x) = Occ(entries[e].keep, x) /\ Occ(entries[e].keep, x) \in Nat
    OBVIOUS
  <2>1. Occ(entries[e].keep, x) \in Nat
    BY <1>8, PlacesFinite
  <2>2. Holds(g, x) = Occ(entries[e].keep, x)
    BY <1>15, <2>1 DEF Holds, Holding
  <2>3. Holds(f, x) = 0
    BY <1>3, <1>5, HoldsNothing DEF Holding
  <2>4. QED
    BY <1>20, <2>1, <2>2, <2>3
<1>22. \A x \in 1..n : entries[x].strong \in Nat
  BY <1>3, Counting
<1>23. TypeOK' /\ Entry' = 1..n
  <2>1. Rest(n)'
    <3>1. /\ DOMAIN asset_map' \subseteq DOMAIN asset_map
          /\ \A k \in DOMAIN asset_map' : asset_map'[k] = asset_map[k]
      BY <1>7
    <3>2. QED
      BY <1>3, <1>7, <3>1 DEF Rest
  <2>2. QED
    BY <1>3, <1>20, <2>1, StepTypes
<1>24. FramesSound' /\ Nested'
  BY <1>3, <1>20, StepFrames, StepNested
<1>25. Counted'
  <2>1. ASSUME NEW x \in 1..n PROVE CountedAt(x)'
    <3>1. PICK d : d = 0
      OBVIOUS
    <3>2. PICK dk : dk = Occ(entries'[e].keep, x) - Occ(entries[e].keep, x)
      OBVIOUS
    <3>3. KeptBecomes(x, dk)
      BY <1>3, <1>5, <1>12, <1>13, <3>2, KeepOf
    <3>4. HeldBecomes(x, d)
      BY <1>3, <1>7, <3>1, OwnersSame
    <3>5. dk = 0 - Occ(entries[e].keep, x)
      BY <1>14, <1>21, <3>2, OccEmpty
    <3>6. dk \in Int /\ d \in Int /\ Marked(retained, x) \in Nat
      BY <1>21, <3>1, <3>5 DEF Marked
    <3>7. Marked(retained', x) = Marked(retained, x) + d
      BY <1>7, <3>1, <3>6
    <3>8. entries'[x].strong = entries[x].strong + Gain(t, m, new, x) + d + d + dk
      BY <1>13, <1>21, <1>22, <3>1, <3>5
    <3>9. Recount(t, m, new, x, d, d, dk)
      BY <3>3, <3>4, <3>6, <3>7, <3>8 DEF Recount
    <3>10. QED
      BY <1>3, <1>20, <3>9, Recounted
  <2>2. QED
    BY <1>23, <2>1 DEF Counted
<1>26. BusyOnce'
  <2>1. ASSUME NEW x \in 1..n PROVE BusyAt(x)'
    <3>1. ~Runs(stack, t, m + 1, x) /\ ~Runs(stack, t, m + 2, x)
      <4>1. f.op \notin {"loader", "unwind"}
        BY <1>3
      <4>2. t \in Threads /\ Types(n) /\ m \in Nat /\ Len(stack[t]) = m + 1 /\ f = stack[t][Len(stack[t])]
        BY <1>3
      <4>3. QED
        BY <4>1, <4>2, OldRuns
    <3>2. ~Runs(stack', t, m + 1, x) /\ ~Runs(stack', t, m + 2, x)
      <4>1. /\ Runs(stack', t, m + 1, x) <=> Len(new) >= 1 /\ new[1].op \in {"loader", "unwind"} /\ new[1].entry = x
            /\ Runs(stack', t, m + 2, x) <=> Len(new) >= 2 /\ new[2].op \in {"loader", "unwind"} /\ new[2].entry = x
        BY <1>3, <1>20, NewCalls
      <4>2. QED
        BY <1>15, <1>19, <4>1
    <3>3. /\ \A i \in {m + 1, m + 2} : Runs(stack', t, i, x) <=> Runs(stack, t, i, x)
          /\ entries'[x].value = "busy" => x \in 1..n /\ entries[x].value = "busy"
      BY <1>13, <3>1, <3>2
    <3>4. QED
      BY <1>3, <1>20, <3>3, StepBusy
  <2>2. QED
    BY <1>23, <2>1 DEF BusyOnce, BusyAt
<1>27. KeepsSound'
  <2>1. ASSUME NEW x \in 1..n PROVE KeepAt(x)'
    <3>1. CASE x = e
      <4>1. entries'[e].id = e /\ entries'[e].strong = 0 /\ entries'[e].keep = <<>>
        BY <1>3, <1>5, <1>13, <1>14 DEF KeepsSound, Types
      <4>2. QED
        BY <3>1, <4>1 DEF KeepAt, Alive
    <3>2. CASE x # e
      BY <1>3, <1>12, <1>13, <3>2, KeepKept
    <3>3. QED
      BY <3>1, <3>2
  <2>2. QED
    BY <1>23, <2>1 DEF KeepsSound, KeepAt
<1>28. HeldReady'
  BY <1>3, <1>7, <1>12, HeldReadyKept
<1>29. RetainerSound'
  <2>1. Unreaping(t, m, new)
    BY <1>2, <1>3, <1>15, <1>19, TopUnlike
  <2>2. QED
    BY <1>3, <1>7, <1>20, <2>1, RetainerKept
<1>30. \A k \in DOMAIN asset_map' :
         k \in DOMAIN asset_map /\ asset_map'[k] = asset_map[k] /\ (IsOwn(e) => k # entries[e].key)
  BY <1>7
<1>31. MapSound'
  BY <1>3, <1>13, <1>30 DEF MapSound, Rest
<1>32. LiveIsShared'
  <2>1. ASSUME NEW x \in 1..n, entries'[x].strong > 0
        PROVE  entries'[x].key \in DOMAIN asset_map' /\ asset_map'[entries'[x].key] = [id |-> entries'[x].id, weak |-> x]
    <3>1. entries[x].strong > 0 /\ x # e
      BY <1>5, <1>13, <2>1
    <3>2. entries[x].key \in DOMAIN asset_map /\ asset_map[entries[x].key] = [id |-> entries[x].id, weak |-> x]
      BY <1>3, <3>1 DEF LiveIsShared, Alive, Types
    <3>3. IsOwn(e) => asset_map[entries[e].key].weak = e
      BY <1>3, <1>5, <3>2, OwnIs
    <3>4. IsOwn(e) => entries[e].key # entries[x].key
      BY <3>1, <3>2, <3>3
    <3>5. QED
      BY <1>7, <1>13, <3>2, <3>4
  <2>2. QED
    BY <1>23, <2>1 DEF LiveIsShared, Alive, Entry
<1>33. NothingLeaks'
  <2>1. ASSUME NEW k \in DOMAIN asset_map' PROVE LeaksNotAt(k)'
    <3>1. k \in DOMAIN asset_map /\ asset_map'[k] = asset_map[k] /\ (IsOwn(e) => k # entries[e].key)
      BY <1>30, <2>1
    <3>2. LeaksNotAt(k)
      BY <1>3, <3>1 DEF NothingLeaks, LeaksNotAt
    <3>3. asset_map[k].weak # e
      BY <1>3, <1>5, <3>1, OwnIs
    <3>4. \A i \in DOMAIN stack[t] : i > m /\ stack[t][i].op = "remove" => stack[t][i].entry # asset_map[k].weak
      <4>1. \A i \in DOMAIN stack[t] : i > m => i = m + 1
        BY <1>3
      <4>2. QED
        BY <1>3, <1>4, <3>3, <4>1
    <3>5. Follows(new, n)
      BY <1>13, <1>22 DEF Follows
    <3>6. QED
      BY <1>3, <1>20, <3>1, <3>2, <3>4, <3>5, LeaksKept
  <2>2. QED
    BY <2>1 DEF NothingLeaks, LeaksNotAt
<1>34. QED
  BY <1>23, <1>24, <1>25, <1>26, <1>27, <1>28, <1>29, <1>31, <1>32, <1>33 DEF IInv

\* The entry of a loader that panicked is empty again, and the call owns it no more.
Emptied(e, n) ==
  /\ Types(n) /\ Rest(n)
  /\ e \in 1..n /\ entries[e].value = "busy" /\ entries[e].strong > 0
  /\ Steady(n, n)
  /\ entries'[e].value = "empty"
  /\ \A x \in 1..n : /\ x # e => entries'[x].value = entries[x].value
                     /\ entries'[x].keep = entries[x].keep
                     /\ entries'[x].strong = entries[x].strong - (IF x = e THEN 1 ELSE 0)
  /\ UNCHANGED <<asset_map, held, retained, used, used_before, loads, panics>>

\* The calls that run the loaders of other entries stay, and that of e ends.
RunEnds(t, m, e, n) ==
  /\ Runs(stack, t, m + 1, e) \/ Runs(stack, t, m + 2, e)
  /\ ~Runs(stack', t, m + 1, e) /\ ~Runs(stack', t, m + 2, e)
  /\ \A x \in 1..n : x # e => \A i \in {m + 1, m + 2} : Runs(stack', t, i, x) <=> Runs(stack, t, i, x)

LEMMA EmptiedStep ==
  ASSUME IInv, NEW t, NEW m, NEW e, NEW n, Emptied(e, n), NEW new, Step(t, m, new, n, n), Short(t, m, new),
         RunEnds(t, m, e, n), \A x : Gain(t, m, new, x) = 0 - (IF x = e THEN 1 ELSE 0),
         Follows(new, n), Unremoving(t, m), Unreaping(t, m, new)
  PROVE  IInv'
<1>1. FramesSound /\ Nested /\ Counted /\ BusyOnce /\ KeepsSound /\ HeldReady /\ RetainerSound
  BY DEF IInv
<1>2. /\ Types(n) /\ Rest(n) /\ e \in 1..n /\ entries[e].value = "busy" /\ Steady(n, n)
      /\ entries'[e].value = "empty"
      /\ \A x \in 1..n : /\ x # e => entries'[x].value = entries[x].value
                         /\ entries'[x].keep = entries[x].keep
                         /\ entries'[x].strong = entries[x].strong - (IF x = e THEN 1 ELSE 0)
      /\ UNCHANGED <<asset_map, held, retained, used, used_before, loads, panics>>
  BY DEF Emptied
<1>3. \A x \in 1..n : entries[x].strong \in Nat
  BY <1>2, Counting
<1>4. \A x \in 1..n : CountedAt(x)'
  <2> SUFFICES ASSUME NEW x \in 1..n PROVE CountedAt(x)'
    OBVIOUS
  <2>1. Keeps(entries') = Keeps(entries)
    BY <1>2, KeepsSame
  <2>2. entries'[x].strong = entries[x].strong + Gain(t, m, new, x)
    BY <1>2, <1>3
  <2>3. Marked(retained', x) = Marked(retained, x) /\ held' = held
    BY <1>2
  <2>4. QED
    BY <1>1, <1>2, <2>1, <2>2, <2>3, StackCounted
<1>5. \A x \in 1..n : BusyAt(x)'
  <2> SUFFICES ASSUME NEW x \in 1..n PROVE BusyAt(x)'
    OBVIOUS
  <2>1. CASE x = e
    <3>1. /\ Runs(stack, t, m + 1, x) \/ Runs(stack, t, m + 2, x)
          /\ ~Runs(stack', t, m + 1, x) /\ ~Runs(stack', t, m + 2, x)
          /\ entries'[x].value # "busy"
      BY <1>2, <2>1 DEF RunEnds
    <3>2. QED
      BY <1>1, <1>2, <3>1, StepBusy
  <2>2. CASE x # e
    <3>1. /\ \A i \in {m + 1, m + 2} : Runs(stack', t, i, x) <=> Runs(stack, t, i, x)
          /\ entries'[x].value = "busy" => x \in 1..n /\ entries[x].value = "busy"
      BY <1>2, <2>2 DEF RunEnds
    <3>2. QED
      BY <1>1, <1>2, <3>1, StepBusy
  <2>3. QED
    BY <2>1, <2>2
<1>6. \A x \in 1..n : KeepAt(x)'
  <2>1. \A x \in 1..n : entries'[x].keep = entries[x].keep /\ (entries'[x].value = "ready" => entries[x].value = "ready")
    BY <1>2
  <2>2. QED
    BY <1>1, <1>2, <2>1, KeepKept
<1>7. HeldReady'
  BY <1>1, <1>2, HeldReadyKept
<1>8. RetainerSound'
  BY <1>1, <1>2, RetainerKept
<1>9. Rest(n)'
  BY <1>2 DEF Rest
<1>10. QED
  BY <1>2, <1>4, <1>5, <1>6, <1>7, <1>8, <1>9, MapSameStep

\* The remover of an entry that has no owner left.
LEMMA RemoverIs ==
  ASSUME NEW e, NEW n, Emptied(e, n)
  PROVE  \E h : /\ h = Frame("remove", "user", entries[e].key, e)
                /\ h \in FrameOf(n) /\ h.op = "remove" /\ h.caller = "user" /\ h.entry = e
                /\ \A x : Holds(h, x) = 0
                /\ \A t, i : entries'[e].strong = 0 => FrameSound(h, t, i)'
<1>1. Types(n) /\ e \in 1..n /\ Steady(n, n)
  BY DEF Emptied
<1>2. PICK op, c, k : op = "remove" /\ c = "user" /\ k = entries[e].key
  OBVIOUS
<1>3. PICK h : h = Frame(op, c, k, e)
  OBVIOUS
<1>4. op \in Ops /\ c \in Callers /\ k \in Keys /\ e \in (1..n) \cup {NoEntry} /\ n \in Nat
  BY <1>1, <1>2, Counting DEF Ops, Callers, Types
<1>5. h \in FrameOf(n) /\ h.op = "remove" /\ h.caller = "user" /\ h.key = k /\ h.entry = e /\ h.rest = <<>>
  BY <1>2, <1>3, <1>4, AFrame
<1>6. \A x : Holds(h, x) = 0
  BY <1>5, HoldsNothing DEF Holding
<1>7. \A t, i : entries'[e].strong = 0 => FrameSound(h, t, i)'
  <2> SUFFICES ASSUME NEW t, NEW i, entries'[e].strong = 0 PROVE FrameSound(h, t, i)'
    OBVIOUS
  <2>1. e \in Entry'
    BY <1>1 DEF Entry, Steady
  <2>2. FrameSound(Frame("remove", "user", k, e), t, i)'
    BY <2>1, RemoverSound
  <2>3. QED
    BY <1>2, <1>3, <2>2
<1>8. QED
  BY <1>2, <1>3, <1>5, <1>6, <1>7

LEMMA EmptiedFollows ==
  ASSUME NEW e, NEW n, Emptied(e, n), NEW new,
         entries'[e].strong = 0 => \E j \in DOMAIN new : new[j].op = "remove" /\ new[j].entry = e
  PROVE  Follows(new, n)
<1>1. \A x \in 1..n : entries[x].strong \in Nat
  BY Counting DEF Emptied
<1>2. \A x \in 1..n : entries[x].strong > 0 /\ entries'[x].strong = 0 => x = e
  BY <1>1 DEF Emptied
<1>3. QED
  BY <1>2 DEF Follows

\* The unwinding ends in the code of the thread, or in the retainer.
LEMMA UnwindTop ==
  ASSUME IInv, NEW t, NEW m, NEW f, NEW n, Topped(t, m, f, n), f.op = "unwind", f.rest = <<>>,
         f.caller # "loader", NEW e, e = f.entry, Emptied(e, n),
         stack' = [stack EXCEPT ![t] = IF entries'[e].strong = 0
                                       THEN Append(Front(@), Frame("remove", "user", entries[e].key, e))
                                       ELSE Front(@)]
  PROVE  IInv'
<1>1. /\ Types(n) /\ f = Top(t) /\ f \in FrameOf(n) /\ FrameSound(f, t, m + 1) /\ m \in Nat /\ t \in Threads
      /\ Len(stack[t]) = m + 1 /\ f = stack[t][m + 1] /\ FramesSound /\ Nested
  BY DEF Topped, IInv
<1>2. m = 0
  BY <1>1 DEF FrameSound, LoadOps
<1>3. \A x : Holds(f, x) = IF e = x THEN 1 ELSE 0
  BY HoldsEntry DEF Holding
<1>4. /\ Steady(n, n) /\ held' = held
      /\ \A x \in 1..n : entries[x].value = "busy" /\ entries'[x].value # "busy" =>
           Top(t).op \in {"loader", "unwind"} /\ Top(t).entry = x
  BY <1>1 DEF Emptied
<1>5. \A x : /\ Runs(stack, t, m + 1, x) <=> e = x
             /\ ~Runs(stack, t, m + 2, x)
  <2>1. f.op \in {"loader", "unwind"}
    OBVIOUS
  <2>2. f = stack[t][Len(stack[t])]
    BY <1>1
  <2>3. QED
    BY <1>1, <2>1, <2>2, OldRuns
<1>6. ASSUME NEW new, Step(t, m, new, n, n), Short(t, m, new),
             \A x : Gain(t, m, new, x) = 0 - (IF x = e THEN 1 ELSE 0),
             new # <<>> => new[1].op = "remove", Len(new) <= 1,
             entries'[e].strong = 0 => \E j \in DOMAIN new : new[j].op = "remove" /\ new[j].entry = e
      PROVE  IInv'
  <2>1. \A x : ~Runs(stack', t, m + 1, x) /\ ~Runs(stack', t, m + 2, x)
    <3>1. new \in Seq(FrameOf(n))
      BY <1>6 DEF Step
    <3>2. Len(new) >= 1 => new[1].op = "remove"
      BY <1>6, <3>1
    <3>3. Types(n) /\ Step(t, m, new, n, n) /\ Short(t, m, new)
      BY <1>1, <1>6
    <3>4. \A x : Runs(stack', t, m + 1, x) <=>
                   Len(new) >= 1 /\ new[1].op \in {"loader", "unwind"} /\ new[1].entry = x
      BY ONLY <3>3, NewCalls
    <3>5. \A x : Runs(stack', t, m + 2, x) <=>
                   Len(new) >= 2 /\ new[2].op \in {"loader", "unwind"} /\ new[2].entry = x
      BY ONLY <3>3, NewCalls
    <3>6. Len(new) \in Nat /\ Len(new) <= 1
      BY <1>6, <3>1
    <3>7. \A x : ~Runs(stack', t, m + 1, x)
      BY ONLY <3>2, <3>4
    <3>8. \A x : ~Runs(stack', t, m + 2, x)
      BY ONLY <3>5, <3>6
    <3>9. QED
      BY <3>7, <3>8
  <2>2. RunEnds(t, m, e, n)
    BY <1>5, <2>1 DEF RunEnds
  <2>3. Follows(new, n)
    BY <1>6, EmptiedFollows
  <2>4. Unremoving(t, m) /\ Unreaping(t, m, new)
    BY <1>6, TopUnlike
  <2>5. QED
    BY <1>6, <2>2, <2>3, <2>4, EmptiedStep
<1>7. CASE entries'[e].strong # 0
  <2>1. stack' = [stack EXCEPT ![t] = Front(@)]
    BY <1>7
  <2>2. Popping(t, m, n)
    BY <1>1, <1>2, <1>4, <2>1 DEF Popping
  <2>3. PICK new : new = <<>>
    OBVIOUS
  <2>4. /\ Step(t, m, <<>>, n, n) /\ Short(t, m, <<>>)
        /\ \A x : Gain(t, m, <<>>, x) = 0 - Holds(Top(t), x)
    <3>1. Types(n) /\ FramesSound /\ Nested
      BY <1>1
    <3>2. QED
      BY ONLY <2>2, <3>1, PopStep
  <2>5. Step(t, m, new, n, n) /\ Short(t, m, new) /\ \A x : Gain(t, m, new, x) = 0 - (IF x = e THEN 1 ELSE 0)
    BY <1>1, <1>3, <2>3, <2>4
  <2>6. Len(new) <= 1 /\ ~(new # <<>>)
    BY <2>3
  <2>7. QED
    BY <1>6, <1>7, <2>5, <2>6
<1>8. CASE entries'[e].strong = 0
  <2>1. PICK h : /\ h = Frame("remove", "user", entries[e].key, e)
                 /\ h \in FrameOf(n) /\ h.op = "remove" /\ h.caller = "user" /\ h.entry = e
                 /\ \A x : Holds(h, x) = 0
                 /\ \A u, i : entries'[e].strong = 0 => FrameSound(h, u, i)'
    <3>1. Emptied(e, n)
      OBVIOUS
    <3>2. QED
      BY ONLY <3>1, RemoverIs
  <2>2. stack' = [stack EXCEPT ![t] = Becomes(@, h)]
    BY <1>8, <2>1 DEF Becomes
  <2>3. FrameSound(h, t, m + 1)'
    BY <1>8, <2>1
  <2>4. Becoming(t, m, h, n, n)
    BY <1>1, <1>2, <1>4, <2>1, <2>2, <2>3 DEF Becoming
  <2>5. PICK new : new = <<h>>
    OBVIOUS
  <2>6. /\ Step(t, m, <<h>>, n, n) /\ Short(t, m, <<h>>)
        /\ \A x : Gain(t, m, <<h>>, x) = Holds(h, x) - Holds(Top(t), x)
    <3>1. Types(n) /\ FramesSound /\ Nested
      BY <1>1
    <3>2. QED
      BY ONLY <2>4, <3>1, BecomesStep
  <2>7. Step(t, m, new, n, n) /\ Short(t, m, new) /\ \A x : Gain(t, m, new, x) = 0 - (IF x = e THEN 1 ELSE 0)
    <3>1. Step(t, m, new, n, n) /\ Short(t, m, new)
      BY ONLY <2>5, <2>6
    <3>2. \A x : Gain(t, m, new, x) = Holds(h, x) - Holds(f, x)
      BY <1>1, <2>5, <2>6
    <3>3. \A x : Gain(t, m, new, x) = 0 - (IF x = e THEN 1 ELSE 0)
      BY <1>3, <2>1, <3>2
    <3>4. QED
      BY <3>1, <3>3
  <2>8. Len(new) = 1 /\ new[1] = h /\ 1 \in DOMAIN new
    BY <2>5
  <2>9. \E j \in DOMAIN new : new[j].op = "remove" /\ new[j].entry = e
    BY <2>1, <2>8
  <2>10. Len(new) <= 1 /\ (new # <<>> => new[1].op = "remove")
    BY <2>1, <2>8
  <2>11. QED
    BY <1>6, <2>7, <2>9, <2>10
<1>9. QED
  BY <1>7, <1>8

\* A loader that panics, or through which a panic goes, drops what it has and what it keeps.
LEMMA UnwoundIs ==
  ASSUME NEW n, Types(n), NEW t, NEW i, NEW b \in FrameOf(n), FrameSound(b, t, i), b.op = "loader",
         NEW g, g = Unwound(b)
  PROVE  /\ g \in FrameOf(n) /\ g.op = "unwind" /\ g.caller = b.caller /\ g.key = b.key /\ g.entry = b.entry
         /\ FrameSound(g, t, i)
         /\ \A e : Holds(g, e) = Holds(b, e) /\ Holds(b, e) \in Nat
<1>1. /\ b.rest \in Seq(1..n) /\ b.keep \in Seq(1..n)
      /\ g \in FrameOf(n) /\ g.op = "unwind" /\ g.caller = b.caller /\ g.key = b.key /\ g.entry = b.entry
      /\ g.rest = b.rest \o b.keep /\ g.keep = b.keep
  <2> DEFINE N == 1..n
  <2>1. b.rest \in Seq(N) /\ b.keep \in Seq(N)
    BY DEF FrameOf
  <2> HIDE DEF N
  <2>2. b.rest \o b.keep \in Seq(N)
    BY <2>1
  <2>3. QED
    BY <2>1, <2>2 DEF FrameOf, N, Ops, Unwound
<1>2. FrameSound(g, t, i)
  BY <1>1 DEF FrameSound, Holding, LoadOps
<1>3. \A e : Holds(g, e) = Holds(b, e) /\ Holds(b, e) \in Nat
  <2> SUFFICES ASSUME NEW e PROVE Holds(g, e) = Holds(b, e) /\ Holds(b, e) \in Nat
    OBVIOUS
  <2>1. Occ(b.rest \o b.keep, e) = Occ(b.rest, e) + Occ(b.keep, e)
    BY <1>1, OccConcat
  <2>2. Occ(b.rest, e) \in Nat /\ Occ(b.keep, e) \in Nat
    BY <1>1, PlacesFinite
  <2>3. QED
    BY <1>1, <2>1, <2>2 DEF Holds, Holding
<1>4. QED
  BY <1>1, <1>2, <1>3

\* The unwinding goes on through the loader that called.
UnwindsBelow(t, m1, f, n, e, g) ==
  /\ Topped(t, m1, f, n)
  /\ f.op = "unwind"
  /\ f.rest = <<>>
  /\ f.caller = "loader"
  /\ e = f.entry
  /\ Emptied(e, n)
  /\ g = Unwound(Last(Front(stack[t])))
  /\ stack' = [stack EXCEPT ![t] = IF entries'[e].strong = 0
                                   THEN Append(Becomes(Front(@), g), Frame("remove", "user", entries[e].key, e))
                                   ELSE Becomes(Front(@), g)]

LEMMA UnwindBelow ==
  ASSUME IInv, NEW t, NEW m1, NEW f, NEW n, NEW e, NEW g, UnwindsBelow(t, m1, f, n, e, g)
  PROVE  IInv'
<1> SUFFICES ASSUME Topped(t, m1, f, n), f.op = "unwind", f.rest = <<>>, f.caller = "loader", e = f.entry,
                    Emptied(e, n), g = Unwound(Last(Front(stack[t]))),
                    stack' = [stack EXCEPT ![t] =
                       IF entries'[e].strong = 0
                       THEN Append(Becomes(Front(@), g), Frame("remove", "user", entries[e].key, e))
                       ELSE Becomes(Front(@), g)]
             PROVE  IInv'
  BY DEF UnwindsBelow
<1>1. PICK m, b : m1 = m + 1 /\ Under(t, m, b, f, n)
  BY UnderSetup
<1>2. /\ t \in Threads /\ m \in Nat /\ Len(stack[t]) = m + 2 /\ DOMAIN stack[t] = 1..(m + 2)
      /\ b = stack[t][m + 1] /\ f = stack[t][m + 2] /\ f = Top(t) /\ b \in FrameOf(n) /\ f \in FrameOf(n)
      /\ FrameSound(b, t, m + 1) /\ b.op = "loader" /\ Last(Front(stack[t])) = b
  BY <1>1 DEF Under
<1>3. Types(n) /\ FramesSound /\ Nested /\ BusyOnce
  BY DEF Topped, IInv
<1>4. /\ Steady(n, n) /\ held' = held /\ e \in 1..n
      /\ \A x \in 1..n : x # e => entries'[x].value = entries[x].value
  BY DEF Emptied
<1>5. /\ g \in FrameOf(n) /\ g.op = "unwind" /\ g.caller = b.caller /\ g.key = b.key /\ g.entry = b.entry
      /\ FrameSound(g, t, m + 1)
      /\ \A x : Holds(g, x) = Holds(b, x) /\ Holds(b, x) \in Nat
  <2>1. g = Unwound(b)
    BY <1>2
  <2>2. PICK i : i = m + 1
    OBVIOUS
  <2>3. Types(n) /\ b \in FrameOf(n) /\ FrameSound(b, t, i) /\ b.op = "loader"
    BY <1>2, <1>3, <2>2
  <2>4. /\ g \in FrameOf(n) /\ g.op = "unwind" /\ g.caller = b.caller /\ g.key = b.key /\ g.entry = b.entry
        /\ FrameSound(g, t, i)
        /\ \A x : Holds(g, x) = Holds(b, x) /\ Holds(b, x) \in Nat
    BY ONLY <2>1, <2>3, UnwoundIs
  <2>5. QED
    BY ONLY <2>2, <2>4
<1>6. b.entry \in 1..n /\ entries[b.entry].value = "busy"
  <2>1. b.op \in Holding /\ b.op \in {"loader", "unwind"}
    BY <1>2 DEF Holding
  <2>2. b.entry \in Entry /\ entries[b.entry].value = "busy"
    BY <1>2, <2>1 DEF FrameSound
  <2>3. QED
    BY <1>3, <2>2 DEF Types
<1>7. b.entry # e
  <2>1. m + 1 \in DOMAIN stack[t] /\ m + 2 \in DOMAIN stack[t]
    BY <1>2
  <2>2. Runs(stack, t, m + 2, e) /\ (b.entry = e => Runs(stack, t, m + 1, e))
    <3>1. stack[t][m + 2].op = "unwind" /\ stack[t][m + 2].entry = e
      BY <1>2
    <3>2. stack[t][m + 1].op = "loader" /\ stack[t][m + 1].entry = b.entry
      BY <1>2
    <3>3. QED
      BY <2>1, <3>1, <3>2 DEF Runs
  <2>3. Runs(stack, t, m + 1, e) /\ Runs(stack, t, m + 2, e) => m + 1 = m + 2
    <3>1. e \in Entry /\ t \in Threads /\ BusyOnce
      BY <1>2, <1>3, <1>4 DEF Types
    <3>2. QED
      BY ONLY <2>1, <3>1 DEF BusyOnce
  <2>4. m + 1 # m + 2
    BY <1>2
  <2>5. QED
    BY ONLY <2>2, <2>3, <2>4
<1>8. FrameSound(g, t, m + 1)'
  <2>1. entries'[g.entry].value = "busy"
    BY <1>4, <1>5, <1>6, <1>7
  <2>2. held'[t] \subseteq held[t]
    BY <1>4
  <2>3. QED
    BY <1>2, <1>3, <1>4, <1>5, <2>1, <2>2, FrameKept
<1>9. \A x : Holds(f, x) = IF e = x THEN 1 ELSE 0
  BY HoldsEntry DEF Holding
<1>10. /\ \A x \in 1..n : entries[x].value = "busy" /\ entries'[x].value # "busy" =>
            Top(t).op \in {"loader", "unwind"} /\ Top(t).entry = x
       /\ \A u \in Threads : held'[u] \subseteq held[u]
  BY <1>2, <1>4
<1>11. \A x : /\ Runs(stack, t, m + 1, x) <=> b.entry = x
              /\ Runs(stack, t, m + 2, x) <=> e = x
  BY <1>2 DEF Runs
<1>12. ASSUME NEW new, Step(t, m, new, n, n), Short(t, m, new),
              \A x : Gain(t, m, new, x) = 0 - (IF x = e THEN 1 ELSE 0),
              Len(new) >= 1, new[1] = g, Len(new) >= 2 => new[2].op = "remove",
              entries'[e].strong = 0 => \E j \in DOMAIN new : new[j].op = "remove" /\ new[j].entry = e
       PROVE  IInv'
  <2>1. /\ \A x : Runs(stack', t, m + 1, x) <=> b.entry = x
        /\ \A x : ~Runs(stack', t, m + 2, x)
    <3>1. Types(n) /\ Step(t, m, new, n, n) /\ Short(t, m, new)
      BY <1>3, <1>12
    <3>2. \A x : Runs(stack', t, m + 1, x) <=>
                   Len(new) >= 1 /\ new[1].op \in {"loader", "unwind"} /\ new[1].entry = x
      BY ONLY <3>1, NewCalls
    <3>3. \A x : Runs(stack', t, m + 2, x) <=>
                   Len(new) >= 2 /\ new[2].op \in {"loader", "unwind"} /\ new[2].entry = x
      BY ONLY <3>1, NewCalls
    <3>4. \A x : Runs(stack', t, m + 1, x) <=> b.entry = x
      BY <1>5, <1>12, <3>2
    <3>5. \A x : ~Runs(stack', t, m + 2, x)
      BY <1>12, <3>3
    <3>6. QED
      BY <3>4, <3>5
  <2>2. RunEnds(t, m, e, n)
    BY <1>7, <1>11, <2>1 DEF RunEnds
  <2>3. Follows(new, n)
    BY <1>12, EmptiedFollows
  <2>4. Unremoving(t, m)
    <3>1. \A i \in DOMAIN stack[t] : i > m => i = m + 1 \/ i = m + 2
      BY <1>2
    <3>2. QED
      BY <1>2, <3>1 DEF Unremoving
  <2>5. Unreaping(t, m, new)
    BY <1>2, <1>5, <1>12 DEF Unreaping
  <2>6. QED
    BY <1>12, <2>2, <2>3, <2>4, <2>5, EmptiedStep
<1>13. CASE entries'[e].strong # 0
  <2>1. stack' = [stack EXCEPT ![t] = Becomes(Front(@), g)]
    BY <1>13
  <2>2. BelowBecoming(t, m, b, g, n)
    BY <1>2, <1>4, <1>5, <1>8, <1>10, <2>1 DEF BelowBecoming
  <2>3. PICK new : new = <<g>>
    OBVIOUS
  <2>4. /\ Step(t, m, <<g>>, n, n) /\ Short(t, m, <<g>>)
        /\ \A x : Gain(t, m, <<g>>, x) = Holds(g, x) - Holds(b, x) - Holds(Top(t), x)
    <3>1. Types(n) /\ FramesSound /\ Nested
      BY <1>3
    <3>2. QED
      BY ONLY <2>2, <3>1, BelowStep
  <2>5. Step(t, m, new, n, n) /\ Short(t, m, new) /\ \A x : Gain(t, m, new, x) = 0 - (IF x = e THEN 1 ELSE 0)
    BY <1>2, <1>5, <1>9, <2>3, <2>4
  <2>6. Len(new) = 1 /\ new[1] = g
    BY <2>3
  <2>7. Len(new) >= 1 /\ (Len(new) >= 2 => new[2].op = "remove")
    BY ONLY <2>6
  <2>8. QED
    BY <1>12, <1>13, <2>5, <2>6, <2>7
<1>14. CASE entries'[e].strong = 0
  <2>1. PICK h : /\ h = Frame("remove", "user", entries[e].key, e)
                 /\ h \in FrameOf(n) /\ h.op = "remove" /\ h.caller = "user" /\ h.entry = e
                 /\ \A x : Holds(h, x) = 0
                 /\ \A u, i : entries'[e].strong = 0 => FrameSound(h, u, i)'
    <3>1. Emptied(e, n)
      OBVIOUS
    <3>2. QED
      BY ONLY <3>1, RemoverIs
  <2>2. stack' = [stack EXCEPT ![t] = Append(Becomes(Front(@), g), h)]
    <3>1. h = Frame("remove", "user", entries[e].key, e)
      BY <2>1
    <3>2. QED
      BY <1>14, <3>1
  <2>3. FrameSound(h, t, m + 2)'
    BY <1>14, <2>1
  <2>4. MayCall(g, h)
    BY <1>5, <2>1 DEF MayCall
  <2>5. BelowCalling(t, m, b, g, h, n)
    BY <1>2, <1>4, <1>5, <1>8, <1>10, <2>1, <2>2, <2>3, <2>4 DEF BelowCalling
  <2>6. PICK new : new = <<g, h>>
    OBVIOUS
  <2>7. /\ Step(t, m, <<g, h>>, n, n) /\ Short(t, m, <<g, h>>)
        /\ \A x : Gain(t, m, <<g, h>>, x) = Holds(g, x) + Holds(h, x) - Holds(b, x) - Holds(Top(t), x)
    <3>1. Types(n) /\ FramesSound /\ Nested
      BY <1>3
    <3>2. QED
      BY ONLY <2>5, <3>1, BelowCallStep
  <2>8. Step(t, m, new, n, n) /\ Short(t, m, new) /\ \A x : Gain(t, m, new, x) = 0 - (IF x = e THEN 1 ELSE 0)
    <3>1. f = Top(t) /\ \A x : Holds(h, x) = 0
      BY <1>2, <2>1
    <3>2. QED
      BY <1>5, <1>9, <2>6, <2>7, <3>1
  <2>9. Len(new) = 2 /\ new[1] = g /\ new[2] = h /\ 2 \in DOMAIN new
    BY <2>6
  <2>10. \E j \in DOMAIN new : new[j].op = "remove" /\ new[j].entry = e
    BY <2>1, <2>9
  <2>11. Len(new) >= 1 /\ new[2].op = "remove"
    BY <2>1, <2>9
  <2>12. QED
    BY <1>12, <2>8, <2>9, <2>10, <2>11
<1>15. QED
  BY <1>13, <1>14

LEMMA UnwindStep ==
  ASSUME IInv, NEW t \in Threads, Unwind(t)
  PROVE  IInv'
<1>1. stack[t] # <<>> /\ Top(t).op = "unwind"
  BY DEF Unwind, In, Idle
<1>2. PICK n, m, f : Topped(t, m, f, n)
  BY <1>1, TopSetup
<1>3. /\ Types(n) /\ Rest(n) /\ f = Top(t) /\ f \in FrameOf(n) /\ FrameSound(f, t, m + 1) /\ f.op = "unwind"
      /\ DOMAIN stack[t] = 1..(m + 1) /\ m \in Nat /\ f = stack[t][m + 1] /\ Counted
  BY <1>1, <1>2 DEF Topped, IInv
<1>4. /\ asset_map' = asset_map /\ held' = held /\ retained' = retained /\ used' = used
      /\ used_before' = used_before /\ loads' = loads /\ panics' = panics
  BY DEF Unwind
<1>5. CASE f.rest # <<>>
  <2>1. DropsNext(t, f)
    BY <1>3, <1>4, <1>5 DEF Unwind, DropsNext
  <2>2. QED
    BY <1>2, <1>3, <2>1, DropNext DEF Running
<1>6. CASE f.rest = <<>>
  <2>1. PICK e : e = f.entry
    OBVIOUS
  <2>2. e \in 1..n /\ entries[e].value = "busy"
    BY <1>3, <2>1 DEF FrameSound, Holding, Types
  <2>3. entries[e].strong > 0
    <3>1. m + 1 \in DOMAIN stack[t] /\ f.op \in Holding
      BY <1>3 DEF Holding
    <3>2. QED
      BY <1>3, <2>1, <2>2, <3>1, FrameOwned
  <2>4. PICK reset, empty : reset = [entries EXCEPT ![e].value = empty] /\ empty = "empty"
    OBVIOUS
  <2>5. PICK caller : caller = IF f.caller = "loader" THEN Becomes(Front(stack[t]), Unwound(Last(Front(stack[t]))))
                               ELSE Front(stack[t])
    OBVIOUS
  <2>6. entries' = Released(reset, e) /\ stack' = [stack EXCEPT ![t] = Dropping(caller, reset, e)]
    BY <1>3, <1>6, <2>1, <2>4, <2>5 DEF Unwind, AfterPanic
  <2>7. PICK r : r = entries[e].strong - 1
    OBVIOUS
  <2>8. entries[e] \in EntryOf(n) /\ r \in Nat /\ e \in DOMAIN entries
    <3>1. entries[e] \in EntryOf(n) /\ entries[e].strong \in Nat
      BY <1>3, <2>2, Counting
    <3>2. r \in Nat
      BY <2>3, <2>7, <3>1
    <3>3. e \in DOMAIN entries
      BY <1>3, <2>2 DEF Types
    <3>4. QED
      BY <3>1, <3>2, <3>3
  <2>9. PICK d : d = [entries[e] EXCEPT !.value = empty, !.strong = r]
    OBVIOUS
  <2>10. /\ d \in EntryOf(n) /\ d.key = entries[e].key /\ d.id = entries[e].id /\ d.strong = r
         /\ d.keep = entries[e].keep /\ d.value = "empty"
    BY <2>4, <2>8, <2>9 DEF EntryOf
  <2>11. /\ entries' = [entries EXCEPT ![e] = d]
         /\ Released(reset, e)[e].strong = r /\ reset[e].key = entries[e].key
    <3>1. reset[e] = [entries[e] EXCEPT !.value = empty] /\ DOMAIN reset = DOMAIN entries
          /\ \A x \in DOMAIN entries : x # e => reset[x] = entries[x]
      BY <2>4, <2>8
    <3>2. /\ reset[e].strong = entries[e].strong /\ reset[e].key = entries[e].key
          /\ [reset[e] EXCEPT !.strong = r] = d
      BY <2>8, <2>9, <3>1 DEF EntryOf
    <3>3. Released(reset, e) = [reset EXCEPT ![e] = d]
      BY <2>7, <3>2 DEF Released
    <3>4. [reset EXCEPT ![e] = d] = [entries EXCEPT ![e] = d]
      BY <2>4, <3>1
    <3>5. Released(reset, e)[e] = d
      BY <2>8, <3>1, <3>3
    <3>6. entries' = [entries EXCEPT ![e] = d]
      BY <2>6, <3>3, <3>4
    <3>7. Released(reset, e)[e].strong = r
      BY <2>10, <3>5
    <3>8. QED
      BY <3>2, <3>6, <3>7
  <2>12. OneChanges(e, d, n)
    <3>1. entries[e].value # "ready" /\ entries[e].strong # 0
      BY <2>2, <2>3
    <3>2. QED
      BY <1>3, <2>2, <2>10, <2>11, <3>1 DEF OneChanges
  <2>13. Steady(n, n) /\ \A x \in 1..n : entries'[x] = IF x = e THEN d ELSE entries[x]
    BY <2>12, SteadyOne
  <2>14. Emptied(e, n)
    <3>1. \A x \in 1..n : entries[x].strong \in Nat
      BY <1>3, Counting
    <3>2. entries'[e].value = "empty"
      BY <2>2, <2>10, <2>13
    <3>3. \A x \in 1..n : /\ x # e => entries'[x].value = entries[x].value
                          /\ entries'[x].keep = entries[x].keep
                          /\ entries'[x].strong = entries[x].strong - (IF x = e THEN 1 ELSE 0)
      BY <2>7, <2>10, <2>13, <3>1
    <3>4. QED
      BY <1>3, <1>4, <2>2, <2>3, <2>13, <3>2, <3>3 DEF Emptied
  <2>15. /\ stack' = [stack EXCEPT ![t] = IF entries'[e].strong = 0
                                          THEN Append(caller, Frame("remove", "user", entries[e].key, e))
                                          ELSE caller]
    BY <2>6, <2>11 DEF Dropping
  <2>16. CASE f.caller = "loader"
    <3>1. PICK g : g = Unwound(Last(Front(stack[t])))
      OBVIOUS
    <3>2. stack' = [stack EXCEPT ![t] = IF entries'[e].strong = 0
                                        THEN Append(Becomes(Front(@), g), Frame("remove", "user", entries[e].key, e))
                                        ELSE Becomes(Front(@), g)]
      BY <2>5, <2>15, <2>16, <3>1
    <3>3. f.op = "unwind"
      BY <1>3
    <3>4. UnwindsBelow(t, m, f, n, e, g)
      BY <1>2, <1>6, <2>1, <2>14, <2>16, <3>1, <3>2, <3>3 DEF UnwindsBelow
    <3>5. QED
      BY <3>4, UnwindBelow
  <2>17. CASE f.caller # "loader"
    <3>1. stack' = [stack EXCEPT ![t] = IF entries'[e].strong = 0
                                        THEN Append(Front(@), Frame("remove", "user", entries[e].key, e))
                                        ELSE Front(@)]
      BY <2>5, <2>15, <2>17
    <3>2. QED
      BY <1>2, <1>3, <1>6, <2>1, <2>14, <2>17, <3>1, UnwindTop
  <2>18. QED
    BY <2>16, <2>17
<1>7. QED
  BY <1>5, <1>6

\* A new entry, which the map has for its key.
Growing(t, f, k, c, g, n, n2) ==
  /\ n2 = n + 1 /\ k = f.key
  /\ ~Upgrades(k)
  /\ c \in EntryOf(n2) /\ c.key = k /\ c.id = n2 /\ c.strong = 1 /\ c.keep = <<>> /\ c.value = "empty"
  /\ entries' = Append(entries, c)
  /\ DOMAIN asset_map' = DOMAIN asset_map \cup {k}
  /\ asset_map'[k] = [id |-> n2, weak |-> n2]
  /\ \A x \in DOMAIN asset_map : x # k => asset_map'[x] = asset_map[x]
  /\ g \in FrameOf(n2) /\ g.op = "init" /\ g.caller = f.caller /\ g.key = k /\ g.entry = n2
  /\ g.rest = <<>> /\ g.keep = <<>> /\ g.loaded = 0
  /\ stack' = [stack EXCEPT ![t] = Becomes(@, g)]
  /\ held' = held /\ retained' = retained /\ used' = used
  /\ used_before' = used_before /\ loads' = loads /\ panics' = panics

LEMMA GrowingEntries ==
  ASSUME NEW t, NEW f, NEW k, NEW c, NEW g, NEW n, NEW n2, Types(n), Growing(t, f, k, c, g, n, n2)
  PROVE  /\ Steady(n, n2) /\ n \in Nat /\ n2 \in Nat /\ n2 \notin 1..n /\ n2 \in 1..n2 /\ 1..n \subseteq 1..n2
         /\ \A x \in 1..n2 : x # n2 => x \in 1..n
         /\ \A x \in 1..n : entries'[x] = entries[x]
         /\ entries'[n2] = c
         /\ \A x : KeptBy(Keeps(entries'), x) = KeptBy(Keeps(entries), x)
<1>1. /\ n \in Nat /\ Len(entries) = n /\ DOMAIN entries = 1..n /\ entries \in Seq(EntryOf(n))
      /\ n2 = n + 1 /\ c \in EntryOf(n2) /\ c.keep = <<>> /\ entries' = Append(entries, c)
  BY DEF Types, Growing
<1>2. n2 \in Nat /\ n <= n2 /\ n2 \notin 1..n /\ n2 \in 1..n2 /\ 1..n \subseteq 1..n2
      /\ \A x \in 1..n2 : x # n2 => x \in 1..n
  BY <1>1
<1>3. entries \in Seq(EntryOf(n2))
  <2>1. Seq(EntryOf(n)) \subseteq Seq(EntryOf(n2))
    BY <1>1, <1>2, MoreEntries
  <2>2. QED
    BY <1>1, <2>1
<1>4. entries' \in Seq(EntryOf(n2)) /\ Len(entries') = n2 /\ DOMAIN entries' = 1..n2
  BY <1>1, <1>3
<1>5. (\A x \in 1..n : entries'[x] = entries[x]) /\ entries'[n2] = c
  BY <1>1
<1>6. Steady(n, n2)
  BY <1>1, <1>2, <1>4, <1>5 DEF Steady
<1>7. \A x : KeptBy(Keeps(entries'), x) = KeptBy(Keeps(entries), x)
  <2>1. PICK ks, ks2 : ks = Keeps(entries) /\ ks2 = Keeps(entries')
    OBVIOUS
  <2>2. DOMAIN ks = 1..n /\ DOMAIN ks2 = 1..n2 /\ ks2[n2] = <<>> /\ \A y \in DOMAIN ks : ks2[y] = ks[y]
    BY <1>1, <1>2, <1>4, <1>5, <2>1 DEF Keeps
  <2>3. DOMAIN ks2 = DOMAIN ks \cup {n2} /\ n2 \notin DOMAIN ks
    BY <1>2, <2>2
  <2>4. \A x : KeptBy(ks2, x) = KeptBy(ks, x)
    <3>1. ks2[n2] = <<>> /\ \A y \in DOMAIN ks : ks2[y] = ks[y]
      BY <2>2
    <3>2. QED
      BY ONLY <2>3, <3>1, KeptGrown
  <2>5. QED
    BY <2>1, <2>4
<1>8. QED
  BY <1>1, <1>2, <1>5, <1>6, <1>7

LEMMA GrowStep ==
  ASSUME IInv, NEW t, NEW m, NEW f, NEW n, Topped(t, m, f, n), f.op = "insert",
         NEW k, NEW c, NEW g, NEW n2, Growing(t, f, k, c, g, n, n2)
  PROVE  IInv'
<1>1. /\ Types(n) /\ Rest(n) /\ t \in Threads /\ m \in Nat /\ Len(stack[t]) = m + 1 /\ f = Top(t)
      /\ DOMAIN stack[t] = 1..(m + 1) /\ f = stack[t][m + 1] /\ f \in FrameOf(n) /\ FrameSound(f, t, m + 1)
      /\ FramesSound /\ Nested /\ Counted /\ BusyOnce /\ KeepsSound /\ HeldReady /\ RetainerSound
      /\ MapSound /\ LiveIsShared /\ NothingLeaks
  BY DEF Topped, IInv
<1>2. /\ n2 = n + 1 /\ k = f.key /\ ~Upgrades(k)
      /\ c \in EntryOf(n2) /\ c.key = k /\ c.id = n2 /\ c.strong = 1 /\ c.keep = <<>> /\ c.value = "empty"
      /\ DOMAIN asset_map' = DOMAIN asset_map \cup {k}
      /\ asset_map'[k] = [id |-> n2, weak |-> n2]
      /\ \A x \in DOMAIN asset_map : x # k => asset_map'[x] = asset_map[x]
      /\ g \in FrameOf(n2) /\ g.op = "init" /\ g.caller = f.caller /\ g.key = k /\ g.entry = n2
      /\ g.rest = <<>> /\ g.keep = <<>> /\ g.loaded = 0
      /\ stack' = [stack EXCEPT ![t] = Becomes(@, g)]
      /\ held' = held /\ retained' = retained /\ used' = used
      /\ used_before' = used_before /\ loads' = loads /\ panics' = panics
  BY DEF Growing
<1>3. /\ Steady(n, n2) /\ n \in Nat /\ n2 \in Nat /\ n2 \notin 1..n /\ n2 \in 1..n2 /\ 1..n \subseteq 1..n2
      /\ \A x \in 1..n2 : x # n2 => x \in 1..n
      /\ \A x \in 1..n : entries'[x] = entries[x]
      /\ entries'[n2] = c
      /\ \A x : KeptBy(Keeps(entries'), x) = KeptBy(Keeps(entries), x)
  BY <1>1, GrowingEntries
<1>4. FrameSound(g, t, m + 1)'
  <2>1. n2 \in Entry' /\ entries'[n2].key = k
    BY <1>2, <1>3 DEF Entry, Steady
  <2>2. \A e \in held'[t] : entries'[e] = entries[e]
    BY <1>1, <1>2, <1>3 DEF Types
  <2>3. /\ f.caller = "loader" => m + 1 > 1
        /\ f.caller = "retainer" => t = Painter
        /\ f.caller # "loader" => m + 1 = 1 /\ \A e \in held[t] : entries[e].key # f.key
    BY <1>1 DEF FrameSound, LoadOps
  <2>4. f.caller # "loader" => m + 1 = 1 /\ \A e \in held'[t] : entries'[e].key # g.key
    BY <1>2, <2>2, <2>3
  <2>5. QED
    BY <1>2, <2>1, <2>3, <2>4 DEF FrameSound, Holding, LoadOps
<1>5. Becoming(t, m, g, n, n2)
  <2>1. \A x \in 1..n : ~(entries[x].value = "busy" /\ entries'[x].value # "busy")
    BY <1>3
  <2>2. g.caller = Top(t).caller /\ g.key = Top(t).key
    BY <1>1, <1>2
  <2>3. \A u \in Threads : held'[u] \subseteq held[u]
    BY <1>2
  <2>4. QED
    BY <1>1, <1>2, <1>3, <1>4, <2>1, <2>2, <2>3 DEF Becoming
<1> DEFINE new == <<g>>
<1>6. /\ Step(t, m, <<g>>, n, n2) /\ Short(t, m, <<g>>)
      /\ \A x : Gain(t, m, <<g>>, x) = Holds(g, x) - Holds(Top(t), x)
  <2>1. Types(n) /\ FramesSound /\ Nested
    BY <1>1
  <2>2. QED
    BY ONLY <1>5, <2>1, BecomesStep
<1>7. Len(new) = 1 /\ new[1] = g /\ new # <<>>
  OBVIOUS
<1>8. Step(t, m, new, n, n2) /\ Short(t, m, new) /\ \A x : Gain(t, m, new, x) = Holds(g, x) - Holds(f, x)
  BY <1>1, <1>6
<1> HIDE DEF new
<1>9. \A x : Gain(t, m, new, x) = IF x = n2 THEN 1 ELSE 0
  <2>1. f.rest = <<>> /\ f.op \notin Holding
    BY <1>1 DEF FrameSound, Holding
  <2>2. \A x : Holds(f, x) = 0
    BY <2>1, HoldsNothing
  <2>3. g.op \in Holding
    BY <1>2 DEF Holding
  <2>4. \A x : Holds(g, x) = IF g.entry = x THEN 1 ELSE 0
    BY <1>2, <2>3, HoldsEntry
  <2>5. QED
    BY <1>2, <1>8, <2>2, <2>4
<1>10. Rest(n2)'
  <2>1. \A x \in DOMAIN asset_map' : asset_map'[x] \in [id : Nat, weak : 1..n2]
    <3> SUFFICES ASSUME NEW x \in DOMAIN asset_map' PROVE asset_map'[x] \in [id : Nat, weak : 1..n2]
      OBVIOUS
    <3>1. CASE x = k
      BY <1>2, <1>3, <3>1
    <3>2. CASE x # k
      <4>1. asset_map'[x] \in [id : Nat, weak : 1..n]
        BY <1>1, <1>2, <3>2 DEF Rest
      <4>2. QED
        BY <1>3, <4>1
    <3>3. QED
      BY <3>1, <3>2
  <2>2. k \in Keys
    BY <1>1, <1>2 DEF FrameOf
  <2>3. held \in [Threads -> SUBSET (1..n2)]
    BY <1>1, <1>3 DEF Rest
  <2>4. DOMAIN retained \subseteq 1..n2 /\ used \subseteq 1..n2 /\ used_before \subseteq 1..n2
    BY <1>1, <1>3 DEF Rest
  <2>5. QED
    BY <1>1, <1>2, <2>1, <2>2, <2>3, <2>4 DEF Rest
<1>11. TypeOK' /\ Entry' = 1..n2
  BY <1>1, <1>8, <1>10, StepTypes
<1>12. FramesSound' /\ Nested'
  BY <1>1, <1>8, StepFrames, StepNested
<1>13. \A x \in 1..n2 : CountedAt(x)'
  <2> SUFFICES ASSUME NEW x \in 1..n2 PROVE CountedAt(x)'
    OBVIOUS
  <2>1. HeldBy(held', x) = HeldBy(held, x) /\ Marked(retained', x) = Marked(retained, x)
    BY <1>2
  <2>2. KeptBy(Keeps(entries'), x) = KeptBy(Keeps(entries), x)
    BY <1>3
  <2>3. FiniteOwners(held, Keeps(entries), stack, x)
    <3>1. CASE x = n2
      <4>1. x \notin 1..n /\ x # NoEntry
        BY <1>2, <1>3, <3>1 DEF NoEntry
      <4>2. QED
        BY <1>1, <4>1, NoOwners
    <3>2. CASE x # n2
      BY <1>1, <1>3, <3>2 DEF Counted, CountedAt, Types
    <3>3. QED
      BY <3>1, <3>2
  <2>4. IsFiniteSet(HeldBy(held', x)) /\ IsFiniteSet(KeptBy(Keeps(entries'), x))
    BY <2>1, <2>2, <2>3 DEF FiniteOwners
  <2>5. /\ FiniteOwners(held', Keeps(entries'), stack', x)
        /\ Owners(held', retained', Keeps(entries'), stack', x) =
             Owners(held, retained, Keeps(entries), stack, x) + Gain(t, m, new, x)
             + (Cardinality(HeldBy(held', x)) - Cardinality(HeldBy(held, x)))
             + (Marked(retained', x) - Marked(retained, x))
             + (Cardinality(KeptBy(Keeps(entries'), x)) - Cardinality(KeptBy(Keeps(entries), x)))
    BY <1>1, <1>8, <2>3, <2>4, StepCounted
  <2>6. PICK h, r, q : /\ h = Cardinality(HeldBy(held, x)) /\ r = Marked(retained, x)
                       /\ q = Cardinality(KeptBy(Keeps(entries), x))
    OBVIOUS
  <2>7. h \in Nat /\ r \in Nat /\ q \in Nat
    <3>1. IsFiniteSet(HeldBy(held, x)) /\ IsFiniteSet(KeptBy(Keeps(entries), x))
      BY <2>3 DEF FiniteOwners
    <3>2. QED
      BY <2>6, <3>1, FS_CardinalityType DEF Marked
  <2>8. h - h = 0 /\ r - r = 0 /\ q - q = 0
    BY <2>7
  <2>9. Owners(held', retained', Keeps(entries'), stack', x) =
          Owners(held, retained, Keeps(entries), stack, x) + Gain(t, m, new, x) + 0 + 0 + 0
    BY <2>1, <2>2, <2>5, <2>6, <2>8
  <2>10. entries'[x].strong = Owners(held', retained', Keeps(entries'), stack', x)
    <3>1. CASE x = n2
      <4>1. x \notin 1..n /\ x # NoEntry
        BY <1>2, <1>3, <3>1 DEF NoEntry
      <4>2. Owners(held, retained, Keeps(entries), stack, x) = 0
        BY <1>1, <4>1, NoOwners
      <4>3. Gain(t, m, new, x) = 1 /\ entries'[x].strong = 1
        BY <1>2, <1>3, <1>9, <3>1
      <4>4. QED
        BY <2>9, <4>2, <4>3
    <3>2. CASE x # n2
      <4>1. x \in 1..n
        BY <1>3, <3>2
      <4>2. CountedAt(x) /\ entries[x].strong \in Nat
        BY <1>1, <4>1, Counting DEF Counted, Types
      <4>3. entries[x].strong = Owners(held, retained, Keeps(entries), stack, x) /\ entries[x].strong \in Nat
        BY <4>2 DEF CountedAt
      <4>4. Gain(t, m, new, x) = 0 /\ entries'[x].strong = entries[x].strong
        BY <1>3, <1>9, <3>2, <4>1
      <4>5. QED
        BY <2>9, <4>3, <4>4
    <3>3. QED
      BY <3>1, <3>2
  <2>11. QED
    BY <2>5, <2>10 DEF CountedAt
<1>14. \A x \in 1..n2 : BusyAt(x)'
  <2> SUFFICES ASSUME NEW x \in 1..n2 PROVE BusyAt(x)'
    OBVIOUS
  <2>1. ~Runs(stack, t, m + 1, x) /\ ~Runs(stack, t, m + 2, x)
    <3>1. f.op \notin {"loader", "unwind"}
      OBVIOUS
    <3>2. t \in Threads /\ Types(n) /\ m \in Nat /\ Len(stack[t]) = m + 1 /\ f = stack[t][Len(stack[t])]
      BY <1>1
    <3>3. QED
      BY <3>1, <3>2, OldRuns
  <2>2. ~Runs(stack', t, m + 1, x) /\ ~Runs(stack', t, m + 2, x)
    <3>1. Types(n) /\ Step(t, m, new, n, n2) /\ Short(t, m, new)
      BY <1>1, <1>8
    <3>2. Runs(stack', t, m + 1, x) <=> Len(new) >= 1 /\ new[1].op \in {"loader", "unwind"} /\ new[1].entry = x
      BY ONLY <3>1, NewCalls
    <3>3. Runs(stack', t, m + 2, x) <=> Len(new) >= 2 /\ new[2].op \in {"loader", "unwind"} /\ new[2].entry = x
      BY ONLY <3>1, NewCalls
    <3>4. QED
      BY <1>2, <1>7, <3>2, <3>3
  <2>3. /\ \A i \in {m + 1, m + 2} : Runs(stack', t, i, x) <=> Runs(stack, t, i, x)
        /\ entries'[x].value = "busy" => x \in 1..n /\ entries[x].value = "busy"
    <3>1. entries'[x].value = "busy" => x \in 1..n /\ entries[x].value = "busy"
      BY <1>2, <1>3
    <3>2. QED
      BY <2>1, <2>2, <3>1
  <2>4. QED
    BY <1>1, <1>8, <2>3, StepBusy
<1>15. \A x \in 1..n2 : KeepAt(x)'
  <2> SUFFICES ASSUME NEW x \in 1..n2 PROVE KeepAt(x)'
    OBVIOUS
  <2>1. CASE x = n2
    <3>1. entries'[x].id = x /\ entries'[x].keep = <<>> /\ entries'[x].value # "ready"
      BY <1>2, <1>3, <2>1
    <3>2. QED
      BY <3>1 DEF KeepAt, Alive, Ready
  <2>2. CASE x # n2
    <3>1. x \in 1..n /\ entries'[x] = entries[x]
      BY <1>3, <2>2
    <3>2. QED
      BY <1>1, <1>3, <3>1, KeepKept
  <2>3. QED
    BY <2>1, <2>2
<1>16. HeldReady'
  BY <1>1, <1>2, <1>3, HeldReadyKept
<1>17. RetainerSound'
  <2>1. new # <<>> => new[1].op # "reap"
    BY <1>2, <1>7
  <2>2. Unreaping(t, m, new)
    BY <2>1, TopUnlike
  <2>3. QED
    BY <1>1, <1>2, <1>8, <2>2, RetainerKept
<1>18. MapSound'
  <2> SUFFICES ASSUME NEW x \in DOMAIN asset_map'
               PROVE  asset_map'[x].id = asset_map'[x].weak /\ entries'[asset_map'[x].weak].key = x
    BY DEF MapSound
  <2>1. CASE x = k
    BY <1>2, <1>3, <2>1
  <2>2. CASE x # k
    <3>1. x \in DOMAIN asset_map /\ asset_map'[x] = asset_map[x] /\ asset_map[x].weak \in 1..n
      BY <1>1, <1>2, <2>2 DEF Rest
    <3>2. QED
      BY <1>1, <1>3, <3>1 DEF MapSound
  <2>3. QED
    BY <2>1, <2>2
<1>19. LiveIsShared'
  <2>1. ASSUME NEW x \in 1..n2, entries'[x].strong > 0
        PROVE  entries'[x].key \in DOMAIN asset_map' /\ asset_map'[entries'[x].key] = [id |-> entries'[x].id, weak |-> x]
    <3>1. CASE x = n2
      BY <1>2, <1>3, <3>1
    <3>2. CASE x # n2
      <4>1. x \in 1..n /\ entries'[x] = entries[x] /\ entries[x].strong > 0
        BY <1>3, <2>1, <3>2
      <4>2. entries[x].key \in DOMAIN asset_map /\ asset_map[entries[x].key] = [id |-> entries[x].id, weak |-> x]
        BY <1>1, <4>1 DEF LiveIsShared, Alive, Types
      <4>3. entries[x].key # k
        BY <1>2, <4>1, <4>2 DEF Upgrades
      <4>4. QED
        BY <1>2, <4>1, <4>2, <4>3
    <3>3. QED
      BY <3>1, <3>2
  <2>2. QED
    BY <1>11, <2>1 DEF LiveIsShared, Alive, Entry
<1>20. NothingLeaks'
  <2>1. ASSUME NEW x \in DOMAIN asset_map' PROVE LeaksNotAt(x)'
    <3>1. CASE x = k
      <4>1. asset_map'[x].weak = n2 /\ entries'[n2].strong = 1
        BY <1>2, <1>3, <3>1
      <4>2. QED
        BY <4>1 DEF LeaksNotAt, Alive
    <3>2. CASE x # k
      <4>1. x \in DOMAIN asset_map /\ asset_map'[x] = asset_map[x]
        BY <1>2, <2>1, <3>2
      <4>2. LeaksNotAt(x)
        BY <1>1, <4>1 DEF NothingLeaks, LeaksNotAt
      <4>3. \A i \in DOMAIN stack[t] : i > m /\ stack[t][i].op = "remove" => stack[t][i].entry # asset_map[x].weak
        <5>1. \A i \in DOMAIN stack[t] : i > m => i = m + 1
          BY <1>1
        <5>2. QED
          BY <1>1, <5>1
      <4>4. Follows(new, n)
        BY <1>3 DEF Follows
      <4>5. QED
        BY <1>1, <1>8, <4>1, <4>2, <4>3, <4>4, LeaksKept
    <3>3. QED
      BY <3>1, <3>2
  <2>2. QED
    BY <2>1 DEF NothingLeaks, LeaksNotAt
<1>21. Counted' /\ BusyOnce' /\ KeepsSound'
  BY <1>11, <1>13, <1>14, <1>15 DEF Counted, BusyOnce, BusyAt, KeepsSound, KeepAt
<1>22. QED
  BY <1>11, <1>12, <1>16, <1>17, <1>18, <1>19, <1>20, <1>21 DEF IInv

LEMMA InsertStep ==
  ASSUME IInv, NEW t \in Threads, Insert(t)
  PROVE  IInv'
<1>1. stack[t] # <<>> /\ Top(t).op = "insert"
  BY DEF Insert, In, Idle
<1>2. PICK n, m, f : Topped(t, m, f, n)
  BY <1>1, TopSetup
<1>3. /\ Types(n) /\ f = Top(t) /\ f \in FrameOf(n) /\ FrameSound(f, t, m + 1) /\ f.op = "insert"
      /\ n = Len(entries) /\ n \in Nat
  BY <1>1, <1>2 DEF Topped, Types
<1>4. /\ held' = held /\ retained' = retained /\ used' = used
      /\ used_before' = used_before /\ loads' = loads /\ panics' = panics
  BY DEF Insert
<1>5. CASE Upgrades(f.key)
  <2>1. Found(t, asset_map[f.key].weak) /\ asset_map' = asset_map
    BY <1>3, <1>5 DEF Insert, Reuses
  <2>2. QED
    BY <1>2, <1>3, <1>4, <1>5, <2>1, FoundStep
<1>6. CASE ~Upgrades(f.key)
  <2>1. PICK k, n2, zero, one, none, empty :
          /\ k = f.key /\ n2 = n + 1 /\ zero = 0 /\ one = 1 /\ none = <<>> /\ empty = "empty"
    OBVIOUS
  <2>2. PICK c : c = [key |-> k, id |-> n2, strong |-> one, keep |-> none, value |-> empty]
    OBVIOUS
  <2>3. PICK g : g = [f EXCEPT !.op = "init", !.entry = n2]
    OBVIOUS
  <2>4. /\ entries' = Append(entries, c)
        /\ asset_map' = [x \in DOMAIN asset_map \cup {k} |-> IF x = k THEN [id |-> n2, weak |-> n2] ELSE asset_map[x]]
        /\ stack' = [stack EXCEPT ![t] = Becomes(@, g)]
    BY <1>3, <1>6, <2>1, <2>2, <2>3 DEF Insert, Reuses, KeyId
  <2>5. /\ c \in EntryOf(n2) /\ c.key = k /\ c.id = n2 /\ c.strong = 1 /\ c.keep = <<>> /\ c.value = "empty"
    <3>1. k \in Keys /\ n2 \in Nat /\ one \in Nat /\ none \in Seq(1..n2) /\ empty \in {"empty", "busy", "ready"}
      BY <1>3, <2>1 DEF FrameOf
    <3>2. c \in EntryOf(n2)
      BY <2>2, <3>1 DEF EntryOf
    <3>3. QED
      BY <2>1, <2>2, <3>2
  <2>6. f.rest = <<>> /\ f.keep = <<>> /\ f.loaded = 0
    BY <1>3 DEF FrameSound
  <2>7. /\ g \in FrameOf(n2) /\ g.op = "init" /\ g.caller = f.caller /\ g.key = k /\ g.entry = n2
        /\ g.rest = <<>> /\ g.keep = <<>> /\ g.loaded = 0
    <3>1. f \in FrameOf(n2) /\ n2 \in (1..n2) \cup {NoEntry}
      <4>1. n2 \in Nat /\ n <= n2 /\ n2 \in 1..n2
        BY <1>3, <2>1
      <4>2. FrameOf(n) \subseteq FrameOf(n2)
        BY <1>3, <4>1, MoreEntries
      <4>3. QED
        BY <1>3, <4>1, <4>2
    <3>2. QED
      BY <2>1, <2>3, <2>6, <3>1 DEF FrameOf, Ops
  <2>8. DOMAIN asset_map' = DOMAIN asset_map \cup {k} /\ asset_map'[k] = [id |-> n2, weak |-> n2]
        /\ \A x \in DOMAIN asset_map : x # k => asset_map'[x] = asset_map[x]
    BY <2>4
  <2>9. Growing(t, f, k, c, g, n, n2)
    BY <1>4, <1>6, <2>1, <2>4, <2>5, <2>7, <2>8 DEF Growing
  <2>10. QED
    BY <1>2, <1>3, <2>9, GrowStep
<1>7. QED
  BY <1>5, <1>6

\* The elements of a finite set, in some order.
LEMMA SetToSeqIs ==
  ASSUME NEW S, IsFiniteSet(S), NEW s, s = SetToSeq(S)
  PROVE  /\ s \in Seq(S) /\ \A x \in S : \E i \in DOMAIN s : s[i] = x
         /\ \A i, j \in DOMAIN s : s[i] = s[j] => i = j
<1>1. PICK n : n = Cardinality(S)
  OBVIOUS
<1>2. n \in Nat /\ ExistsBijection(1..n, S)
  BY <1>1, FS_CardinalityType
<1>3. \E f \in [1..n -> S] : IsInjective(f)
  BY <1>2 DEF ExistsBijection, Bijection, Injection
<1>4. s \in [1..n -> S] /\ IsInjective(s)
  BY <1>1, <1>3 DEF SetToSeq
<1>5. s \in Injection(1..n, S)
  BY <1>4 DEF Injection
<1>6. IsFiniteSet(1..n) /\ Cardinality(1..n) = n
  BY <1>2, FS_Interval
<1>7. s \in Surjection(1..n, S)
  BY <1>1, <1>5, <1>6, FS_Injection
<1>8. \A x \in S : \E i \in 1..n : s[i] = x
  BY <1>7 DEF Surjection
<1>9. s \in Seq(S) /\ DOMAIN s = 1..n
  BY <1>2, <1>4
<1>10. \A i, j \in DOMAIN s : s[i] = s[j] => i = j
  BY <1>4 DEF IsInjective
<1>11. QED
  BY <1>8, <1>9, <1>10

\* A step of a reap: it may drop what the retainer retains, and changes the retainer's marks.
ReapCalls(t, new) ==
  /\ \A i \in DOMAIN stack[t] : stack[t][i].op = "reap"
  /\ \A j \in DOMAIN new : new[j].op \in {"reap", "remove"}

ReapsEntries(n) ==
  \A x \in 1..n : /\ entries'[x].keep = entries[x].keep /\ entries'[x].value = entries[x].value
                  /\ entries'[x].strong = entries[x].strong + (Marked(retained', x) - Marked(retained, x))

LEMMA ReapingStep ==
  ASSUME IInv, NEW n, Types(n), Rest(n), NEW t, NEW m, NEW new, Step(t, m, new, n, n), Short(t, m, new),
         ReapCalls(t, new), \A x : Gain(t, m, new, x) = 0, ReapsEntries(n),
         asset_map' = asset_map, held' = held, loads' = loads, panics' = panics,
         DOMAIN retained' \subseteq DOMAIN retained, \A x \in DOMAIN retained' : retained'[x] \in BOOLEAN,
         used' \subseteq 1..n, used_before' \subseteq 1..n, Follows(new, n), RetainerSound'
  PROVE  IInv'
<1>1. FramesSound /\ Nested /\ Counted /\ BusyOnce /\ KeepsSound /\ HeldReady
  BY DEF IInv
<1>2. /\ Steady(n, n) /\ t \in Threads /\ m \in Nat /\ new \in Seq(FrameOf(n)) /\ Len(new) \in Nat
      /\ DOMAIN new = 1..Len(new)
  BY DEF Step
<1>3. \A x \in 1..n : /\ entries'[x].keep = entries[x].keep /\ entries'[x].value = entries[x].value
                      /\ entries'[x].strong = entries[x].strong + (Marked(retained', x) - Marked(retained, x))
  BY DEF ReapsEntries
<1>4. \A x \in 1..n : CountedAt(x)'
  <2> SUFFICES ASSUME NEW x \in 1..n PROVE CountedAt(x)'
    OBVIOUS
  <2>1. PICK d : d = 0
    OBVIOUS
  <2>2. PICK dr : dr = Marked(retained', x) - Marked(retained, x)
    OBVIOUS
  <2>3. HeldBecomes(x, d)
    BY <1>1, <2>1, OwnersSame
  <2>4. Keeps(entries') = Keeps(entries)
    BY <1>2, <1>3, KeepsSame
  <2>5. KeptBecomes(x, d)
    BY <1>1, <2>1, <2>4, OwnersSame
  <2>6. Marked(retained, x) \in Nat /\ Marked(retained', x) \in Nat /\ entries[x].strong \in Nat
    BY Counting DEF Marked
  <2>7. d \in Int /\ dr \in Int /\ Marked(retained', x) = Marked(retained, x) + dr
    BY <2>1, <2>2, <2>6
  <2>8. entries'[x].strong = entries[x].strong + Gain(t, m, new, x) + d + dr + d
    BY <1>3, <2>1, <2>2, <2>6
  <2>9. Recount(t, m, new, x, d, dr, d)
    BY <2>3, <2>5, <2>7, <2>8 DEF Recount
  <2>10. QED
    BY <1>1, <2>9, Recounted
<1>5. \A x \in 1..n : BusyAt(x)'
  <2> SUFFICES ASSUME NEW x \in 1..n PROVE BusyAt(x)'
    OBVIOUS
  <2>1. ~Runs(stack, t, m + 1, x) /\ ~Runs(stack, t, m + 2, x)
    BY DEF Runs, ReapCalls
  <2>2. ~Runs(stack', t, m + 1, x) /\ ~Runs(stack', t, m + 2, x)
    <3>1. Runs(stack', t, m + 1, x) <=> Len(new) >= 1 /\ new[1].op \in {"loader", "unwind"} /\ new[1].entry = x
      BY NewCalls
    <3>2. Runs(stack', t, m + 2, x) <=> Len(new) >= 2 /\ new[2].op \in {"loader", "unwind"} /\ new[2].entry = x
      BY NewCalls
    <3>3. \A j \in 1..Len(new) : new[j].op \notin {"loader", "unwind"}
      BY <1>2 DEF ReapCalls
    <3>4. (Len(new) >= 1 => 1 \in 1..Len(new)) /\ (Len(new) >= 2 => 2 \in 1..Len(new))
      BY <1>2
    <3>5. QED
      BY ONLY <3>1, <3>2, <3>3, <3>4
  <2>3. /\ \A i \in {m + 1, m + 2} : Runs(stack', t, i, x) <=> Runs(stack, t, i, x)
        /\ entries'[x].value = "busy" => x \in 1..n /\ entries[x].value = "busy"
    BY <1>3, <2>1, <2>2
  <2>4. QED
    BY <1>1, <2>3, StepBusy
<1>6. \A x \in 1..n : KeepAt(x)'
  BY <1>1, <1>2, <1>3, KeepKept
<1>7. HeldReady'
  BY <1>1, <1>2, HeldReadyKept
<1>8. Rest(n)'
  BY DEF Rest
<1>9. Unremoving(t, m)
  BY DEF Unremoving, ReapCalls
<1>10. QED
  BY <1>4, <1>5, <1>6, <1>7, <1>8, <1>9, MapSameStep

\* The reap begins: it is to look at all that is retained.
Reaps(t, g, n) ==
  /\ t = Painter
  /\ stack[t] = <<>>
  /\ g \in FrameOf(n) /\ g.op = "reap" /\ g.caller = "user"
  /\ \A x \in DOMAIN retained : \E i \in DOMAIN g.rest : g.rest[i] = x
  /\ \A i \in DOMAIN g.rest : g.rest[i] \in DOMAIN retained
  /\ \A i, j \in DOMAIN g.rest : g.rest[i] = g.rest[j] => i = j
  /\ stack' = [stack EXCEPT ![t] = Append(@, g)]
  /\ used_before' = used /\ used' = {}
  /\ asset_map' = asset_map /\ entries' = entries /\ held' = held /\ retained' = retained
  /\ loads' = loads /\ panics' = panics

LEMMA ReapBegins ==
  ASSUME IInv, NEW n, Types(n), Rest(n), NEW t, NEW g, Reaps(t, g, n)
  PROVE  IInv'
<1>1. /\ t = Painter /\ stack[t] = <<>> /\ g \in FrameOf(n) /\ g.op = "reap" /\ g.caller = "user"
      /\ stack' = [stack EXCEPT ![t] = Append(@, g)]
      /\ used_before' = used /\ used' = {}
      /\ asset_map' = asset_map /\ entries' = entries /\ held' = held /\ retained' = retained
      /\ loads' = loads /\ panics' = panics
  BY DEF Reaps
<1>2. /\ \A x \in DOMAIN retained : \E i \in DOMAIN g.rest : g.rest[i] = x
      /\ \A i \in DOMAIN g.rest : g.rest[i] \in DOMAIN retained
      /\ \A i, j \in DOMAIN g.rest : g.rest[i] = g.rest[j] => i = j
  BY DEF Reaps
<1>3. t \in Threads /\ FramesSound /\ Nested /\ RetainerSound
  BY <1>1, Acyclic DEF IInv
<1>4. PICK m : m = 0
  OBVIOUS
<1>5. Steady(n, n)
  BY <1>1, SteadySame
<1>6. FrameSound(g, t, 1)'
  BY <1>1 DEF FrameSound, Holding, LoadOps
<1>7. Pushing(t, m, g, n)
  BY <1>1, <1>3, <1>4, <1>5, <1>6 DEF Pushing
<1>8. PICK new : new = <<g>>
  OBVIOUS
<1>9. /\ Step(t, m, <<g>>, n, n) /\ Short(t, m, <<g>>)
      /\ \A x : Gain(t, m, <<g>>, x) = Holds(g, x)
  BY ONLY <1>7, Types(n), PushStep
<1>10. \A x : Holds(g, x) = 0
  BY <1>1, HoldsNothing DEF Holding
<1>11. Step(t, m, new, n, n) /\ Short(t, m, new) /\ \A x : Gain(t, m, new, x) = 0
  BY <1>8, <1>9, <1>10
<1>12. new[1] = g /\ DOMAIN new = 1..1
  BY <1>8
<1>13. ReapCalls(t, new)
  BY <1>1, <1>12 DEF ReapCalls
<1>14. \A x \in 1..n : entries[x].strong \in Nat /\ Marked(retained, x) \in Nat
  BY Counting DEF Marked
<1>15. ReapsEntries(n) /\ Follows(new, n)
  BY <1>1, <1>14 DEF ReapsEntries, Follows
<1>16. stack'[Painter] # <<>> /\ stack'[Painter][1] = g
  <2>1. stack'[t] = Append(<<>>, g)
    BY <1>1, <1>3 DEF Types
  <2>2. QED
    BY <1>1, <2>1
<1>17. RetainerSound'
  <2>1. Reaping' /\ stack'[Painter][1].rest = g.rest
    BY <1>1, <1>16 DEF Reaping
  <2>2. ~Reaping
    BY <1>1 DEF Reaping
  <2>3. /\ DOMAIN retained = used \cup used_before /\ \A x \in DOMAIN retained : retained[x] <=> x \in used
        /\ retained = [x \in DOMAIN retained |-> retained[x]]
    BY <1>3, <2>2 DEF RetainerSound
  <2>4. \A x \in DOMAIN retained : x \in {g.rest[i] : i \in DOMAIN g.rest}
    BY <1>2
  <2>5. QED
    BY <1>1, <1>2, <2>1, <2>3, <2>4 DEF RetainerSound
<1>18. used' \subseteq 1..n /\ used_before' \subseteq 1..n /\ \A x \in DOMAIN retained' : retained'[x] \in BOOLEAN
  BY <1>1 DEF Rest
<1>19. DOMAIN retained' \subseteq DOMAIN retained
  BY <1>1
<1>20. QED
  BY <1>1, <1>11, <1>13, <1>15, <1>17, <1>18, <1>19, ReapingStep

LEMMA ReapStep ==
  ASSUME IInv, Reap
  PROVE  IInv'
<1>1. PICK n : Types(n) /\ Rest(n) /\ n = Len(entries)
  BY IdleSetup
<1>2. PICK t : t = Painter
  OBVIOUS
<1>3. stack[t] = <<>> /\ retained # <<>>
  BY <1>2 DEF Reap, Idle
<1>4. PICK k : k = entries[CHOOSE x \in DOMAIN retained : TRUE].key
  OBVIOUS
<1>5. PICK s : s = SetToSeq(DOMAIN retained)
  OBVIOUS
<1>6. PICK op, c, h : op = "reap" /\ c = "user" /\ h = Frame(op, c, k, NoEntry)
  OBVIOUS
<1>7. PICK g : g = [h EXCEPT !.rest = s]
  OBVIOUS
<1>8. DOMAIN retained # {}
  <2>1. retained = [x \in DOMAIN retained |-> retained[x]]
    BY DEF IInv, RetainerSound
  <2>2. DOMAIN retained = {} => retained = <<>>
    BY <2>1
  <2>3. QED
    BY <1>3, <2>2
<1>9. k \in Keys /\ DOMAIN retained \subseteq 1..n
  <2>1. DOMAIN retained \subseteq 1..n
    BY <1>1 DEF Types
  <2>2. (CHOOSE x \in DOMAIN retained : TRUE) \in DOMAIN retained
    BY <1>8
  <2>3. QED
    BY <1>1, <1>4, <2>1, <2>2, Counting
<1>10. IsFiniteSet(DOMAIN retained)
  <2>1. IsFiniteSet(1..n)
    BY <1>1, FS_Interval DEF Types
  <2>2. DOMAIN retained \in SUBSET (1..n)
    BY <1>9
  <2>3. QED
    BY <2>1, <2>2, FS_Subset
<1>11. /\ s \in Seq(DOMAIN retained) /\ \A x \in DOMAIN retained : \E i \in DOMAIN s : s[i] = x
       /\ \A i, j \in DOMAIN s : s[i] = s[j] => i = j
  BY <1>5, <1>10, SetToSeqIs
<1>12. s \in Seq(1..n) /\ \A i \in DOMAIN s : s[i] \in DOMAIN retained
  <2>1. PICK D, N : D = DOMAIN retained /\ N = 1..n
    OBVIOUS
  <2>2. s \in Seq(D) /\ D \subseteq N
    BY <1>9, <1>11, <2>1
  <2>3. s \in Seq(N) /\ \A i \in DOMAIN s : s[i] \in D
    BY <2>2
  <2>4. QED
    BY <2>1, <2>3
<1>13. g \in FrameOf(n) /\ g.op = "reap" /\ g.caller = "user" /\ g.rest = s
  <2>1. PICK e : e = NoEntry
    OBVIOUS
  <2>2. op \in Ops /\ c \in Callers /\ e \in (1..n) \cup {NoEntry} /\ n \in Nat /\ k \in Keys
    BY <1>1, <1>6, <1>9, <2>1 DEF Ops, Callers, Types
  <2>3. /\ Frame(op, c, k, e) \in FrameOf(n)
        /\ Frame(op, c, k, e).op = op /\ Frame(op, c, k, e).caller = c
    BY ONLY <2>2, AFrame
  <2>4. h \in FrameOf(n) /\ h.op = op /\ h.caller = c
    BY <1>6, <2>1, <2>3
  <2>5. g \in FrameOf(n) /\ g.op = op /\ g.caller = c /\ g.rest = s
    BY <1>7, <1>12, <2>4 DEF FrameOf
  <2>6. QED
    BY <1>6, <2>5
<1>14. /\ stack' = [stack EXCEPT ![t] = Append(@, g)]
       /\ used_before' = used /\ used' = {}
       /\ asset_map' = asset_map /\ entries' = entries /\ held' = held /\ retained' = retained
       /\ loads' = loads /\ panics' = panics
  <2>1. stack' = [stack EXCEPT ![t] = <<g>>]
    BY <1>2, <1>4, <1>5, <1>6, <1>7 DEF Reap
  <2>2. Append(stack[t], g) = <<g>>
    BY <1>3
  <2>3. QED
    BY <2>1, <2>2 DEF Reap
<1>15. Reaps(t, g, n)
  BY <1>2, <1>3, <1>11, <1>12, <1>13, <1>14 DEF Reaps
<1>16. QED
  BY <1>1, <1>15, ReapBegins

\* e is the first of the elements of s, which are all different, and r the others.
FirstOf(S, s, e, r) ==
  /\ s \in Seq(S) /\ s # <<>> /\ e = Head(s) /\ r = Tail(s)
  /\ \A i, j \in DOMAIN s : s[i] = s[j] => i = j

Others(s, e, r) ==
  /\ \E i \in DOMAIN s : s[i] = e
  /\ \A x : (\E i \in DOMAIN r : r[i] = x) <=> (\E i \in DOMAIN s : s[i] = x) /\ x # e
  /\ \A i, j \in DOMAIN r : r[i] = r[j] => i = j

LEMMA TailElements ==
  ASSUME NEW S, NEW s, NEW e, NEW r, FirstOf(S, s, e, r)
  PROVE  r \in Seq(S) /\ e \in S /\ Others(s, e, r)
<1> SUFFICES ASSUME s \in Seq(S), s # <<>>, e = Head(s), r = Tail(s),
                    \A i, j \in DOMAIN s : s[i] = s[j] => i = j
             PROVE  r \in Seq(S) /\ e \in S /\ Others(s, e, r)
  BY DEF FirstOf
<1>1. /\ Len(s) \in Nat /\ Len(s) >= 1 /\ DOMAIN s = 1..Len(s) /\ 1 \in DOMAIN s /\ e = s[1] /\ e \in S
  OBVIOUS
<1>2. /\ r \in Seq(S) /\ DOMAIN r = 1..(Len(s) - 1)
      /\ \A i \in DOMAIN r : i + 1 \in DOMAIN s /\ r[i] = s[i + 1]
  OBVIOUS
<1>3. \A i \in DOMAIN s : i # 1 => i - 1 \in DOMAIN r /\ r[i - 1] = s[i]
  BY <1>1, <1>2
<1>4. \A x : (\E i \in DOMAIN r : r[i] = x) <=> (\E i \in DOMAIN s : s[i] = x) /\ x # e
  <2> SUFFICES ASSUME NEW x
               PROVE  (\E i \in DOMAIN r : r[i] = x) <=> (\E i \in DOMAIN s : s[i] = x) /\ x # e
    OBVIOUS
  <2>1. ASSUME NEW i \in DOMAIN r, r[i] = x PROVE (\E j \in DOMAIN s : s[j] = x) /\ x # e
    <3>1. i + 1 \in DOMAIN s /\ s[i + 1] = x /\ i + 1 # 1
      BY <1>2, <2>1
    <3>2. QED
      BY <1>1, <3>1
  <2>2. ASSUME NEW i \in DOMAIN s, s[i] = x, x # e PROVE \E j \in DOMAIN r : r[j] = x
    <3>1. i # 1
      BY <1>1, <2>2
    <3>2. QED
      BY <1>3, <2>2, <3>1
  <2>3. QED
    BY <2>1, <2>2
<1>5. \A i, j \in DOMAIN r : r[i] = r[j] => i = j
  <2> SUFFICES ASSUME NEW i \in DOMAIN r, NEW j \in DOMAIN r, r[i] = r[j] PROVE i = j
    OBVIOUS
  <2>1. i + 1 \in DOMAIN s /\ j + 1 \in DOMAIN s /\ s[i + 1] = s[j + 1]
    BY <1>2
  <2>2. i + 1 = j + 1
    BY <2>1
  <2>3. QED
    BY <1>2, <2>2
<1>6. QED
  BY <1>1, <1>2, <1>4, <1>5 DEF Others

\* The retainer once the reap has looked at e.
Marks(e) ==
  \/ retained[e] /\ retained' = [retained EXCEPT ![e] = FALSE]
  \/ ~retained[e] /\ retained' = [x \in DOMAIN retained \ {e} |-> retained[x]]

ReapGoesOn(f, e, g) ==
  /\ RetainerSound /\ stack[Painter] # <<>> /\ f = stack[Painter][1] /\ f.op = "reap" /\ f.rest # <<>>
  /\ stack'[Painter] # <<>> /\ g = stack'[Painter][1] /\ g.op = "reap"
  /\ e = Head(f.rest) /\ g.rest = Tail(f.rest)
  /\ used' = used /\ used_before' = used_before
  /\ Marks(e)

LEMMA MarksSound ==
  ASSUME NEW n, NEW f \in FrameOf(n), NEW e, NEW g, ReapGoesOn(f, e, g),
         \A x \in DOMAIN retained : retained[x] \in BOOLEAN
  PROVE  /\ RetainerSound'
         /\ e \in DOMAIN retained
         /\ DOMAIN retained' = DOMAIN retained \ (IF retained[e] THEN {} ELSE {e})
         /\ \A x \in DOMAIN retained' : retained'[x] \in BOOLEAN
<1>1. /\ RetainerSound /\ stack[Painter] # <<>> /\ f = stack[Painter][1] /\ f.op = "reap" /\ f.rest # <<>>
      /\ stack'[Painter] # <<>> /\ g = stack'[Painter][1] /\ g.op = "reap"
      /\ e = Head(f.rest) /\ g.rest = Tail(f.rest) /\ used' = used /\ used_before' = used_before /\ Marks(e)
  BY DEF ReapGoesOn
<1>2. PICK s, r : s = f.rest /\ r = g.rest
  OBVIOUS
<1>3. Reaping /\ Reaping'
  BY <1>1 DEF Reaping
<1>4. /\ retained = [x \in DOMAIN retained |-> retained[x]]
      /\ used = {} /\ used_before \subseteq DOMAIN retained
      /\ \A i, j \in DOMAIN s : s[i] = s[j] => i = j
      /\ \A i \in DOMAIN s : s[i] \in DOMAIN retained
      /\ \A x \in DOMAIN retained :
           IF \E i \in DOMAIN s : s[i] = x THEN retained[x] <=> x \in used_before
           ELSE x \in used_before /\ ~retained[x]
  <2>1. s = stack[Painter][1].rest
    BY <1>1, <1>2
  <2>2. \A x : x \in {s[i] : i \in DOMAIN s} <=> \E i \in DOMAIN s : s[i] = x
    OBVIOUS
  <2>3. QED
    BY <1>1, <1>3, <2>1, <2>2 DEF RetainerSound
<1>5. /\ \E i \in DOMAIN s : s[i] = e
      /\ \A x : (\E i \in DOMAIN r : r[i] = x) <=> (\E i \in DOMAIN s : s[i] = x) /\ x # e
      /\ \A i, j \in DOMAIN r : r[i] = r[j] => i = j
  <2>1. PICK S : S = 1..n
    OBVIOUS
  <2>2. s \in Seq(S) /\ s # <<>> /\ e = Head(s) /\ r = Tail(s)
    BY <1>1, <1>2, <2>1 DEF FrameOf
  <2>3. \A i, j \in DOMAIN s : s[i] = s[j] => i = j
    BY <1>4
  <2>4. FirstOf(S, s, e, r)
    BY ONLY <2>2, <2>3 DEF FirstOf
  <2>5. Others(s, e, r)
    BY ONLY <2>4, TailElements
  <2>6. QED
    BY ONLY <2>5 DEF Others
<1>6. e \in DOMAIN retained /\ (retained[e] <=> e \in used_before)
  BY <1>4, <1>5
<1>7. /\ DOMAIN retained' = DOMAIN retained \ (IF retained[e] THEN {} ELSE {e})
      /\ \A x \in DOMAIN retained' : retained'[x] = IF x = e THEN FALSE ELSE retained[x]
      /\ retained' = [x \in DOMAIN retained' |-> retained'[x]]
  <2>1. CASE retained[e]
    <3>1. retained' = [retained EXCEPT ![e] = FALSE]
      BY <1>1, <2>1 DEF Marks
    <3>2. PICK a, b : a = retained /\ b = retained'
      OBVIOUS
    <3>3. b = [a EXCEPT ![e] = FALSE] /\ e \in DOMAIN a
      BY <1>6, <3>1, <3>2
    <3>4. DOMAIN b = DOMAIN a /\ \A x \in DOMAIN b : b[x] = IF x = e THEN FALSE ELSE a[x]
      BY ONLY <3>3
    <3>5. b = [x \in DOMAIN b |-> b[x]]
      BY ONLY <3>3
    <3>6. DOMAIN a \ {} = DOMAIN a
      OBVIOUS
    <3>7. QED
      BY <2>1, <3>2, <3>4, <3>5, <3>6
  <2>2. CASE ~retained[e]
    <3>1. retained' = [x \in DOMAIN retained \ {e} |-> retained[x]]
      BY <1>1, <2>2 DEF Marks
    <3>2. QED
      BY <2>2, <3>1
  <2>3. QED
    BY <2>1, <2>2
<1>8. \A x \in DOMAIN retained' : retained'[x] \in BOOLEAN
  BY <1>7
<1>9. used_before \subseteq DOMAIN retained'
  BY <1>4, <1>6, <1>7
<1>10. \A i \in DOMAIN r : r[i] \in DOMAIN retained'
  <2> SUFFICES ASSUME NEW i \in DOMAIN r PROVE r[i] \in DOMAIN retained'
    OBVIOUS
  <2>1. (\E j \in DOMAIN s : s[j] = r[i]) /\ r[i] # e
    BY <1>5
  <2>2. QED
    BY <1>4, <1>7, <2>1
<1>11. \A x \in DOMAIN retained' :
         IF \E i \in DOMAIN r : r[i] = x THEN retained'[x] <=> x \in used_before
         ELSE x \in used_before /\ ~retained'[x]
  <2> SUFFICES ASSUME NEW x \in DOMAIN retained'
               PROVE  IF \E i \in DOMAIN r : r[i] = x THEN retained'[x] <=> x \in used_before
                      ELSE x \in used_before /\ ~retained'[x]
    OBVIOUS
  <2>1. CASE x = e
    <3>1. retained[e] /\ ~retained'[e] /\ e \in used_before
      BY <1>6, <1>7, <2>1
    <3>2. ~(\E i \in DOMAIN r : r[i] = x)
      BY <1>5, <2>1
    <3>3. QED
      BY <2>1, <3>1, <3>2
  <2>2. CASE x # e
    <3>1. x \in DOMAIN retained /\ retained'[x] = retained[x]
      BY <1>7, <2>2
    <3>2. (\E i \in DOMAIN r : r[i] = x) <=> (\E i \in DOMAIN s : s[i] = x)
      BY <1>5, <2>2
    <3>3. QED
      BY <1>4, <3>1, <3>2
  <2>3. QED
    BY <2>1, <2>2
<1>12. RetainerSound'
  <2>1. r = stack'[Painter][1].rest
    BY <1>1, <1>2
  <2>2. \A x : x \in {r[i] : i \in DOMAIN r} <=> \E i \in DOMAIN r : r[i] = x
    OBVIOUS
  <2>3. used' = {} /\ used_before' \subseteq DOMAIN retained'
    BY <1>1, <1>4, <1>9
  <2>4. \A x \in DOMAIN retained' :
          IF x \in {r[i] : i \in DOMAIN r} THEN retained'[x] <=> x \in used_before'
          ELSE x \in used_before' /\ ~retained'[x]
    BY <1>1, <1>11, <2>2
  <2>5. QED
    BY <1>3, <1>5, <1>7, <1>10, <2>1, <2>3, <2>4 DEF RetainerSound
<1>13. QED
  BY <1>6, <1>7, <1>8, <1>12

\* The top call is a reap, which is alone on its stack.
LEMMA ReapTop ==
  ASSUME IInv, NEW t, NEW m, NEW f, NEW n, Topped(t, m, f, n), f.op = "reap"
  PROVE  /\ t = Painter /\ m = 0 /\ f.caller = "user" /\ f = stack[Painter][1] /\ stack[Painter] # <<>>
         /\ \A i \in DOMAIN stack[t] : stack[t][i].op = "reap"
         /\ \A x : Holds(f, x) = 0
<1>1. /\ m \in Nat /\ DOMAIN stack[t] = 1..(m + 1) /\ f = stack[t][m + 1] /\ f \in FrameOf(n)
      /\ FrameSound(f, t, m + 1) /\ stack[t] # <<>>
  BY DEF Topped
<1>2. t = Painter /\ m + 1 = 1
  BY <1>1 DEF FrameSound
<1>3. m = 0
  BY <1>1, <1>2
<1>4. f.caller \in Callers /\ f.caller # "loader" /\ f.caller # "retainer"
  BY <1>1 DEF FrameSound, LoadOps, FrameOf
<1>5. f = stack[t][1] /\ \A i \in DOMAIN stack[t] : i = 1
  BY <1>1, <1>3
<1>6. \A x : Holds(f, x) = 0
  BY HoldsNothing DEF Holding
<1>7. QED
  BY <1>1, <1>2, <1>3, <1>4, <1>5, <1>6 DEF Callers

\* The reap has looked at all that there was.
LEMMA ReapEnds ==
  ASSUME IInv, NEW t, NEW m, NEW f, NEW n, Topped(t, m, f, n), f.op = "reap", f.rest = <<>>,
         stack' = [stack EXCEPT ![t] = Front(@)],
         UNCHANGED <<asset_map, entries, held, retained, used, used_before, loads, panics>>
  PROVE  IInv'
<1>1. /\ Types(n) /\ Rest(n) /\ t \in Threads /\ m \in Nat /\ Len(stack[t]) = m + 1 /\ f = Top(t)
      /\ FramesSound /\ Nested /\ RetainerSound
  BY DEF Topped, IInv
<1>2. /\ t = Painter /\ m = 0 /\ f.caller = "user" /\ f = stack[Painter][1] /\ stack[Painter] # <<>>
      /\ \A i \in DOMAIN stack[t] : stack[t][i].op = "reap"
      /\ \A x : Holds(f, x) = 0
  BY ReapTop
<1>3. Steady(n, n)
  BY <1>1, SteadySame
<1>4. Popping(t, m, n)
  BY <1>1, <1>2, <1>3 DEF Popping
<1>5. PICK new : new = <<>>
  OBVIOUS
<1>6. /\ Step(t, m, <<>>, n, n) /\ Short(t, m, <<>>)
      /\ \A x : Gain(t, m, <<>>, x) = 0 - Holds(Top(t), x)
  BY ONLY <1>1, <1>4, PopStep
<1>7. Step(t, m, new, n, n) /\ Short(t, m, new) /\ \A x : Gain(t, m, new, x) = 0
  BY <1>1, <1>2, <1>5, <1>6
<1>8. ReapCalls(t, new)
  BY <1>2, <1>5 DEF ReapCalls
<1>9. \A x \in 1..n : entries[x].strong \in Nat /\ Marked(retained, x) \in Nat
  BY <1>1, Counting DEF Marked
<1>10. ReapsEntries(n) /\ Follows(new, n)
  BY <1>9 DEF ReapsEntries, Follows
<1>11. stack'[Painter] = <<>>
  <2>1. /\ stack' \in [Threads -> Seq(FrameOf(n))]
        /\ Len(stack'[t]) = m + Len(new)
    BY <1>1, <1>7, StepStack
  <2>2. Len(stack'[t]) = 0 /\ stack'[t] \in Seq(FrameOf(n))
    BY <1>1, <1>2, <1>5, <2>1
  <2>3. QED
    BY <1>2, <2>2
<1>12. RetainerSound'
  <2>1. ~Reaping'
    BY <1>11 DEF Reaping
  <2>2. Reaping /\ {f.rest[i] : i \in DOMAIN f.rest} = {}
    BY <1>2 DEF Reaping
  <2>3. /\ retained = [x \in DOMAIN retained |-> retained[x]]
        /\ used = {} /\ used_before \subseteq DOMAIN retained
        /\ \A x \in DOMAIN retained : x \in used_before /\ ~retained[x]
    BY <1>1, <1>2, <2>2 DEF RetainerSound
  <2>4. /\ DOMAIN retained = used \cup used_before
        /\ \A x \in DOMAIN retained : retained[x] <=> x \in used
    BY <2>3
  <2>5. QED
    BY <2>1, <2>3, <2>4 DEF RetainerSound
<1>13. /\ used' \subseteq 1..n /\ used_before' \subseteq 1..n /\ DOMAIN retained' \subseteq DOMAIN retained
       /\ \A x \in DOMAIN retained' : retained'[x] \in BOOLEAN
  BY <1>1 DEF Rest
<1>14. QED
  BY <1>1, <1>7, <1>8, <1>10, <1>12, <1>13, ReapingStep

\* The reap looks at e, and the step may call the remover of e.
ReapLooks(t, m, f, e, g, n) ==
  /\ Topped(t, m, f, n) /\ f.op = "reap" /\ f.rest # <<>>
  /\ e = Head(f.rest) /\ g.op = "reap" /\ g.rest = Tail(f.rest)
  /\ Marks(e)
  /\ ReapsEntries(n)
  /\ asset_map' = asset_map /\ held' = held /\ used' = used /\ used_before' = used_before
  /\ loads' = loads /\ panics' = panics

LEMMA ReapContinues ==
  ASSUME IInv, NEW t, NEW m, NEW f, NEW e, NEW g, NEW n, ReapLooks(t, m, f, e, g, n),
         NEW new, new # <<>>, new[1] = g, \A j \in DOMAIN new : new[j].op \in {"reap", "remove"},
         Step(t, m, new, n, n), Short(t, m, new), \A x : Gain(t, m, new, x) = 0, Follows(new, n)
  PROVE  IInv'
<1>1. /\ Topped(t, m, f, n) /\ f.op = "reap" /\ f.rest # <<>>
      /\ e = Head(f.rest) /\ g.op = "reap" /\ g.rest = Tail(f.rest)
      /\ Marks(e) /\ ReapsEntries(n)
      /\ asset_map' = asset_map /\ held' = held /\ used' = used /\ used_before' = used_before
      /\ loads' = loads /\ panics' = panics
  BY DEF ReapLooks
<1>2. Types(n) /\ Rest(n) /\ f \in FrameOf(n) /\ RetainerSound /\ m \in Nat
  BY <1>1 DEF Topped, IInv
<1>3. /\ t = Painter /\ m = 0 /\ f = stack[Painter][1] /\ stack[Painter] # <<>>
      /\ \A i \in DOMAIN stack[t] : stack[t][i].op = "reap"
  BY <1>1, ReapTop
<1>4. stack'[Painter] # <<>> /\ g = stack'[Painter][1]
  <2>1. /\ Len(stack'[t]) = m + Len(new)
        /\ \A i \in 1..Len(new) : \A j : j = m + i => stack'[t][j] = new[i]
    BY <1>2, StepStack
  <2>2. new \in Seq(FrameOf(n))
    BY DEF Step
  <2>3. 1 \in 1..Len(new) /\ 1 = m + 1 /\ Len(new) \in Nat /\ Len(new) > 0
    BY <1>3, <2>2
  <2>4. stack'[t][1] = new[1] /\ Len(stack'[t]) > 0
    BY <1>3, <2>1, <2>3
  <2>5. stack'[t] # <<>>
    BY <2>4
  <2>6. QED
    BY <1>3, <2>4, <2>5
<1>5. ReapGoesOn(f, e, g)
  BY <1>1, <1>2, <1>3, <1>4 DEF ReapGoesOn
<1>6. \A x \in DOMAIN retained : retained[x] \in BOOLEAN
  BY <1>2 DEF Rest
<1>7. /\ RetainerSound'
      /\ DOMAIN retained' = DOMAIN retained \ (IF retained[e] THEN {} ELSE {e})
      /\ \A x \in DOMAIN retained' : retained'[x] \in BOOLEAN
  BY <1>2, <1>5, <1>6, MarksSound
<1>8. ReapCalls(t, new)
  BY <1>3 DEF ReapCalls
<1>9. /\ used' \subseteq 1..n /\ used_before' \subseteq 1..n /\ DOMAIN retained' \subseteq DOMAIN retained
  BY <1>1, <1>2, <1>7 DEF Rest
<1>10. QED
  BY <1>1, <1>2, <1>7, <1>8, <1>9, ReapingStep

\* The rest of a reap goes on in g.
ReapOn(t, m, f, e, g, n) ==
  /\ Topped(t, m, f, n) /\ f.op = "reap" /\ f.rest # <<>>
  /\ e = Head(f.rest) /\ g = [f EXCEPT !.rest = Tail(@)]
  /\ Steady(n, n) /\ \A x \in 1..n : entries'[x].keep = entries[x].keep /\ entries'[x].value = entries[x].value
  /\ held' = held

LEMMA ReapRest ==
  ASSUME IInv, NEW t, NEW m, NEW f, NEW e, NEW g, NEW n, ReapOn(t, m, f, e, g, n)
  PROVE  /\ g \in FrameOf(n) /\ g.op = "reap" /\ g.rest = Tail(f.rest) /\ e \in 1..n
         /\ g.caller = f.caller /\ g.key = f.key
         /\ FrameSound(g, t, m + 1)'
         /\ e \in DOMAIN retained
         /\ \A x : Holds(g, x) = 0
<1>1. /\ Topped(t, m, f, n) /\ f.op = "reap" /\ f.rest # <<>>
      /\ e = Head(f.rest) /\ g = [f EXCEPT !.rest = Tail(@)]
      /\ Steady(n, n) /\ held' = held
  BY DEF ReapOn
<1>2. Types(n) /\ f \in FrameOf(n) /\ FrameSound(f, t, m + 1) /\ RetainerSound /\ t \in Threads /\ m \in Nat
  BY <1>1 DEF Topped, IInv
<1>3. /\ g \in FrameOf(n) /\ g.op = "reap" /\ g.rest = Tail(f.rest) /\ e \in 1..n /\ g.caller = f.caller
      /\ e = f.rest[1] /\ 1 \in DOMAIN f.rest /\ g.entry = f.entry /\ g.key = f.key
  <2> DEFINE N == 1..n
  <2>1. f.rest \in Seq(N)
    BY <1>2 DEF FrameOf
  <2> HIDE DEF N
  <2>2. Tail(f.rest) \in Seq(N) /\ e \in N /\ e = f.rest[1] /\ 1 \in DOMAIN f.rest
    BY <1>1, <2>1
  <2>3. g \in FrameOf(n)
    BY <1>1, <1>2, <2>2 DEF FrameOf, N
  <2>4. QED
    BY <1>1, <1>2, <2>2, <2>3 DEF FrameOf, N
<1>4. t = Painter /\ m = 0 /\ f.caller = "user" /\ f = stack[Painter][1] /\ stack[Painter] # <<>>
  BY <1>1, ReapTop
<1>5. Reaping
  BY <1>1, <1>4 DEF Reaping
<1>6. e \in DOMAIN retained
  BY <1>2, <1>3, <1>4, <1>5 DEF RetainerSound
<1>7. FrameSound(g, t, m + 1)'
  BY <1>3, <1>4 DEF FrameSound, Holding, LoadOps
<1>8. \A x : Holds(g, x) = 0
  BY <1>3, HoldsNothing DEF Holding
<1>9. QED
  BY <1>3, <1>6, <1>7, <1>8

\* e is still retained, or somebody else owns it.
LEMMA ReapPasses ==
  ASSUME IInv, NEW t, NEW m, NEW f, NEW e, NEW g, NEW n, ReapOn(t, m, f, e, g, n), ReapLooks(t, m, f, e, g, n),
         stack' = [stack EXCEPT ![t] = Becomes(@, g)],
         \A x \in 1..n : entries[x].strong > 0 => entries'[x].strong > 0
  PROVE  IInv'
<1>1. /\ g \in FrameOf(n) /\ g.op = "reap" /\ FrameSound(g, t, m + 1)' /\ \A x : Holds(g, x) = 0
      /\ g.caller = f.caller /\ g.key = f.key
  BY ReapRest
<1>2. /\ Topped(t, m, f, n) /\ f.op = "reap" /\ Steady(n, n) /\ held' = held
      /\ \A x \in 1..n : entries'[x].value = entries[x].value
  BY DEF ReapOn
<1>3. /\ Types(n) /\ t \in Threads /\ m \in Nat /\ Len(stack[t]) = m + 1 /\ f = Top(t) /\ FramesSound /\ Nested
  BY <1>2 DEF Topped, IInv
<1>4. Becoming(t, m, g, n, n)
  BY <1>1, <1>2, <1>3 DEF Becoming
<1>5. /\ Step(t, m, <<g>>, n, n) /\ Short(t, m, <<g>>)
      /\ \A x : Gain(t, m, <<g>>, x) = Holds(g, x) - Holds(Top(t), x)
  BY ONLY <1>3, <1>4, BecomesStep
<1>6. \A x : Holds(f, x) = 0
  BY <1>2, ReapTop
<1>7. PICK new : new = <<g>>
  OBVIOUS
<1>8. Step(t, m, new, n, n) /\ Short(t, m, new) /\ \A x : Gain(t, m, new, x) = 0
  BY <1>1, <1>3, <1>5, <1>6, <1>7
<1>9. new # <<>> /\ new[1] = g /\ \A j \in DOMAIN new : new[j] = g
  BY <1>7
<1>10. Follows(new, n)
  <2>1. \A x \in 1..n : ~(entries[x].strong > 0 /\ entries'[x].strong = 0)
    <3>1. \A x \in 1..n : entries[x].strong > 0 => entries'[x].strong > 0
      OBVIOUS
    <3>2. QED
      BY ONLY <3>1
  <2>2. QED
    BY <2>1 DEF Follows
<1>11. \A j \in DOMAIN new : new[j].op \in {"reap", "remove"}
  BY <1>1, <1>9
<1>12. QED
  BY <1>8, <1>9, <1>10, <1>11, ReapContinues

\* The retainer was the last to own e.
ReapDrops(t, e, g, h, n) ==
  /\ h = Frame("remove", "user", entries[e].key, e)
  /\ stack' = [stack EXCEPT ![t] = Append(Becomes(@, g), h)]
  /\ entries'[e].strong = 0
  /\ \A x \in 1..n : entries[x].strong > 0 /\ entries'[x].strong = 0 => x = e

LEMMA ReapRemoves ==
  ASSUME IInv, NEW t, NEW m, NEW f, NEW e, NEW g, NEW n, ReapOn(t, m, f, e, g, n), ReapLooks(t, m, f, e, g, n),
         NEW h, ReapDrops(t, e, g, h, n)
  PROVE  IInv'
<1> SUFFICES ASSUME h = Frame("remove", "user", entries[e].key, e),
                    stack' = [stack EXCEPT ![t] = Append(Becomes(@, g), h)],
                    entries'[e].strong = 0,
                    \A x \in 1..n : entries[x].strong > 0 /\ entries'[x].strong = 0 => x = e
             PROVE  IInv'
  BY DEF ReapDrops
<1>1. /\ g \in FrameOf(n) /\ g.op = "reap" /\ FrameSound(g, t, m + 1)' /\ \A x : Holds(g, x) = 0
      /\ g.caller = f.caller /\ g.key = f.key /\ e \in 1..n
  BY ReapRest
<1>2. /\ Topped(t, m, f, n) /\ f.op = "reap" /\ Steady(n, n) /\ held' = held
      /\ \A x \in 1..n : entries'[x].value = entries[x].value
  BY DEF ReapOn
<1>3. /\ Types(n) /\ t \in Threads /\ m \in Nat /\ Len(stack[t]) = m + 1 /\ f = Top(t) /\ FramesSound /\ Nested
  BY <1>2 DEF Topped, IInv
<1>4. /\ h \in FrameOf(n) /\ h.op = "remove" /\ h.caller = "user" /\ h.entry = e /\ h.rest = <<>>
  <2>1. n \in Nat /\ entries[e].key \in Keys
    BY <1>1, <1>3, Counting DEF Types
  <2>2. "remove" \in Ops /\ "user" \in Callers /\ e \in (1..n) \cup {NoEntry}
    BY <1>1 DEF Ops, Callers
  <2>3. h = Frame("remove", "user", entries[e].key, e)
    OBVIOUS
  <2>4. QED
    BY ONLY <2>1, <2>2, <2>3, AFrame
<1>5. FrameSound(h, t, m + 2)'
  <2>1. e \in Entry'
    BY <1>1, <1>2 DEF Steady, Entry
  <2>2. PICK k, i : k = entries[e].key /\ i = m + 2
    OBVIOUS
  <2>3. FrameSound(Frame("remove", "user", k, e), t, i)'
    BY <2>1, RemoverSound
  <2>4. h = Frame("remove", "user", k, e)
    BY <2>2
  <2>5. QED
    BY <2>2, <2>3, <2>4 DEF FrameSound
<1>6. MayCall(g, h)
  BY <1>1, <1>4 DEF MayCall
<1>7. Calling(t, m, g, h, n, n)
  BY <1>1, <1>2, <1>3, <1>4, <1>5, <1>6 DEF Calling
<1>8. /\ Step(t, m, <<g, h>>, n, n) /\ Short(t, m, <<g, h>>)
      /\ \A x : Gain(t, m, <<g, h>>, x) = Holds(g, x) + Holds(h, x) - Holds(Top(t), x)
  <2>1. Types(n) /\ FramesSound /\ Nested
    BY <1>3
  <2>2. QED
    BY ONLY <2>1, <1>7, CallsStep
<1>9. \A x : Holds(f, x) = 0
  BY <1>2, ReapTop
<1>10. \A x : Holds(h, x) = 0
  BY <1>4, HoldsNothing DEF Holding
<1>11. PICK new : new = <<g, h>>
  OBVIOUS
<1>12. Step(t, m, new, n, n) /\ Short(t, m, new) /\ \A x : Gain(t, m, new, x) = 0
  BY <1>1, <1>3, <1>8, <1>9, <1>10, <1>11
<1>13. new # <<>> /\ new[1] = g /\ new[2] = h /\ DOMAIN new = 1..2
  BY <1>11
<1>14. \A j \in DOMAIN new : new[j].op \in {"reap", "remove"}
  <2>1. \A j \in DOMAIN new : j = 1 \/ j = 2
    BY <1>13
  <2>2. QED
    BY <1>1, <1>4, <1>13, <2>1
<1>15. Follows(new, n)
  <2>1. new[2].op = "remove" /\ new[2].entry = e /\ 2 \in DOMAIN new
    BY <1>4, <1>13
  <2>2. QED
    BY <2>1 DEF Follows
<1>16. QED
  BY <1>12, <1>13, <1>14, <1>15, ReapContinues

LEMMA ReapNextStep ==
  ASSUME IInv, ReapNext
  PROVE  IInv'
<1>1. PICK t : t = Painter
  OBVIOUS
<1>2. t \in Threads /\ stack[t] # <<>> /\ Top(t).op = "reap"
  BY <1>1, Acyclic DEF ReapNext, In, Idle
<1>3. PICK n, m, f : Topped(t, m, f, n)
  BY <1>2, TopSetup
<1>4. PICK e, g : e = Head(f.rest) /\ g = [f EXCEPT !.rest = Tail(@)]
  OBVIOUS
<1>5. Types(n) /\ f = Top(t) /\ f.op = "reap" /\ f = Top(Painter) /\ Counted
  BY <1>1, <1>2, <1>3 DEF Topped, IInv
<1>6. UNCHANGED <<asset_map, held, used, used_before, loads, panics>>
  BY DEF ReapNext
<1>7. \/ /\ f.rest = <<>>
         /\ stack' = [stack EXCEPT ![t] = Front(@)]
         /\ UNCHANGED <<entries, retained>>
      \/ /\ f.rest # <<>> /\ retained[e]
         /\ retained' = [retained EXCEPT ![e] = FALSE]
         /\ stack' = [stack EXCEPT ![t] = Becomes(stack[t], g)]
         /\ UNCHANGED entries
      \/ /\ f.rest # <<>> /\ ~retained[e]
         /\ retained' = [x \in DOMAIN retained \ {e} |-> retained[x]]
         /\ entries' = Released(entries, e)
         /\ stack' = [stack EXCEPT ![t] = Dropping(Becomes(stack[t], g), entries, e)]
  BY <1>1, <1>4, <1>5 DEF ReapNext
<1>8. \A x \in 1..n : entries[x].strong \in Nat
  BY <1>5, Counting
<1>9. CASE f.rest = <<>>
  <2>1. UNCHANGED <<asset_map, entries, held, retained, used, used_before, loads, panics>>
    BY <1>6, <1>7, <1>9
  <2>2. stack' = [stack EXCEPT ![t] = Front(@)]
    BY <1>7, <1>9
  <2>3. QED
    BY <1>3, <1>5, <1>9, <2>1, <2>2, ReapEnds
<1>10. CASE f.rest # <<>> /\ retained[e]
  <2>1. entries' = entries /\ stack' = [stack EXCEPT ![t] = Becomes(@, g)]
        /\ retained' = [retained EXCEPT ![e] = FALSE]
    BY <1>7, <1>10
  <2>2. Steady(n, n) /\ \A x \in 1..n : entries'[x].keep = entries[x].keep /\ entries'[x].value = entries[x].value
    BY <1>5, <2>1, SteadySame
  <2>3. ReapOn(t, m, f, e, g, n)
    BY <1>3, <1>4, <1>5, <1>6, <1>10, <2>2 DEF ReapOn
  <2>4. g.op = "reap" /\ g.rest = Tail(f.rest) /\ e \in DOMAIN retained
    BY <2>3, ReapRest
  <2>5. Marks(e)
    BY <1>10, <2>1 DEF Marks
  <2>6. \A x \in 1..n : Marked(retained', x) = Marked(retained, x) /\ Marked(retained, x) \in Nat
    BY <2>1 DEF Marked
  <2>7. ReapsEntries(n)
    <3>1. entries' = entries
      BY <2>1
    <3>2. QED
      BY ONLY <1>8, <2>6, <3>1 DEF ReapsEntries
  <2>8. ReapLooks(t, m, f, e, g, n)
    BY <1>3, <1>4, <1>5, <1>6, <1>10, <2>4, <2>5, <2>7 DEF ReapLooks
  <2>9. \A x \in 1..n : entries[x].strong > 0 => entries'[x].strong > 0
    BY <2>1
  <2>10. QED
    BY <2>1, <2>3, <2>8, <2>9, ReapPasses
<1>11. CASE f.rest # <<>> /\ ~retained[e]
  <2>1. /\ retained' = [x \in DOMAIN retained \ {e} |-> retained[x]]
        /\ entries' = Released(entries, e)
        /\ stack' = [stack EXCEPT ![t] = Dropping(Becomes(@, g), entries, e)]
    BY <1>7, <1>11
  <2>2. e \in 1..n /\ e \in DOMAIN retained
    <3>1. f \in FrameOf(n) /\ RetainerSound /\ f = stack[Painter][1] /\ stack[Painter] # <<>>
      <4>1. f = stack[Painter][1] /\ stack[Painter] # <<>>
        BY <1>3, <1>5, ReapTop
      <4>2. f \in FrameOf(n)
        BY <1>3 DEF Topped
      <4>3. RetainerSound
        BY DEF IInv
      <4>4. QED
        BY <4>1, <4>2, <4>3
    <3>2. Reaping
      BY <1>5, <3>1 DEF Reaping
    <3>3. f.rest \in Seq(1..n)
      BY <3>1 DEF FrameOf
    <3>4. e = f.rest[1] /\ 1 \in DOMAIN f.rest
      BY <1>4, <1>11, <3>3
    <3>5. e \in DOMAIN retained
      BY <3>1, <3>2, <3>4 DEF RetainerSound
    <3>6. QED
      BY <1>5, <3>5 DEF Types
  <2>3. entries[e].strong > 0
    BY <1>5, <2>2, OwnedAlive
  <2>4. /\ Steady(n, n)
        /\ \A x \in 1..n : /\ entries'[x].keep = entries[x].keep /\ entries'[x].value = entries[x].value
                           /\ entries'[x].strong = entries[x].strong - (IF e = x THEN 1 ELSE 0)
    BY <1>5, <2>1, <2>2, <2>3, SteadyReleased
  <2>5. ReapOn(t, m, f, e, g, n)
    BY <1>3, <1>4, <1>5, <1>6, <1>11, <2>4 DEF ReapOn
  <2>6. g.op = "reap" /\ g.rest = Tail(f.rest)
    BY <2>5, ReapRest
  <2>7. Marks(e)
    BY <1>11, <2>1 DEF Marks
  <2>8. \A x \in 1..n : Marked(retained', x) - Marked(retained, x) = 0 - (IF e = x THEN 1 ELSE 0)
    <3>1. DOMAIN retained' = DOMAIN retained \ {e}
      BY <2>1
    <3>2. QED
      BY <2>2, <3>1 DEF Marked
  <2>9. ReapsEntries(n)
    <3>1. \A x \in 1..n : entries'[x].strong = entries[x].strong + (Marked(retained', x) - Marked(retained, x))
      BY <1>8, <2>4, <2>8
    <3>2. QED
      BY <2>4, <3>1 DEF ReapsEntries
  <2>10. ReapLooks(t, m, f, e, g, n)
    BY <1>3, <1>4, <1>5, <1>6, <1>11, <2>6, <2>7, <2>9 DEF ReapLooks
  <2>11. Released(entries, e)[e].strong = entries'[e].strong
    BY <2>1
  <2>12. CASE entries'[e].strong = 0
    <3>1. PICK h : h = Frame("remove", "user", entries[e].key, e)
      OBVIOUS
    <3>2. stack' = [stack EXCEPT ![t] = Append(Becomes(@, g), h)]
      BY <2>1, <2>11, <2>12, <3>1 DEF Dropping
    <3>3. \A x \in 1..n : entries[x].strong > 0 /\ entries'[x].strong = 0 => x = e
      BY <1>8, <2>4
    <3>4. ReapDrops(t, e, g, h, n)
      BY <2>12, <3>1, <3>2, <3>3 DEF ReapDrops
    <3>5. QED
      BY <2>5, <2>10, <3>4, ReapRemoves
  <2>13. CASE entries'[e].strong # 0
    <3>1. stack' = [stack EXCEPT ![t] = Becomes(@, g)]
      BY <2>1, <2>11, <2>13 DEF Dropping
    <3>2. \A x \in 1..n : entries[x].strong > 0 => entries'[x].strong > 0
      BY <1>8, <2>3, <2>4, <2>13
    <3>3. QED
      BY <2>5, <2>10, <3>1, <3>2, ReapPasses
  <2>14. QED
    BY <2>12, <2>13
<1>12. QED
  BY <1>9, <1>10, <1>11

----------------------------------------------------------------------------
(* The invariant *)

LEMMA InitIInv == Init => IInv
<1> SUFFICES ASSUME Init PROVE IInv
  OBVIOUS
<1>1. /\ asset_map = <<>> /\ entries = <<>> /\ stack = [t \in Threads |-> <<>>]
      /\ held = [t \in Threads |-> {}] /\ retained = <<>> /\ used = {} /\ used_before = {}
      /\ loads = 0 /\ panics = 0
  BY DEF Init
<1>2. DOMAIN asset_map = {} /\ DOMAIN entries = {} /\ Entry = {} /\ DOMAIN retained = {}
  BY <1>1 DEF Entry
<1>3. \A t \in Threads : stack[t] = <<>> /\ DOMAIN stack[t] = {}
  BY <1>1
<1>4. TypeOK
  <2>1. entries \in Seq([key : Keys, id : Nat, strong : Nat, keep : Seq(Entry),
                         value : {"empty", "busy", "ready"}])
    BY <1>1
  <2>2. \A F : stack \in [Threads -> Seq(F)]
    BY <1>1
  <2>3. held \in [Threads -> SUBSET Entry] /\ used \subseteq Entry /\ used_before \subseteq Entry
    BY <1>1
  <2>4. loads \in 0..MaxLoads /\ panics \in 0..MaxPanics
    BY <1>1, BoundsAssumption
  <2>5. QED
    BY <1>2, <2>1, <2>2, <2>3, <2>4 DEF TypeOK
<1>5. FramesSound /\ Nested
  BY <1>3 DEF FramesSound, Nested
<1>6. Counted /\ BusyOnce /\ KeepsSound
  BY <1>2 DEF Counted, BusyOnce, KeepsSound
<1>7. HeldReady
  BY <1>1, <1>2 DEF HeldReady
<1>8. MapSound /\ LiveIsShared /\ NothingLeaks
  BY <1>2 DEF MapSound, LiveIsShared, NothingLeaks
<1>9. RetainerSound
  <2>1. Painter \in Threads
    BY Acyclic
  <2>2. ~Reaping
    BY <1>3, <2>1 DEF Reaping
  <2>3. retained = [e \in DOMAIN retained |-> retained[e]]
    BY <1>1
  <2>4. QED
    BY <1>1, <1>2, <2>2, <2>3 DEF RetainerSound
<1>10. QED
  BY <1>4, <1>5, <1>6, <1>7, <1>8, <1>9 DEF IInv

LEMMA LoadIInv ==
  ASSUME IInv, NEW t \in Threads, NEW k \in Keys, Load(t, k)
  PROVE  IInv'
<1>1. PICK c : c = "user"
  OBVIOUS
<1>2. c \in {"user", "retainer"} /\ (c = "retainer" => t = Painter)
  BY <1>1
<1>3. /\ Wants(t, k) /\ loads < MaxLoads /\ loads' = loads + 1 /\ Calls(t, k, c)
      /\ UNCHANGED <<asset_map, entries, held, retained, used, used_before, panics>>
  BY <1>1 DEF Load
<1>4. QED
  BY <1>2, <1>3, LoadStep

LEMMA RetainerLoadIInv ==
  ASSUME IInv, NEW k \in Keys, RetainerLoad(k)
  PROVE  IInv'
<1>1. PICK c, t : c = "retainer" /\ t = Painter
  OBVIOUS
<1>2. c \in {"user", "retainer"} /\ t \in Threads /\ (c = "retainer" => t = Painter)
  BY <1>1, Acyclic
<1>3. /\ Wants(t, k) /\ loads < MaxLoads /\ loads' = loads + 1 /\ Calls(t, k, c)
      /\ UNCHANGED <<asset_map, entries, held, retained, used, used_before, panics>>
  BY <1>1 DEF RetainerLoad
<1>4. QED
  BY <1>2, <1>3, LoadStep

LEMMA Stutters == IInv /\ UNCHANGED vars => IInv'
<1> SUFFICES ASSUME IInv, UNCHANGED vars PROVE IInv'
  OBVIOUS
<1>1. /\ asset_map' = asset_map /\ entries' = entries /\ stack' = stack /\ held' = held
      /\ retained' = retained /\ used' = used /\ used_before' = used_before
      /\ loads' = loads /\ panics' = panics
  BY DEF vars
<1>2. TypeOK'
  BY <1>1 DEF IInv, TypeOK, Entry
<1>3. FramesSound' /\ Nested'
  <2>1. FramesSound /\ Nested
    BY DEF IInv
  <2>2. FramesSound'
    BY ONLY <1>1, <2>1 DEF FramesSound, FrameSound, Entry
  <2>3. Nested'
    BY ONLY <1>1, <2>1 DEF Nested, NestedAt, Waits
  <2>4. QED
    BY <2>2, <2>3
<1>4. Counted'
  BY <1>1 DEF IInv, Counted, CountedAt, Entry
<1>5. BusyOnce' /\ KeepsSound' /\ HeldReady'
  BY <1>1 DEF IInv, BusyOnce, KeepsSound, HeldReady, Entry, Runs, Alive, Ready
<1>6. MapSound' /\ LiveIsShared' /\ NothingLeaks'
  BY <1>1 DEF IInv, MapSound, LiveIsShared, NothingLeaks, Alive
<1>7. RetainerSound'
  BY <1>1 DEF IInv, RetainerSound, Reaping
<1>8. QED
  BY <1>2, <1>3, <1>4, <1>5, <1>6, <1>7 DEF IInv

LEMMA NextIInv == IInv /\ [Next]_vars => IInv'
<1> SUFFICES ASSUME IInv, [Next]_vars PROVE IInv'
  OBVIOUS
<1>1. ASSUME NEW t \in Threads, Works(t) PROVE IInv'
  <2>1. CASE FetchEntry(t)
    BY <2>1, FetchEntryStep
  <2>2. CASE Insert(t)
    BY <2>2, InsertStep
  <2>3. CASE BeginInit(t)
    BY <2>3, BeginInitStep
  <2>4. CASE FindInit(t)
    BY <2>4, FindInitStep
  <2>5. CASE LoadDependency(t)
    BY <2>5, LoadDependencyStep
  <2>6. CASE LoaderReturns(t)
    BY <2>6, LoaderReturnsStep
  <2>7. CASE FinishInit(t)
    BY <2>7, FinishInitStep
  <2>8. CASE Unwind(t)
    BY <2>8, UnwindStep
  <2>9. CASE Peek(t)
    BY <2>9, PeekStep
  <2>10. CASE RemoveEntry(t)
    BY <2>10, RemoveEntryStep
  <2>11. CASE DropFields(t)
    BY <2>11, DropFieldsStep
  <2>12. QED
    BY <1>1, <2>1, <2>2, <2>3, <2>4, <2>5, <2>6, <2>7, <2>8, <2>9, <2>10, <2>11 DEF Works
<1>2. ASSUME NEW t \in Threads, LoaderPanics(t) PROVE IInv'
  BY <1>2, LoaderPanicsStep
<1>3. ASSUME NEW t \in Threads, NEW k \in Keys, Load(t, k) PROVE IInv'
  BY <1>3, LoadIInv
<1>4. ASSUME NEW t \in Threads, NEW k \in Keys, FetchUntracked(t, k) PROVE IInv'
  BY <1>4, FetchUntrackedStep
<1>5. ASSUME NEW t \in Threads, NEW e \in held[t], Drop(t, e) PROVE IInv'
  BY <1>5, DropStep
<1>6. ASSUME NEW k \in Keys, RetainerLoad(k) PROVE IInv'
  BY <1>6, RetainerLoadIInv
<1>7. CASE Reap
  BY <1>7, ReapStep
<1>8. CASE ReapNext
  BY <1>8, ReapNextStep
<1>9. CASE UNCHANGED vars
  BY <1>9, Stutters
<1>10. QED
  BY <1>1, <1>2, <1>3, <1>4, <1>5, <1>6, <1>7, <1>8, <1>9 DEF Next

LEMMA AlwaysIInv == Spec => []IInv
BY InitIInv, NextIInv, PTL DEF Spec

----------------------------------------------------------------------------
(* What follows from it *)

LEMMA HeldIsReadyHolds == IInv => HeldIsReady
<1> SUFFICES ASSUME IInv PROVE HeldIsReady
  OBVIOUS
<1>1. PICK n : Types(n)
  BY HasTypes DEF IInv
<1>2. Counted /\ HeldReady /\ KeepsSound
  BY DEF IInv
<1>3. \A t \in Threads : \A e \in held[t] : Alive(e) /\ Ready(e)
  <2> SUFFICES ASSUME NEW t \in Threads, NEW e \in held[t] PROVE Alive(e) /\ Ready(e)
    OBVIOUS
  <2>1. e \in 1..n
    BY <1>1 DEF Types
  <2>2. entries[e].strong > 0
    BY <1>1, <1>2, <2>1, OwnedAlive
  <2>3. QED
    BY <1>2, <2>2 DEF HeldReady, Alive
<1>4. \A e \in DOMAIN retained : Alive(e) /\ Ready(e)
  <2> SUFFICES ASSUME NEW e \in DOMAIN retained PROVE Alive(e) /\ Ready(e)
    OBVIOUS
  <2>1. e \in 1..n
    BY <1>1 DEF Types
  <2>2. entries[e].strong > 0
    BY <1>1, <1>2, <2>1, OwnedAlive
  <2>3. QED
    BY <1>2, <2>2 DEF HeldReady, Alive
<1>5. \A e \in DOMAIN entries : \A i \in DOMAIN entries[e].keep :
        Alive(entries[e].keep[i]) /\ Ready(entries[e].keep[i])
  <2> SUFFICES ASSUME NEW e \in DOMAIN entries, NEW i \in DOMAIN entries[e].keep
               PROVE  Alive(entries[e].keep[i]) /\ Ready(entries[e].keep[i])
    OBVIOUS
  <2>1. e \in 1..n /\ e \in Entry
    BY <1>1 DEF Types
  <2>2. PICK d : d = entries[e].keep[i]
    OBVIOUS
  <2>3. d \in 1..n
    <3>1. entries[e].keep \in Seq(1..n)
      BY <1>1, <2>1 DEF Types, EntryOf
    <3>2. \A s, S : s \in Seq(S) => \A j \in DOMAIN s : s[j] \in S
      OBVIOUS
    <3>3. QED
      BY <2>2, <3>1, <3>2
  <2>4. entries[d].strong > 0
    <3>1. \E x \in 1..n : \E j \in DOMAIN entries[x].keep : entries[x].keep[j] = d
      BY <2>1, <2>2
    <3>2. QED
      BY <1>1, <1>2, <2>3, <3>1, OwnedAlive
  <2>5. entries[d].value = "ready"
    BY <1>2, <2>1, <2>2 DEF KeepsSound
  <2>6. QED
    BY <2>2, <2>4, <2>5 DEF Alive, Ready
<1>6. QED
  BY <1>3, <1>4, <1>5 DEF HeldIsReady

LEMMA DependenciesOutliveHolds == IInv => DependenciesOutlive
<1> SUFFICES ASSUME IInv, NEW e \in DOMAIN entries, Alive(e), Ready(e), NEW i \in DOMAIN DependsOn[entries[e].key]
             PROVE  LET d == DependsOn[entries[e].key][i] IN Upgrades(d) /\ Ready(asset_map[d].weak)
  BY DEF DependenciesOutlive
<1>1. PICK n : Types(n)
  BY HasTypes DEF IInv
<1>2. HeldIsReady /\ KeepsSound /\ LiveIsShared
  BY HeldIsReadyHolds DEF IInv
<1>3. PICK x : x = entries[e].keep[i]
  OBVIOUS
<1>4. e \in Entry /\ e \in 1..n
  BY <1>1 DEF Types
<1>5. i \in DOMAIN entries[e].keep /\ entries[x].key = DependsOn[entries[e].key][i] /\ x \in 1..n
  <2>1. entries[e].keep \in Seq(1..n) /\ entries[e].key \in Keys
    BY <1>1, <1>4 DEF Types, EntryOf
  <2>2. DependsOn[entries[e].key] \in Seq(Keys)
    BY <2>1, Acyclic
  <2>3. Len(entries[e].keep) = Len(DependsOn[entries[e].key])
    BY <1>2, <1>4 DEF KeepsSound
  <2>4. i \in DOMAIN entries[e].keep
    BY <2>1, <2>2, <2>3
  <2>5. entries[x].key = DependsOn[entries[e].key][i]
    BY <1>2, <1>3, <1>4, <2>4 DEF KeepsSound
  <2>6. x \in 1..n
    <3>1. \A s, S : s \in Seq(S) => \A j \in DOMAIN s : s[j] \in S
      OBVIOUS
    <3>2. QED
      BY <1>3, <2>1, <2>4, <3>1
  <2>7. QED
    BY <2>4, <2>5, <2>6
<1>6. Alive(x) /\ Ready(x)
  BY <1>2, <1>3, <1>5 DEF HeldIsReady
<1>7. entries[x].key \in DOMAIN asset_map /\ asset_map[entries[x].key].weak = x
  <2>1. x \in DOMAIN entries
    BY <1>1, <1>5 DEF Types
  <2>2. /\ entries[x].key \in DOMAIN asset_map
        /\ asset_map[entries[x].key] = [id |-> entries[x].id, weak |-> x]
    BY <1>2, <1>6, <2>1 DEF LiveIsShared
  <2>3. QED
    BY <2>2
<1>8. QED
  BY <1>5, <1>6, <1>7 DEF Upgrades, Alive

LEMMA LoadsOnceHolds == IInv => LoadsOnce
<1> SUFFICES ASSUME IInv, NEW e \in DOMAIN entries
             PROVE  Cardinality({t \in Threads : \E i \in DOMAIN stack[t] :
                                    stack[t][i].op \in {"loader", "unwind"} /\ stack[t][i].entry = e})
                      = IF entries[e].value = "busy" THEN 1 ELSE 0
  BY DEF LoadsOnce
<1> DEFINE running == {t \in Threads : \E i \in DOMAIN stack[t] :
                          stack[t][i].op \in {"loader", "unwind"} /\ stack[t][i].entry = e}
<1>1. e \in Entry /\ FramesSound /\ BusyOnce
  BY DEF IInv, Entry
<1>2. \A t : t \in running <=> t \in Threads /\ \E i \in DOMAIN stack[t] : Runs(stack, t, i, e)
  BY DEF Runs
<1> HIDE DEF running
<1>3. CASE entries[e].value = "busy"
  <2>1. PICK t \in Threads : \E i \in DOMAIN stack[t] : Runs(stack, t, i, e)
    BY <1>1, <1>3 DEF BusyOnce
  <2>2. \A u \in running : u = t
    BY <1>1, <1>2, <2>1 DEF BusyOnce
  <2>3. running = {t}
    BY <1>2, <2>1, <2>2
  <2>4. QED
    BY <1>3, <2>3, FS_Singleton DEF running
<1>4. CASE entries[e].value # "busy"
  <2>1. ASSUME NEW t \in Threads, NEW i \in DOMAIN stack[t], Runs(stack, t, i, e) PROVE FALSE
    <3>1. FrameSound(stack[t][i], t, i)
      BY <1>1 DEF FramesSound
    <3>2. QED
      BY <1>4, <2>1, <3>1 DEF FrameSound, Runs
  <2>2. running = {}
    BY <1>2, <2>1
  <2>3. QED
    BY <1>4, <2>2, FS_EmptySet DEF running
<1>5. QED
  BY <1>3, <1>4

LEMMA RetainsTwoFramesHolds == IInv => RetainsTwoFrames
<1> SUFFICES ASSUME IInv, \A i \in DOMAIN stack[Painter] : stack[Painter][i].op # "reap"
             PROVE  DOMAIN retained = used \cup used_before
  BY DEF RetainsTwoFrames
<1>1. PICK n : Types(n)
  BY HasTypes DEF IInv
<1>2. stack[Painter] \in Seq(FrameOf(n))
  BY <1>1, Acyclic DEF Types
<1>3. ~Reaping
  <2>1. stack[Painter] # <<>> => 1 \in DOMAIN stack[Painter]
    BY <1>2
  <2>2. QED
    BY <2>1 DEF Reaping
<1>4. QED
  BY <1>3 DEF IInv, RetainerSound

----------------------------------------------------------------------------
(* What the manager promises, always *)

\* However the threads interleave their loads, drops and panics, an asset that anybody still
\* owns is the one its key leads to, and the map leads to nothing else but what a thread is
\* just taking out of it (AssetManager::load and Drop for AssetEntry).
THEOREM AssetsAlwaysShared == Spec => []AssetsShared
<1>1. IInv => AssetsShared
  BY DEF IInv, AssetsShared
<1>2. QED
  BY <1>1, AlwaysIInv, PTL

\* Every asset that somebody holds is alive and loaded, its loader runs in one thread at a
\* time, and the assets its loader has loaded live as long as it does (OnceLock::get_or_init
\* and the keep_alive of an AssetEntry).
THEOREM HeldAlwaysUsable == Spec => []HeldIsUsable
<1>1. IInv => HeldIsUsable
  BY HeldIsReadyHolds, DependenciesOutliveHolds, LoadsOnceHolds DEF HeldIsUsable
<1>2. QED
  BY <1>1, AlwaysIInv, PTL

\* Between reaps the retainer holds exactly what was loaded through it in this frame and in
\* the one before (AssetRetainer::reap and push_keep_alive).
THEOREM RetainerKeepsTwoFrames == Spec => []RetainsTwoFrames
BY AlwaysIInv, RetainsTwoFramesHolds, PTL
=============================================================================
