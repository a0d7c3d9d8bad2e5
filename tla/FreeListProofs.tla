--------------------------- MODULE FreeListProofs ---------------------------
(***************************************************************************)
(* The free list is a stack of blocks.  Its L blocks are s[1], ..., s[L],  *)
(* position 0 being the end mark; the superblock holds the positions from  *)
(* base to L, and the block at the position where a group starts holds the *)
(* group below it.  G is the set of those positions.  With that stack as   *)
(* the inductive invariant, alloc() takes s[L] and free(b) pushes b.       *)
(***************************************************************************)
EXTENDS FreeList, FiniteSetTheorems, TLAPS

\* What mkfs promises of its order, for every interleave (ListedOnce and
\* ListsDataBlocks of Mkfs, which TLC checks: the order is computed by recursion).
OrderOK ==
    /\ Len(order) \in Nat
    /\ \A i \in 1..Len(order) : order[i] \in Blocks
    /\ \A i, j \in 1..Len(order) : order[i] = order[j] => i = j

at(s, p) == IF p = 0 THEN 0 ELSE s[p]

\* Every block of P is on the stack, if no read has failed.
Covers(rd, P, L, s) == rd = 0 => \A b \in P : \E p \in 1..L : s[p] = b

\* The superblock n, f and the blocks fb hold the stack s[1..L].
Stack(rd, fb, P, n, f, L, base, G, s) ==
    /\ base \in G /\ L < base + NICFREE /\ base <= L
    /\ \A r \in G : r <= base
    /\ \A p, q \in 1..L : s[p] = s[q] => p = q
    /\ \A p \in 1..L : s[p] \in P
    /\ Covers(rd, P, L, s)
    /\ \A p \in G \ {0} :
         /\ p - NICFREE \in G
         /\ fb[s[p]].n = NICFREE
         /\ \A k \in Slots : fb[s[p]].f[k] = at(s, p - NICFREE + k)
    /\ \/ n = 0 /\ L = 0
       \/ n = L - base + 1 /\ \A k \in 0..(L - base) : f[k] = at(s, base + k)

IsStack(rd, fb, P, n, f) ==
    \E L, base \in Nat : \E G \in SUBSET Nat : \E s \in [1..L -> Blocks] :
        Stack(rd, fb, P, n, f, L, base, G, s)

Groups == [n : Int, f : [Slots -> Nat]]

\* Opening the list with the end mark (alloc.c:94-97) keeps the stack.
LEMMA OpenedStack ==
    ASSUME NEW rd, NEW fb \in [Blocks -> Groups], NEW P \in SUBSET Blocks, NEW f \in [Slots -> Nat],
           IsStack(rd, fb, P, 0, f)
    PROVE  IsStack(rd, fb, P, 1, [f EXCEPT ![0] = 0])
<1>0. PICK L \in Nat, base \in Nat, G \in SUBSET Nat :
        \E s \in [1..L -> Blocks] : Stack(rd, fb, P, 0, f, L, base, G, s)
  BY DEF IsStack
<1>1. PICK s \in [1..L -> Blocks] : Stack(rd, fb, P, 0, f, L, base, G, s)
  BY <1>0
<1>2. L = 0 /\ base = 0
  BY <1>1 DEF Stack
<1>3. Stack(rd, fb, P, 1, [f EXCEPT ![0] = 0], L, base, G, s)
  BY <1>1, <1>2, FreeListAssumption DEF Stack, at, Slots
<1> QED BY <1>3 DEF IsStack

\* An address that goes into the superblock is pushed (alloc.c:110-111).
LEMMA PushEntry ==
    ASSUME NEW rd, NEW fb \in [Blocks -> Groups], NEW P \in SUBSET Blocks, NEW f \in [Slots -> Nat],
           NEW n \in 1..(NICFREE - 1), IsStack(rd, fb, P, n, f), NEW b \in Blocks, b \notin P
    PROVE  IsStack(rd, fb, P \cup {b}, n + 1, [f EXCEPT ![n] = b])
<1>0. PICK L \in Nat, base \in Nat, G \in SUBSET Nat :
        \E s \in [1..L -> Blocks] : Stack(rd, fb, P, n, f, L, base, G, s)
  BY DEF IsStack
<1>1. PICK s \in [1..L -> Blocks] : Stack(rd, fb, P, n, f, L, base, G, s)
  BY <1>0
<1> DEFINE t == [p \in 1..(L + 1) |-> IF p = L + 1 THEN b ELSE s[p]]
           g == [f EXCEPT ![n] = b]
<1>2. /\ t \in [1..(L + 1) -> Blocks] /\ t[L + 1] = b
      /\ \A p \in 1..L : t[p] = s[p] /\ p \in 1..(L + 1)
      /\ \A p \in 1..(L + 1) : p = L + 1 \/ p \in 1..L
  OBVIOUS
<1>3. /\ n = L - base + 1 /\ base \in G /\ base <= L /\ L + 1 < base + NICFREE
      /\ \A k \in 0..(L - base) : f[k] = at(s, base + k)
  BY <1>1, FreeListAssumption DEF Stack
<1>4. /\ \A r \in G : r <= base
      /\ \A p, q \in 1..L : s[p] = s[q] => p = q
      /\ \A p \in 1..L : s[p] \in P
      /\ Covers(rd, P, L, s)
      /\ \A p \in G \ {0} :
           /\ p - NICFREE \in G
           /\ fb[s[p]].n = NICFREE
           /\ \A k \in Slots : fb[s[p]].f[k] = at(s, p - NICFREE + k)
  BY <1>1 DEF Stack
<1>5. \A p \in 0..L : at(t, p) = at(s, p)
  BY <1>2 DEF at
<1> HIDE DEF t
<1>6. \A p, q \in 1..(L + 1) : t[p] = t[q] => p = q
  BY <1>2, <1>4
<1>7. \A p \in 1..(L + 1) : t[p] \in P \cup {b}
  BY <1>2, <1>4
<1>8. Covers(rd, P \cup {b}, L + 1, t)
  BY <1>2, <1>4 DEF Covers
<1>9. \A p \in G \ {0} :
        /\ p - NICFREE \in G
        /\ fb[t[p]].n = NICFREE
        /\ \A k \in Slots : fb[t[p]].f[k] = at(t, p - NICFREE + k)
  <2> TAKE p \in G \ {0}
  <2>1. p \in 1..L /\ p - NICFREE \in Nat
    <3>1. p \in Nat /\ p # 0 /\ p <= base /\ base <= L
      BY <1>3, <1>4
    <3>2. p - NICFREE \in Nat
      BY <1>4
    <3> QED BY <3>1, <3>2
  <2>2. \A k \in Slots : p - NICFREE + k \in 0..L
    BY <2>1, FreeListAssumption DEF Slots
  <2> QED BY <1>2, <1>4, <1>5, <2>1, <2>2
<1>10. g[n] = b /\ \A k \in 0..(n - 1) : g[k] = f[k]
  BY FreeListAssumption DEF Slots
<1> HIDE DEF g
<1>11. \A k \in 0..(L + 1 - base) : g[k] = at(t, base + k)
  <2> TAKE k \in 0..(L + 1 - base)
  <2>1. CASE k = n
    BY <1>2, <1>3, <1>10, <2>1 DEF at
  <2>2. CASE k # n
    <3>1. k \in 0..(n - 1) /\ k \in 0..(L - base) /\ base + k \in 0..L
      BY <1>3, <2>2
    <3> QED BY <1>3, <1>5, <1>10, <3>1
  <2> QED BY <2>1, <2>2
<1>12. Stack(rd, fb, P \cup {b}, n + 1, g, L + 1, base, G, t)
  BY <1>3, <1>4, <1>6, <1>7, <1>8, <1>9, <1>11 DEF Stack
<1> QED BY <1>2, <1>12 DEF IsStack, g

\* A group that moves into the block is pushed with it (alloc.c:98-111).
LEMMA PushGroup ==
    ASSUME NEW rd, NEW fb \in [Blocks -> Groups], NEW P \in SUBSET Blocks, NEW f \in [Slots -> Nat],
           IsStack(rd, fb, P, NICFREE, f), NEW b \in Blocks, b \notin P
    PROVE  IsStack(rd, [fb EXCEPT ![b] = [n |-> NICFREE, f |-> f]], P \cup {b}, 1, [f EXCEPT ![0] = b])
<1>0. PICK L \in Nat, base \in Nat, G \in SUBSET Nat :
        \E s \in [1..L -> Blocks] : Stack(rd, fb, P, NICFREE, f, L, base, G, s)
  BY DEF IsStack
<1>1. PICK s \in [1..L -> Blocks] : Stack(rd, fb, P, NICFREE, f, L, base, G, s)
  BY <1>0
<1> DEFINE t == [p \in 1..(L + 1) |-> IF p = L + 1 THEN b ELSE s[p]]
           g == [f EXCEPT ![0] = b]
           fc == [fb EXCEPT ![b] = [n |-> NICFREE, f |-> f]]
           H == G \cup {L + 1}
<1>2. /\ t \in [1..(L + 1) -> Blocks] /\ t[L + 1] = b
      /\ \A p \in 1..L : t[p] = s[p] /\ p \in 1..(L + 1)
      /\ \A p \in 1..(L + 1) : p = L + 1 \/ p \in 1..L
  OBVIOUS
<1>3. /\ NICFREE = L - base + 1 /\ base \in G /\ base <= L
      /\ \A k \in 0..(L - base) : f[k] = at(s, base + k)
  BY <1>1, FreeListAssumption DEF Stack
<1>4. /\ \A r \in G : r <= base
      /\ \A p, q \in 1..L : s[p] = s[q] => p = q
      /\ \A p \in 1..L : s[p] \in P
      /\ Covers(rd, P, L, s)
      /\ \A p \in G \ {0} :
           /\ p - NICFREE \in G
           /\ fb[s[p]].n = NICFREE
           /\ \A k \in Slots : fb[s[p]].f[k] = at(s, p - NICFREE + k)
  BY <1>1 DEF Stack
<1>5. \A p \in 0..L : at(t, p) = at(s, p)
  BY <1>2 DEF at
<1>6. fc[b].n = NICFREE /\ fc[b].f = f /\ \A c \in Blocks : c # b => fc[c] = fb[c]
  OBVIOUS
<1> HIDE DEF t, fc
<1>7. \A p, q \in 1..(L + 1) : t[p] = t[q] => p = q
  BY <1>2, <1>4
<1>8. \A p \in 1..(L + 1) : t[p] \in P \cup {b}
  BY <1>2, <1>4
<1>9. Covers(rd, P \cup {b}, L + 1, t)
  BY <1>2, <1>4 DEF Covers
<1>10. \A p \in H \ {0} :
        /\ p - NICFREE \in H
        /\ fc[t[p]].n = NICFREE
        /\ \A k \in Slots : fc[t[p]].f[k] = at(t, p - NICFREE + k)
  <2> TAKE p \in H \ {0}
  <2>1. CASE p \in G
    <3>1. p \in 1..L /\ p - NICFREE \in Nat
      BY <1>3, <1>4, <2>1
    <3>2. \A k \in Slots : p - NICFREE + k \in 0..L
      BY <3>1, FreeListAssumption DEF Slots
    <3>3. s[p] \in Blocks /\ s[p] # b
      BY <1>4, <3>1
    <3>4. fc[t[p]] = fb[s[p]] /\ p - NICFREE \in H
      BY <1>2, <1>4, <1>6, <2>1, <3>1, <3>3
    <3>5. fb[s[p]].n = NICFREE /\ \A k \in Slots : fb[s[p]].f[k] = at(s, p - NICFREE + k)
      BY <1>4, <2>1
    <3> QED BY <1>5, <3>2, <3>4, <3>5
  <2>2. CASE p = L + 1
    <3>1. p - NICFREE = base
      BY <1>3, <2>2, FreeListAssumption
    <3>2. ASSUME NEW k \in Slots PROVE f[k] = at(t, p - NICFREE + k)
      <4>1. k \in 0..(L - base) /\ base + k \in 0..L
        BY <1>3, FreeListAssumption DEF Slots
      <4> QED BY <1>3, <1>5, <3>1, <4>1
    <3> QED BY <1>2, <1>3, <1>6, <2>2, <3>1, <3>2
  <2> QED BY <2>1, <2>2
<1>11. g[0] = at(t, L + 1)
  BY <1>2, FreeListAssumption DEF Slots, at
<1> HIDE DEF g
<1>12. Stack(rd, fc, P \cup {b}, 1, g, L + 1, L + 1, H, t)
  BY <1>3, <1>4, <1>7, <1>8, <1>9, <1>10, <1>11, FreeListAssumption DEF Stack
<1>13. H \in SUBSET Nat
  OBVIOUS
<1> QED BY <1>2, <1>12, <1>13 DEF IsStack, g, fc

\* A superblock without entries holds no block, or only blocks that are lost.
LEMMA EmptyStack ==
    ASSUME NEW rd, NEW fb, NEW P, NEW f, rd # 0 \/ P = {}
    PROVE  IsStack(rd, fb, P, 0, f)
<1> DEFINE s == [p \in 1..0 |-> ISize]
<1>1. s \in [1..0 -> Blocks] /\ {0} \in SUBSET Nat
  OBVIOUS
<1> HIDE DEF s
<1>2. Stack(rd, fb, P, 0, f, 0, 0, {0}, s)
  BY FreeListAssumption DEF Stack, Covers
<1> QED BY <1>1, <1>2 DEF IsStack

\* After a failed read the blocks of the pool may be missing from the stack.
LEMMA StackWeakens ==
    ASSUME NEW rd, NEW after, after # 0, NEW fb, NEW P, NEW n, NEW f, IsStack(rd, fb, P, n, f)
    PROVE  IsStack(after, fb, P, n, f)
<1>0. PICK L \in Nat, base \in Nat, G \in SUBSET Nat :
        \E s \in [1..L -> Blocks] : Stack(rd, fb, P, n, f, L, base, G, s)
  BY DEF IsStack
<1>1. PICK s \in [1..L -> Blocks] : Stack(rd, fb, P, n, f, L, base, G, s)
  BY <1>0
<1>2. Stack(after, fb, P, n, f, L, base, G, s)
  BY <1>1 DEF Stack, Covers
<1> QED BY <1>2 DEF IsStack

\* Every entry above the end mark is a data block, so the loop of alloc() stops
\* at the top entry (alloc.c:37-48).
LEMMA TopEntry ==
    ASSUME NEW rd, NEW fb, NEW P, NEW n \in 0..NICFREE, NEW f \in [Slots -> Nat],
           IsStack(rd, fb, P, n, f), NEW k \in Slots, k < n,
           \A j \in Slots : j > k /\ j < n => f[j] # 0 /\ f[j] \notin Blocks
    PROVE  k = n - 1
<1>0. PICK L \in Nat, base \in Nat, G \in SUBSET Nat :
        \E s \in [1..L -> Blocks] : Stack(rd, fb, P, n, f, L, base, G, s)
  BY DEF IsStack
<1>1. PICK s \in [1..L -> Blocks] : Stack(rd, fb, P, n, f, L, base, G, s)
  BY <1>0
<1>2. /\ n = L - base + 1 /\ base <= L
      /\ \A j \in 0..(L - base) : f[j] = at(s, base + j)
  BY <1>1 DEF Stack, Slots
<1>3. f[n - 1] = at(s, L)
  BY <1>2
<1>4. f[n - 1] = 0 \/ f[n - 1] \in Blocks
  BY <1>3 DEF at
<1>5. n - 1 \in Slots /\ n - 1 < n
  BY <1>2, FreeListAssumption DEF Slots
<1> QED BY <1>4, <1>5 DEF Slots

\* If the loop stops nowhere or at the end mark, the list is empty.
LEMMA Exhausted ==
    ASSUME NEW rd, NEW fb, NEW P \in SUBSET Blocks, NEW n \in 0..NICFREE, NEW f \in [Slots -> Nat],
           IsStack(rd, fb, P, n, f), rd = 0, n > 0 => f[n - 1] \notin Blocks
    PROVE  P = {}
<1>0. PICK L \in Nat, base \in Nat, G \in SUBSET Nat :
        \E s \in [1..L -> Blocks] : Stack(rd, fb, P, n, f, L, base, G, s)
  BY DEF IsStack
<1>1. PICK s \in [1..L -> Blocks] : Stack(rd, fb, P, n, f, L, base, G, s)
  BY <1>0
<1>2. L = 0
  <2> SUFFICES ASSUME L # 0 PROVE FALSE
    OBVIOUS
  <2>1. /\ n = L - base + 1 /\ base <= L
        /\ \A j \in 0..(L - base) : f[j] = at(s, base + j)
    BY <1>1 DEF Stack
  <2>2. f[n - 1] = at(s, L)
    BY <2>1
  <2> QED BY <2>1, <2>2 DEF at
<1>3. \A b \in P : \E p \in 1..L : s[p] = b
  BY <1>1 DEF Stack, Covers
<1> QED BY <1>2, <1>3

\* Taking an entry that is not the first pops it (alloc.c:44-67).
LEMMA PopEntry ==
    ASSUME NEW rd, NEW fb \in [Blocks -> Groups], NEW P \in SUBSET Blocks, NEW f \in [Slots -> Nat],
           NEW n \in 2..NICFREE, IsStack(rd, fb, P, n, f), NEW data \in Groups
    PROVE  /\ f[n - 1] \in P
           /\ IsStack(rd, [fb EXCEPT ![f[n - 1]] = data], P \ {f[n - 1]}, n - 1, f)
<1>0. PICK L \in Nat, base \in Nat, G \in SUBSET Nat :
        \E s \in [1..L -> Blocks] : Stack(rd, fb, P, n, f, L, base, G, s)
  BY DEF IsStack
<1>1. PICK s \in [1..L -> Blocks] : Stack(rd, fb, P, n, f, L, base, G, s)
  BY <1>0
<1> DEFINE t == [p \in 1..(L - 1) |-> s[p]]
           b == f[n - 1]
           fc == [fb EXCEPT ![b] = data]
<1>2. /\ n = L - base + 1 /\ base \in G /\ base <= L - 1 /\ L < base + NICFREE
      /\ \A k \in 0..(L - base) : f[k] = at(s, base + k)
  BY <1>1 DEF Stack
<1>3. /\ \A r \in G : r <= base
      /\ \A p, q \in 1..L : s[p] = s[q] => p = q
      /\ \A p \in 1..L : s[p] \in P
      /\ Covers(rd, P, L, s)
      /\ \A p \in G \ {0} :
           /\ p - NICFREE \in G
           /\ fb[s[p]].n = NICFREE
           /\ \A k \in Slots : fb[s[p]].f[k] = at(s, p - NICFREE + k)
  BY <1>1 DEF Stack
<1>4. L \in 1..L /\ L - 1 \in Nat
  BY <1>2
<1>5. b = s[L]
  <2>1. f[n - 1] = at(s, L)
    BY <1>2
  <2> QED BY <1>4, <2>1 DEF at
<1>6. /\ t \in [1..(L - 1) -> Blocks]
      /\ \A p \in 1..(L - 1) : t[p] = s[p] /\ p \in 1..L
      /\ \A p \in 1..L : p = L \/ p \in 1..(L - 1)
  BY <1>4
<1>7. \A p \in 0..(L - 1) : at(t, p) = at(s, p)
  BY <1>6 DEF at
<1>8. \A c \in Blocks : c # b => fc[c] = fb[c]
  OBVIOUS
<1> HIDE DEF t, fc, b
<1>9. \A p, q \in 1..(L - 1) : t[p] = t[q] => p = q
  BY <1>3, <1>6
<1>10. \A p \in 1..(L - 1) : t[p] \in P \ {b}
  <2> TAKE p \in 1..(L - 1)
  <2>1. p \in 1..L /\ p # L
    BY <1>4
  <2> QED BY <1>3, <1>4, <1>5, <1>6, <2>1
<1>11. Covers(rd, P \ {b}, L - 1, t)
  BY <1>3, <1>5, <1>6 DEF Covers
<1>12. \A p \in G \ {0} :
        /\ p - NICFREE \in G
        /\ fc[t[p]].n = NICFREE
        /\ \A k \in Slots : fc[t[p]].f[k] = at(t, p - NICFREE + k)
  <2> TAKE p \in G \ {0}
  <2>1. p \in Nat /\ p # 0 /\ p <= base /\ base <= L - 1
    BY <1>2, <1>3
  <2>2. p \in 1..(L - 1) /\ p - NICFREE \in Nat
    <3>1. p - NICFREE \in Nat
      BY <1>3
    <3> QED BY <1>4, <2>1, <3>1
  <2>3. \A k \in Slots : p - NICFREE + k \in 0..(L - 1)
    BY <1>4, <2>2, FreeListAssumption DEF Slots
  <2>4. t[p] = s[p] /\ s[p] \in Blocks /\ s[p] # b
    BY <1>6, <1>10, <2>2
  <2> QED BY <1>3, <1>7, <1>8, <2>3, <2>4
<1>13. \A k \in 0..(L - 1 - base) : f[k] = at(t, base + k)
  <2> TAKE k \in 0..(L - 1 - base)
  <2>1. k \in 0..(L - base) /\ base + k \in 0..(L - 1)
    BY <1>2, <1>4
  <2> QED BY <1>2, <1>7, <2>1
<1>14. Stack(rd, fc, P \ {b}, n - 1, f, L - 1, base, G, t)
  <2>1. n - 1 = L - 1 - base + 1 /\ L - 1 < base + NICFREE /\ base <= L - 1
    BY <1>2, <1>4, FreeListAssumption
  <2> QED BY <1>2, <1>3, <1>9, <1>10, <1>11, <1>12, <1>13, <2>1 DEF Stack
<1> QED BY <1>3, <1>4, <1>5, <1>6, <1>14 DEF IsStack, b, fc

\* Taking the first entry reads the group below it (alloc.c:49-62).
LEMMA PopGroup ==
    ASSUME NEW rd, NEW fb \in [Blocks -> Groups], NEW P \in SUBSET Blocks, NEW f \in [Slots -> Nat],
           IsStack(rd, fb, P, 1, f), f[0] # 0, NEW data \in Groups
    PROVE  /\ f[0] \in P /\ fb[f[0]].n = NICFREE
           /\ IsStack(rd, [fb EXCEPT ![f[0]] = data], P \ {f[0]}, NICFREE, fb[f[0]].f)
<1>0. PICK L \in Nat, base \in Nat, G \in SUBSET Nat :
        \E s \in [1..L -> Blocks] : Stack(rd, fb, P, 1, f, L, base, G, s)
  BY DEF IsStack
<1>1. PICK s \in [1..L -> Blocks] : Stack(rd, fb, P, 1, f, L, base, G, s)
  BY <1>0
<1> DEFINE t == [p \in 1..(L - 1) |-> s[p]]
           b == f[0]
           fc == [fb EXCEPT ![b] = data]
           g == fb[b].f
           low == L - NICFREE
           H == {r \in G : r <= low}
<1>2. L = base /\ base \in G /\ f[0] = at(s, base)
  BY <1>1, SMTT(60) DEF Stack
<1>3. /\ \A r \in G : r <= base
      /\ \A p, q \in 1..L : s[p] = s[q] => p = q
      /\ \A p \in 1..L : s[p] \in P
      /\ Covers(rd, P, L, s)
      /\ \A p \in G \ {0} :
           /\ p - NICFREE \in G
           /\ fb[s[p]].n = NICFREE
           /\ \A k \in Slots : fb[s[p]].f[k] = at(s, p - NICFREE + k)
  BY <1>1 DEF Stack
<1>4. L # 0 /\ L \in 1..L /\ L - 1 \in Nat /\ L \in G \ {0} /\ b = s[L]
  BY <1>2 DEF at
<1>5. low \in Nat /\ low \in G /\ low <= L - 1 /\ L - 1 < low + NICFREE
  BY <1>3, <1>4, FreeListAssumption
<1>6. /\ fb[b].n = NICFREE
      /\ \A k \in Slots : g[k] = at(s, low + k)
  BY <1>3, <1>4
<1>7. /\ t \in [1..(L - 1) -> Blocks]
      /\ \A p \in 1..(L - 1) : t[p] = s[p] /\ p \in 1..L
      /\ \A p \in 1..L : p = L \/ p \in 1..(L - 1)
  BY <1>4
<1>8. \A p \in 0..(L - 1) : at(t, p) = at(s, p)
  BY <1>7 DEF at
<1>9. \A c \in Blocks : c # b => fc[c] = fb[c]
  OBVIOUS
<1> HIDE DEF t, fc, b, g, low
<1>10. low \in H /\ H \in SUBSET Nat /\ \A r \in H : r \in G /\ r <= low
  <2>1. low <= low
    BY <1>5
  <2> QED BY <1>5, <2>1
<1> USE DEF low
<1>11. \A p, q \in 1..(L - 1) : t[p] = t[q] => p = q
  BY <1>3, <1>7
<1>12. \A p \in 1..(L - 1) : t[p] \in P \ {b}
  <2> TAKE p \in 1..(L - 1)
  <2>1. p \in 1..L /\ p # L
    BY <1>4
  <2> QED BY <1>3, <1>4, <1>7, <2>1
<1>13. Covers(rd, P \ {b}, L - 1, t)
  BY <1>3, <1>4, <1>7 DEF Covers
<1>14. \A p \in H \ {0} :
        /\ p - NICFREE \in H
        /\ fc[t[p]].n = NICFREE
        /\ \A k \in Slots : fc[t[p]].f[k] = at(t, p - NICFREE + k)
  <2> TAKE p \in H \ {0}
  <2>1. p \in G \ {0} /\ p \in Nat /\ p <= low /\ p # 0
    BY <1>10
  <2>2. p - NICFREE \in G
    BY <1>3, <2>1
  <2>3. p - NICFREE \in Nat /\ p - NICFREE <= low
    BY <1>5, <2>1, <2>2, FreeListAssumption
  <2>4. p \in 1..(L - 1)
    BY <1>4, <1>5, <2>1
  <2>5. \A k \in Slots : p - NICFREE + k \in 0..(L - 1)
    BY <1>4, <2>3, <2>4, FreeListAssumption DEF Slots
  <2>6. t[p] = s[p] /\ s[p] \in Blocks /\ s[p] # b
    BY <1>7, <1>12, <2>4
  <2> QED BY <1>3, <1>8, <1>9, <2>1, <2>2, <2>3, <2>5, <2>6, SMTT(60)
<1>15. \A k \in 0..(L - 1 - low) : g[k] = at(t, low + k)
  <2> TAKE k \in 0..(L - 1 - low)
  <2>1. k \in Slots /\ low + k \in 0..(L - 1)
    BY <1>4, <1>5, FreeListAssumption DEF Slots
  <2> QED BY <1>6, <1>8, <2>1
<1>16. NICFREE = L - 1 - low + 1
  BY <1>4, FreeListAssumption
<1> HIDE DEF H, low
<1>17. Stack(rd, fc, P \ {b}, NICFREE, g, L - 1, low, H, t)
  BY <1>5, <1>10, <1>11, <1>12, <1>13, <1>14, <1>15, <1>16 DEF Stack
<1> QED BY <1>3, <1>4, <1>5, <1>6, <1>7, <1>10, <1>17 DEF IsStack, b, fc, g

(***************************************************************************)
(* The inductive invariant.  Writes succeed; a group that cannot be read   *)
(* is lost, but the blocks that stay on the list are still a stack.        *)
(***************************************************************************)

Superblock == [nfree : 0..NICFREE, sfree : [Slots -> Nat], tfree : Nat]

ListType ==
    /\ failed \in [read : Nat, write : Nat]
    /\ nfree \in 0..NICFREE /\ sfree \in [Slots -> Nat] /\ tfree \in Nat
    /\ fmod \in BOOLEAN /\ full \in BOOLEAN
    /\ fblk \in [Blocks -> Groups]
    /\ ondisk \in Superblock
    /\ pool \in SUBSET Blocks /\ used \in SUBSET Blocks /\ pool \cap used = {}

\* The lists in core and on the disk.
Lists ==
    /\ IsStack(failed.read, fblk, pool, nfree, sfree)
    /\ ~fmod => IsStack(failed.read, fblk, pool, ondisk.nfree, ondisk.sfree)

\* Both counts.
Counts ==
    failed.read = 0 =>
        /\ tfree = Cardinality(pool)
        /\ ~fmod => ondisk.tfree = Cardinality(pool)

\* mkfs has freed the blocks before next in its order.
Making ==
    /\ next \in Nat \ {0}
    /\ ~Mounted => used = {} /\ \A i \in next..Len(order) : order[i] \notin pool

ListInv == ListType /\ Lists /\ Counts /\ Making

\* No write has failed, up to and including this step.
WritesSucceed == OrderOK /\ failed.write = 0 /\ failed'.write = 0

\* Adding a block to, or removing one from, a set of data blocks changes its
\* cardinality by one.
LEMMA PoolCount ==
    ASSUME NEW P \in SUBSET Blocks
    PROVE  /\ IsFiniteSet(P) /\ Cardinality(P) \in Nat
           /\ \A b : b \notin P => Cardinality(P \cup {b}) = Cardinality(P) + 1
           /\ \A b \in P : Cardinality(P \ {b}) = Cardinality(P) - 1 /\ Cardinality(P) # 0
<1>1. IsFiniteSet(Blocks)
  BY FS_Interval, FreeListAssumption DEF Blocks
<1>2. IsFiniteSet(P)
  BY <1>1, FS_Subset
<1>3. Cardinality(P) \in Nat
  BY <1>2, FS_CardinalityType
<1>4. \A b \in P : Cardinality(P) # 0
  BY <1>2, FS_EmptySet
<1> QED BY <1>2, <1>3, <1>4, FS_AddElement, FS_RemoveElement

\* free() of a block that is not on the list pushes it (alloc.c:82-114).
LEMMA FreePushes ==
    ASSUME ListType, Lists, Counts, WritesSucceed, NEW b \in Blocks, b \notin pool, free(b)
    PROVE  ListType' /\ Lists' /\ Counts'
<1> USE FreeListAssumption
<1>1. /\ opened.n \in 1..NICFREE /\ opened.f \in [Slots -> Nat]
      /\ IsStack(failed.read, fblk, pool, opened.n, opened.f)
  <2>1. getfs = nfree
    BY DEF ListType, getfs
  <2>2. CASE nfree = 0
    <3>1. opened.n = 1 /\ opened.f = [sfree EXCEPT ![0] = 0]
      BY <2>1, <2>2 DEF opened
    <3>2. IsStack(failed.read, fblk, pool, 1, [sfree EXCEPT ![0] = 0])
      BY <2>2, OpenedStack DEF ListType, Lists
    <3>3. [sfree EXCEPT ![0] = 0] \in [Slots -> Nat]
      BY DEF ListType
    <3> QED BY <3>1, <3>2, <3>3
  <2>3. CASE nfree # 0
    <3>1. opened.n = nfree /\ opened.f = sfree
      BY <2>1, <2>3 DEF opened, ListType
    <3> QED BY <2>3, <3>1 DEF ListType, Lists
  <2> QED BY <2>2, <2>3
<1>2. /\ nfree' \in 0..NICFREE /\ sfree' \in [Slots -> Nat] /\ fblk' \in [Blocks -> Groups]
      /\ IsStack(failed.read, fblk', pool \cup {b}, nfree', sfree')
  <2>0. b \in Nat
    BY DEF Blocks
  <2>1. CASE crowded
    <3>1. opened.n = NICFREE
      BY <1>1, <2>1 DEF crowded
    <3>2. \A ok \in BOOLEAN : writes(ok) => ok = TRUE
      BY DEF writes, WritesSucceed, ListType
    <3>3. opened = [n |-> NICFREE, f |-> opened.f]
      BY <3>1 DEF opened
    <3>4. /\ fblk' = [fblk EXCEPT ![b] = opened]
          /\ nfree' = 1 /\ sfree' = [opened.f EXCEPT ![0] = b]
      BY <2>1, <3>2 DEF free
    <3>5. opened \in Groups
      BY <1>1, <3>3 DEF Groups
    <3>6. IsStack(failed.read, fblk', pool \cup {b}, nfree', sfree')
      <4> DEFINE of == opened.f
      <4>1. of \in [Slots -> Nat] /\ IsStack(failed.read, fblk, pool, NICFREE, of)
        BY <1>1, <3>1
      <4>2. fblk' = [fblk EXCEPT ![b] = [n |-> NICFREE, f |-> of]]
        BY <3>3, <3>4
      <4>3. sfree' = [of EXCEPT ![0] = b]
        BY <3>4
      <4> HIDE DEF of
      <4>4. fblk \in [Blocks -> Groups] /\ pool \in SUBSET Blocks
        BY DEF ListType
      <4>5. IsStack(failed.read, [fblk EXCEPT ![b] = [n |-> NICFREE, f |-> of]], pool \cup {b}, 1, [of EXCEPT ![0] = b])
        BY <4>1, <4>4, PushGroup
      <4> QED BY <3>4, <4>2, <4>3, <4>5
    <3>7. sfree' \in [Slots -> Nat]
      BY <1>1, <2>0, <3>4
    <3>8. fblk' \in [Blocks -> Groups]
      BY <3>4, <3>5 DEF ListType
    <3> QED BY <3>4, <3>6, <3>7, <3>8
  <2>2. CASE ~crowded
    <3>1. opened.n \in 1..(NICFREE - 1)
      BY <1>1, <2>2 DEF crowded
    <3>2. /\ fblk' = fblk /\ nfree' = opened.n + 1
          /\ sfree' = [opened.f EXCEPT ![opened.n] = b]
      BY <2>2 DEF free
    <3>3. IsStack(failed.read, fblk', pool \cup {b}, nfree', sfree')
      BY <1>1, <3>1, <3>2, PushEntry DEF ListType
    <3>4. sfree' \in [Slots -> Nat]
      BY <1>1, <2>0, <3>2
    <3> QED BY <3>1, <3>2, <3>3, <3>4, SMTT(60) DEF ListType
  <2> QED BY <2>1, <2>2
<1>3. /\ tfree' = tfree + 1 /\ fmod' = TRUE /\ pool' = pool \cup {b} /\ used' = used \ {b}
      /\ UNCHANGED <<ondisk, full>>
  BY DEF free
<1>a. failed' = failed
  BY DEF free, writes, WritesSucceed, ListType
<1>4. ListType'
  BY <1>2, <1>3, <1>a DEF ListType
<1>5. Lists'
  BY <1>2, <1>3, <1>a DEF Lists
<1>6. Counts'
  BY <1>3, <1>a, PoolCount DEF Counts, ListType
<1> QED BY <1>4, <1>5, <1>6

\* "no space" leaves an empty superblock; it is reported only when the list is
\* empty or a group could not be read (alloc.c:69-74).
LEMMA NoSpaceKeeps ==
    ASSUME ListType, Lists, Counts, nospace, failed'.read # 0 \/ pool = {},
           failed' \in [read : Nat, write : Nat], failed'.read = 0 => failed' = failed,
           sfree' \in [Slots -> Nat], UNCHANGED <<fblk, ondisk>>
    PROVE  ListType' /\ Lists' /\ Counts'
<1>1. nfree' = 0 /\ tfree' = 0 /\ full' = TRUE /\ UNCHANGED <<fmod, pool, used>>
  BY DEF nospace
<1>2. ListType'
  BY <1>1, FreeListAssumption DEF ListType
<1>3. Lists'
  <2>1. IsStack(failed'.read, fblk', pool', nfree', sfree')
    BY <1>1, EmptyStack
  <2>2. ~fmod' => IsStack(failed'.read, fblk', pool', ondisk'.nfree, ondisk'.sfree)
    BY <1>1, StackWeakens DEF Lists
  <2> QED BY <1>1, <2>1, <2>2 DEF Lists
<1>4. Counts'
  BY <1>1, FS_EmptySet DEF Counts
<1> QED BY <1>2, <1>3, <1>4

\* A step that hands out the top of the stack.
Takes ==
    /\ ~full'
    /\ \E b \in pool : pool' = pool \ {b} /\ used' = used \cup {b}

\* A step that reports "no space".
Fails ==
    /\ full' = TRUE
    /\ failed'.read = 0 => pool = {}
    /\ UNCHANGED <<pool, used>>

\* takes(b) changes the counts and the history as a request for b does
\* (alloc.c:63-67).
LEMMA TakesBlock ==
    ASSUME ListType, Counts, NEW b \in pool, takes(b), UNCHANGED ondisk,
           nfree' \in 0..NICFREE, sfree' \in [Slots -> Nat],
           failed' = failed,
           \A data \in Groups :
               IsStack(failed.read, [fblk EXCEPT ![b] = data], pool \ {b}, nfree', sfree')
    PROVE  ListType' /\ Lists' /\ Counts' /\ Takes
<1>1. PICK data \in Junk : fblk' = [fblk EXCEPT ![b] = data]
  BY DEF takes
<1>2. data \in Groups
  BY <1>1, FreeListAssumption DEF Groups, Slots
<1>3. fblk' \in [Blocks -> Groups]
  BY <1>1, <1>2 DEF ListType
<1>4. /\ tfree' = IF tfree # 0 THEN tfree - 1 ELSE tfree
      /\ fmod' = TRUE /\ full' = FALSE
      /\ pool' = pool \ {b} /\ used' = used \cup {b}
  BY DEF takes
<1>5. ListType'
  <2>1. tfree' \in Nat
    BY <1>4 DEF ListType
  <2>2. pool' \in SUBSET Blocks /\ used' \in SUBSET Blocks /\ pool' \cap used' = {}
    BY <1>4 DEF ListType
  <2> QED BY <1>3, <1>4, <2>1, <2>2 DEF ListType
<1>6. Lists'
  BY <1>1, <1>2, <1>4 DEF Lists
<1>7. Counts'
  BY <1>4, PoolCount DEF Counts, ListType
<1> QED BY <1>4, <1>5, <1>6, <1>7 DEF Takes

\* alloc() takes the top of the stack, or fails (alloc.c:27-75).
LEMMA AllocPops ==
    ASSUME ListType, Lists, Counts, WritesSucceed, Alloc
    PROVE  ListType' /\ Lists' /\ Counts' /\ (Takes \/ Fails)
<1> USE FreeListAssumption
<1>1. /\ getfs = nfree /\ nfree \in 0..NICFREE /\ sfree \in [Slots -> Nat]
      /\ fblk \in [Blocks -> Groups] /\ pool \in SUBSET Blocks
      /\ IsStack(failed.read, fblk, pool, nfree, sfree)
  BY SMTT(60) DEF getfs, ListType, Lists
<1>2. \A x \in Nat : badblock(x) <=> x \notin Blocks
  BY DEF badblock, Blocks
<1>3. UNCHANGED ondisk
  BY DEF Alloc
<1>4. \A k \in Slots : sfree[k] \in Nat
  BY <1>1
<1>5. \A k \in Slots : stopsAt(k) => k = nfree - 1
  <2> TAKE k \in Slots
  <2> HAVE stopsAt(k)
  <2>1. k < nfree
    BY <1>1 DEF stopsAt
  <2>2. \A j \in Slots : j > k /\ j < nfree => sfree[j] # 0 /\ sfree[j] \notin Blocks
    BY <1>1, <1>2, <1>4 DEF stopsAt
  <2> QED BY <1>1, <2>1, <2>2, TopEntry
<1>6. CASE AllocNone
  <2>1. failed.read = 0 => pool = {}
    <3> SUFFICES ASSUME failed.read = 0 PROVE pool = {}
      OBVIOUS
    <3>1. nfree > 0 => sfree[nfree - 1] \notin Blocks
      <4> SUFFICES ASSUME nfree > 0, sfree[nfree - 1] \in Blocks PROVE FALSE
        OBVIOUS
      <4>1. nfree - 1 \in Slots
        BY <1>1 DEF Slots
      <4>2. \A j \in Slots : ~(j > nfree - 1 /\ j < nfree)
        BY <1>1 DEF Slots
      <4>3. ~badblock(sfree[nfree - 1])
        BY <1>2, <1>4, <4>1
      <4>4. stopsAt(nfree - 1)
        BY <1>1, <4>2, <4>3 DEF stopsAt
      <4>5. sfree[nfree - 1] = 0
        BY <1>6, <4>1, <4>4 DEF AllocNone
      <4> QED BY <4>5 DEF Blocks
    <3> QED BY <1>1, <3>1, Exhausted
  <2>2. nospace /\ UNCHANGED <<failed, sfree, fblk>>
    BY <1>6 DEF AllocNone
  <2>3. Fails
    BY <2>1, <2>2 DEF Fails, nospace
  <2>4. failed'.read # 0 \/ pool = {}
    BY <2>1, <2>2
  <2>5. failed' \in [read : Nat, write : Nat]
    BY <2>2 DEF ListType
  <2> QED BY <1>1, <1>3, <2>2, <2>3, <2>4, <2>5, NoSpaceKeeps
<1>7. CASE AllocEntry
  <2>1. PICK k \in Slots :
          /\ stopsAt(k) /\ sfree[k] # 0 /\ ~isLast(k)
          /\ nfree' = left(k) /\ takes(sfree[k])
    BY <1>7 DEF AllocEntry
  <2>2. k = nfree - 1 /\ k # 0 /\ nfree' = nfree - 1 /\ sfree' = sfree
    BY <1>5, <1>7, <2>1 DEF isLast, left, AllocEntry
  <2>a. failed' = failed
    BY <1>7 DEF AllocEntry
  <2>3. nfree \in 2..NICFREE
    BY <1>1, <2>2 DEF Slots
  <2>4. /\ sfree[nfree - 1] \in pool
        /\ \A data \in Groups :
             IsStack(failed.read, [fblk EXCEPT ![sfree[nfree - 1]] = data], pool \ {sfree[nfree - 1]}, nfree - 1, sfree)
    <3>1. \E data : data \in Groups
      BY DEF Groups, Slots
    <3> QED BY <1>1, <2>3, <3>1, PopEntry
  <2>5. takes(sfree[nfree - 1])
    BY <2>1, <2>2
  <2>6. nfree' \in 0..NICFREE /\ sfree' \in [Slots -> Nat]
    BY <1>1, <2>2, <2>3
  <2> QED BY <1>3, <2>2, <2>4, <2>5, <2>6, <2>a, TakesBlock
<1>8. CASE AllocGroup
  <2>1. stopsAt(0) /\ sfree[0] # 0
    BY <1>8 DEF AllocGroup
  <2>2. 0 \in Slots /\ nfree = 1
    BY <1>1, <1>5, <2>1 DEF Slots
  <2>3. \E data : data \in Groups
    BY DEF Groups, Slots
  <2>4. /\ sfree[0] \in pool /\ fblk[sfree[0]].n = NICFREE
        /\ \A data \in Groups :
             IsStack(failed.read, [fblk EXCEPT ![sfree[0]] = data], pool \ {sfree[0]}, NICFREE, fblk[sfree[0]].f)
    BY <1>1, <2>1, <2>2, <2>3, PopGroup
  <2>5. fblk[sfree[0]] \in Groups
    BY <1>1, <2>4
  <2>6. nfree' = NICFREE /\ sfree' = fblk[sfree[0]].f /\ takes(sfree[0])
    BY <1>8, <2>4 DEF AllocGroup
  <2>a. failed' = failed
    BY <1>8 DEF AllocGroup
  <2>7. nfree' \in 0..NICFREE /\ sfree' \in [Slots -> Nat]
    BY <2>5, <2>6, SMTT(60) DEF Groups
  <2> QED BY <1>3, <2>4, <2>6, <2>7, <2>a, TakesBlock
<1>9. CASE AllocError
  <2>1. nospace /\ UNCHANGED <<sfree, fblk>> /\ failed' = [failed EXCEPT !.read = @ + 1]
    BY <1>9 DEF AllocError
  <2>2. failed' \in [read : Nat, write : Nat] /\ failed'.read # 0
    BY <2>1, SMTT(60) DEF ListType
  <2>3. Fails
    BY <2>1, <2>2 DEF Fails, nospace
  <2> QED BY <1>1, <1>3, <2>1, <2>2, <2>3, NoSpaceKeeps
<1> QED BY <1>6, <1>7, <1>8, <1>9 DEF Alloc

\* A step that puts a block on the list.
Gives == \E b \in Blocks \ pool : pool' = pool \cup {b} /\ used' = used \ {b} /\ UNCHANGED full

\* Every step keeps the invariant and is a step of the pool.
LEMMA ListNext ==
    ASSUME ListInv, WritesSucceed, [Next]_vars
    PROVE  /\ ListInv'
           /\ Takes \/ Fails \/ Gives \/ UNCHANGED <<pool, used, full>>
           /\ Alloc /\ ~full' => Takes
<1>0. Len(order) \in Nat /\ next \in Nat \ {0}
  BY DEF WritesSucceed, OrderOK, ListInv, Making
<1>a. Alloc /\ ~full' => Takes
  BY AllocPops DEF ListInv, Fails
<1>1. CASE InitFree
  <2>1. ~Mounted /\ next \in 1..Len(order) /\ free(order[next]) /\ next' = next + 1
    BY <1>0, <1>1 DEF InitFree, Mounted
  <2>2. order[next] \in Blocks /\ order[next] \notin pool /\ used = {}
    BY <1>0, <2>1 DEF WritesSucceed, OrderOK, ListInv, Making
  <2>3. ListType' /\ Lists' /\ Counts'
    BY <2>1, <2>2, FreePushes DEF ListInv
  <2>4. pool' = pool \cup {order[next]} /\ used' = used \ {order[next]} /\ full' = full
    BY <2>1 DEF free
  <2>5. ASSUME NEW i \in (next + 1)..Len(order) PROVE order[i] \notin pool'
    <3>1. i \in 1..Len(order) /\ i \in next..Len(order) /\ i # next
      BY <1>0
    <3>2. order[i] \notin pool
      BY <2>1, <3>1 DEF ListInv, Making
    <3>3. order[i] # order[next]
      BY <2>1, <3>1 DEF WritesSucceed, OrderOK
    <3> QED BY <2>4, <3>2, <3>3
  <2>6. next' \in Nat \ {0}
    BY <1>0, <2>1
  <2>7. Making'
    BY <2>1, <2>2, <2>4, <2>5, <2>6 DEF Making
  <2>8. Gives
    BY <2>2, <2>4 DEF Gives
  <2> QED BY <1>a, <2>3, <2>7, <2>8 DEF ListInv
<1>2. CASE Alloc
  <2>1. ListType' /\ Lists' /\ Counts' /\ (Takes \/ Fails)
    BY <1>2, AllocPops DEF ListInv
  <2>2. Mounted /\ next' = next
    BY <1>2 DEF Alloc
  <2>3. Making'
    BY <2>2 DEF ListInv, Making, Mounted
  <2> QED BY <1>a, <2>1, <2>3 DEF ListInv
<1>3. CASE Free
  <2>1. PICK b \in used : free(b)
    BY <1>3 DEF Free
  <2>2. Mounted /\ next' = next
    BY <1>3 DEF Free
  <2>3. b \in Blocks /\ b \notin pool
    BY <2>1 DEF ListInv, ListType
  <2>4. ListType' /\ Lists' /\ Counts'
    BY <2>1, <2>3, FreePushes DEF ListInv
  <2>5. Making'
    BY <2>2 DEF ListInv, Making, Mounted
  <2>6. Gives
    BY <2>1, <2>3 DEF Gives, free
  <2> QED BY <1>a, <2>4, <2>5, <2>6 DEF ListInv
<1>4. CASE Update
  <2>1. \A ok \in BOOLEAN : writes(ok) => ok = TRUE /\ failed' = failed
    BY DEF writes, WritesSucceed, ListInv, ListType
  <2>2. /\ ondisk' = written /\ fmod' = FALSE
        /\ UNCHANGED <<failed, sb, fblk, next, pool, used, full>>
    BY <1>4, <2>1 DEF Update
  <2>3. written \in Superblock /\ IsStack(failed.read, fblk, pool, written.nfree, written.sfree)
    BY DEF written, ListInv, ListType, Lists, Superblock
  <2>4. failed.read = 0 => written.tfree = Cardinality(pool)
    BY DEF written, ListInv, Counts
  <2>5. ListType' /\ Lists' /\ Counts'
    BY <2>2, <2>3, <2>4 DEF ListInv, ListType, Lists, Counts, sb
  <2>6. Making'
    BY <2>2 DEF ListInv, Making, Mounted
  <2> QED BY <1>a, <2>2, <2>5, <2>6 DEF ListInv
<1>5. CASE Remount
  <2>1. /\ ondisk' = written
        /\ nfree' = written.nfree /\ sfree' = written.sfree /\ tfree' = written.tfree
        /\ fmod' = FALSE /\ UNCHANGED <<failed, fblk, next, pool, used, full>>
    BY <1>5 DEF Remount
  <2>2. written \in Superblock /\ IsStack(failed.read, fblk, pool, written.nfree, written.sfree)
    BY DEF written, ListInv, ListType, Lists, Superblock
  <2>3. failed.read = 0 => written.tfree = Cardinality(pool)
    BY DEF written, ListInv, Counts
  <2>4. ListType' /\ Lists' /\ Counts'
    BY <2>1, <2>2, <2>3 DEF ListInv, ListType, Lists, Counts, Superblock
  <2>5. Making'
    BY <2>1 DEF ListInv, Making, Mounted
  <2> QED BY <1>a, <2>1, <2>4, <2>5 DEF ListInv
<1>6. CASE UNCHANGED vars
  BY <1>a, <1>6 DEF vars, sb, ListInv, ListType, Lists, Counts, Making, Mounted
<1> QED BY <1>1, <1>2, <1>3, <1>4, <1>5, <1>6 DEF Next

\* An empty superblock over an empty pool satisfies the invariant.
LEMMA ListStart ==
    ASSUME Init
    PROVE  ListInv
<1> USE FreeListAssumption
<1>1. Empty \in [Slots -> Nat]
  BY DEF Empty
<1>2. fblk \in [Blocks -> Groups]
  BY DEF Init, Groups, Slots
<1>3. ListType
  <2>1. ondisk \in Superblock
    <3>1. ondisk = [nfree |-> 0, sfree |-> Empty, tfree |-> 0] /\ 0 \in 0..NICFREE
      BY DEF Init
    <3> HIDE DEF Empty
    <3> QED BY <1>1, <3>1 DEF Superblock
  <2>2. nfree \in 0..NICFREE /\ sfree \in [Slots -> Nat] /\ tfree \in Nat
    BY <1>1, SMTT(60) DEF Init
  <2>3. fmod \in BOOLEAN /\ full \in BOOLEAN
    BY DEF Init
  <2>4. pool \in SUBSET Blocks /\ used \in SUBSET Blocks /\ pool \cap used = {}
    BY DEF Init
  <2>5. failed \in [read : Nat, write : Nat]
    BY DEF Init
  <2> QED BY <1>2, <2>1, <2>2, <2>3, <2>4, <2>5 DEF ListType
<1>4. Lists
  BY EmptyStack DEF Init, Lists
<1>5. Counts
  BY FS_EmptySet DEF Init, Counts
<1>6. Making
  BY DEF Init, Making
<1> QED BY <1>3, <1>4, <1>5, <1>6 DEF ListInv

(***************************************************************************)
(* Whatever transfers fail and whatever the groups hold.                   *)
(***************************************************************************)

AnyGroups ==
    /\ failed \in [read : Nat, write : Nat]
    /\ nfree \in Int /\ sfree \in [Slots -> Nat] /\ tfree \in Nat
    /\ fmod \in BOOLEAN /\ full \in BOOLEAN
    /\ fblk \in [Blocks -> Groups]
    /\ ondisk.nfree \in Int /\ ondisk.sfree \in [Slots -> Nat] /\ ondisk.tfree \in Nat
    /\ used \subseteq Blocks

\* free() stores a block number in a table of block numbers.
LEMMA FreeAny ==
    ASSUME AnyGroups, NEW b \in Blocks, free(b)
    PROVE  AnyGroups'
<1>0. b \in Nat
  BY FreeListAssumption DEF Blocks
<1>1. opened.n \in Int /\ opened.f \in [Slots -> Nat] /\ opened = [n |-> opened.n, f |-> opened.f]
  <2>1. getfs \in Int
    BY FreeListAssumption DEF AnyGroups, getfs
  <2>2. CASE getfs <= 0
    <3>1. opened = [n |-> 1, f |-> [sfree EXCEPT ![0] = 0]]
      BY <2>2 DEF opened
    <3>2. [sfree EXCEPT ![0] = 0] \in [Slots -> Nat]
      BY DEF AnyGroups
    <3> QED BY <3>1, <3>2
  <2>3. CASE ~(getfs <= 0)
    <3>1. opened = [n |-> getfs, f |-> sfree]
      BY <2>3 DEF opened
    <3> QED BY <2>1, <3>1 DEF AnyGroups
  <2> QED BY <2>2, <2>3
<1>2. opened \in Groups
  BY <1>1 DEF Groups
<1> HIDE DEF opened
<1>3. nfree' \in Int /\ sfree' \in [Slots -> Nat] /\ fblk' \in [Blocks -> Groups]
  <2>1. CASE crowded
    <3>1. nfree' = 1 /\ sfree' = [opened.f EXCEPT ![0] = b]
      BY <2>1 DEF free
    <3>2. fblk' = fblk \/ fblk' = [fblk EXCEPT ![b] = opened]
      BY <2>1 DEF free
    <3>3. fblk' \in [Blocks -> Groups]
      BY <1>2, <3>2 DEF AnyGroups
    <3>4. sfree' \in [Slots -> Nat]
      BY <1>0, <1>1, <3>1
    <3> QED BY <3>1, <3>3, <3>4
  <2>2. CASE ~crowded
    <3>1. nfree' = opened.n + 1 /\ sfree' = [opened.f EXCEPT ![opened.n] = b] /\ fblk' = fblk
      BY <2>2 DEF free
    <3>2. sfree' \in [Slots -> Nat]
      BY <1>0, <1>1, <3>1
    <3> QED BY <1>1, <3>1, <3>2 DEF AnyGroups
  <2> QED BY <2>1, <2>2
<1>4. ondisk' = ondisk /\ used' = used \ {b} /\ tfree' = tfree + 1 /\ fmod' = TRUE /\ full' = full
  BY DEF free
<1>5. failed' \in [read : Nat, write : Nat]
  BY DEF free, writes, AnyGroups
<1> QED BY <1>3, <1>4, <1>5, SMTT(60) DEF AnyGroups

\* A block that alloc() returns has passed badblock() (alloc.c:48).
LEMMA AllocAny ==
    ASSUME AnyGroups, Alloc
    PROVE  AnyGroups'
<1> USE FreeListAssumption
<1>1. UNCHANGED ondisk
  BY DEF Alloc
<1>2. ASSUME NEW k \in Slots, stopsAt(k), sfree[k] # 0 PROVE sfree[k] \in Blocks
  BY <1>2 DEF stopsAt, badblock, Blocks, AnyGroups
<1>3. ASSUME NEW b \in Blocks, takes(b)
      PROVE  /\ fblk' \in [Blocks -> Groups] /\ used' \subseteq Blocks
             /\ tfree' \in Nat /\ fmod' \in BOOLEAN /\ full' \in BOOLEAN
  <2>1. PICK data \in Junk : fblk' = [fblk EXCEPT ![b] = data]
    BY <1>3 DEF takes
  <2>2. data \in Groups
    BY <2>1 DEF Groups, Slots
  <2>3. tfree' \in Nat
    BY <1>3 DEF takes, AnyGroups
  <2> QED BY <1>3, <2>1, <2>2, <2>3 DEF takes, AnyGroups
<1>a. failed' \in [read : Nat, write : Nat]
  <2>1. failed' = failed \/ failed' = [failed EXCEPT !.read = failed.read + 1]
    <3> HIDE DEF nospace, takes, stopsAt, isLast, left, mayFail
    <3> QED BY DEF Alloc, AllocNone, AllocEntry, AllocGroup, AllocError
  <2>2. failed \in [read : Nat, write : Nat]
    BY DEF AnyGroups
  <2> QED BY <2>1, <2>2
<1>4. CASE AllocNone \/ AllocError
  <2>1. nospace /\ UNCHANGED <<sfree, fblk>>
    BY <1>4 DEF AllocNone, AllocError
  <2> QED BY <1>1, <1>a, <2>1 DEF nospace, AnyGroups
<1>5. CASE AllocEntry
  <2>1. PICK k \in Slots : stopsAt(k) /\ sfree[k] # 0 /\ nfree' = k /\ takes(sfree[k])
    BY <1>5 DEF AllocEntry, left
  <2>2. /\ fblk' \in [Blocks -> Groups] /\ used' \subseteq Blocks
        /\ tfree' \in Nat /\ fmod' \in BOOLEAN /\ full' \in BOOLEAN
    BY <1>2, <1>3, <2>1
  <2>3. nfree' \in Int /\ sfree' = sfree
    BY <1>5, <2>1 DEF AllocEntry, Slots
  <2> QED BY <1>1, <1>a, <2>2, <2>3 DEF AnyGroups
<1>6. CASE AllocGroup
  <2>1. 0 \in Slots /\ stopsAt(0) /\ sfree[0] # 0 /\ sfree' = fblk[sfree[0]].f
    BY <1>6, SMTT(60) DEF AllocGroup, Slots
  <2>2. sfree[0] \in Blocks
    BY <1>2, <2>1
  <2>3. fblk[sfree[0]] \in Groups
    BY <2>2 DEF AnyGroups
  <2>4. sfree' \in [Slots -> Nat] /\ fblk[sfree[0]].n \in Int
    BY <2>1, <2>3 DEF Groups
  <2>5. CASE nospace /\ UNCHANGED fblk
    BY <1>1, <1>a, <2>4, <2>5 DEF nospace, AnyGroups
  <2>6. CASE nfree' = fblk[sfree[0]].n /\ takes(sfree[0])
    BY <1>1, <1>3, <1>a, <2>2, <2>4, <2>6 DEF AnyGroups
  <2> QED BY <1>6, <2>5, <2>6 DEF AllocGroup
<1> QED BY <1>4, <1>5, <1>6 DEF Alloc

\* The empty superblock is such a table.
LEMMA AnyStart ==
    ASSUME Init
    PROVE  AnyGroups /\ next \in Nat \ {0}
<1>1. Empty \in [Slots -> Nat]
  BY DEF Empty
<1>2. fblk \in [Blocks -> Groups]
  BY FreeListAssumption DEF Init, Groups, Slots
<1>3. failed \in [read : Nat, write : Nat] /\ next \in Nat \ {0}
  BY SMTT(60) DEF Init
<1>4. ondisk.nfree \in Int /\ ondisk.sfree \in [Slots -> Nat] /\ ondisk.tfree \in Nat
  <2> HIDE DEF Empty
  <2> QED BY <1>1 DEF Init
<1> QED BY <1>1, <1>2, <1>3, <1>4 DEF Init, AnyGroups

\* Every step keeps the tables.
LEMMA AnyNext ==
    ASSUME OrderOK, AnyGroups, next \in Nat \ {0}, [Next]_vars
    PROVE  AnyGroups' /\ next' \in Nat \ {0}
<1> USE FreeListAssumption
<1>0. next' \in Nat \ {0}
  BY DEF Next, InitFree, Alloc, Free, Update, Remount, vars
<1>1. CASE InitFree
  <2>1. free(order[next]) /\ next \in 1..Len(order)
    BY <1>1 DEF InitFree, Mounted, OrderOK
  <2>2. order[next] \in Blocks
    BY <2>1 DEF OrderOK
  <2> QED BY <1>0, <2>1, <2>2, FreeAny
<1>2. CASE Alloc
  BY <1>0, <1>2, AllocAny
<1>3. CASE Free
  BY <1>0, <1>3, FreeAny DEF Free, AnyGroups
<1>4. written.nfree \in Int /\ written.sfree \in [Slots -> Nat] /\ written.tfree \in Nat
  BY DEF written, AnyGroups
<1>5. CASE Update
  <2>1. failed' \in [read : Nat, write : Nat]
    BY <1>5 DEF Update, writes, AnyGroups
  <2>2. ondisk' = written \/ ondisk' = ondisk
    BY <1>5 DEF Update
  <2>3. fmod' = FALSE /\ UNCHANGED <<sb, fblk, next, pool, used, full>>
    BY <1>5 DEF Update
  <2>4. ondisk'.nfree \in Int /\ ondisk'.sfree \in [Slots -> Nat] /\ ondisk'.tfree \in Nat
    BY <1>4, <2>2 DEF AnyGroups
  <2> QED BY <1>0, <2>1, <2>3, <2>4 DEF AnyGroups, sb
<1>6. CASE Remount
  BY <1>0, <1>4, <1>6 DEF Remount, AnyGroups
<1>7. CASE UNCHANGED vars
  BY <1>7 DEF vars, sb, AnyGroups
<1> QED BY <1>1, <1>2, <1>3, <1>5, <1>6, <1>7 DEF Next

\* A failure is never forgotten.
LEMMA FailuresGrow ==
    ASSUME AnyGroups, [Next]_vars
    PROVE  failed'.read >= failed.read /\ failed'.write >= failed.write
  BY DEF AnyGroups, Next, vars, InitFree, Alloc, AllocNone, AllocEntry, AllocGroup, AllocError,
         Free, free, Update, Remount, writes

\* What holds whatever transfers have failed, and the stack as long as no write
\* has.
FreeListInv ==
    /\ AnyGroups /\ next \in Nat \ {0}
    /\ failed.write = 0 => ListInv

\* The stack, while writes succeed, and tables of block numbers after that are
\* an inductive invariant.
THEOREM FreeListIsStack == ASSUME OrderOK PROVE Spec => []FreeListInv
<1>1. Init => FreeListInv
  BY AnyStart, ListStart DEF FreeListInv
<1>2. FreeListInv /\ [Next]_vars => FreeListInv'
  <2> SUFFICES ASSUME FreeListInv, [Next]_vars PROVE FreeListInv'
    OBVIOUS
  <2>1. AnyGroups' /\ next' \in Nat \ {0}
    BY AnyNext DEF FreeListInv
  <2>2. ASSUME failed'.write = 0 PROVE ListInv'
    <3>1. failed.write = 0
      BY <2>2, FailuresGrow DEF FreeListInv, AnyGroups
    <3> QED BY <2>2, <3>1, ListNext DEF FreeListInv, WritesSucceed
  <2> QED BY <2>1, <2>2 DEF FreeListInv
<1> QED BY <1>1, <1>2, PTL DEF Spec

\* s_nfree does not leave the table of a superblock as long as no write has
\* failed, for every group size.
THEOREM FreeListTypeHolds == ASSUME OrderOK PROVE Spec => []FreeListTypeOK
<1>1. FreeListInv => FreeListTypeOK
  BY DEF FreeListInv, AnyGroups, ListInv, ListType, FreeListTypeOK
<1> QED BY <1>1, FreeListIsStack, PTL

\* alloc() never hands out a block that is in use as long as no write has
\* failed, although groups that cannot be read are lost.
THEOREM TakesFreeHolds == ASSUME OrderOK PROVE Spec => TakesFree
<1>1. FreeListInv /\ [Next]_vars =>
        [Alloc /\ failed.write = 0 /\ ~full' => \E b \in pool \ used : used' = used \cup {b}]_vars
  <2> SUFFICES ASSUME FreeListInv, [Next]_vars, Alloc, failed.write = 0, ~full'
               PROVE  \E b \in pool \ used : used' = used \cup {b}
    OBVIOUS
  <2>1. failed'.write = 0
    BY DEF Alloc, AllocNone, AllocEntry, AllocGroup, AllocError, FreeListInv, AnyGroups
  <2>2. ListInv /\ Takes
    BY <2>1, ListNext DEF FreeListInv, WritesSucceed
  <2> QED BY <2>2 DEF ListInv, ListType, Takes
<1> QED BY <1>1, FreeListIsStack, PTL DEF Spec, TakesFree

\* As long as no transfer has failed, s_tfree is the number of free blocks.
THEOREM TfreeHolds == ASSUME OrderOK PROVE Spec => []TfreeCounts
<1>1. FreeListInv => TfreeCounts
  BY DEF FreeListInv, ListInv, Counts, TfreeCounts, reliable
<1> QED BY <1>1, FreeListIsStack, PTL

\* As long as no transfer has failed, the list implements the pool: mkfs and
\* free() give, alloc() takes, fails only when nothing is left, and a remount
\* changes nothing.
THEOREM FreeListIsPool == ASSUME OrderOK PROVE Spec => PoolSpec
<1>1. Init => Pool!Init
  BY DEF Init, reliable, Pool!Init
<1>2. FreeListInv /\ [Next]_vars => [Pool!Next]_(Pool!vars)
  <2> SUFFICES ASSUME FreeListInv, [Next]_vars, reliable' = TRUE PROVE [Pool!Next]_(Pool!vars)
    BY DEF Pool!Next, reliable
  <2>a. failed.read = 0 /\ failed.write = 0 /\ failed'.read = 0 /\ failed'.write = 0
    BY FailuresGrow, SMTT(60) DEF reliable, FreeListInv, AnyGroups
  <2>b. ListInv /\ WritesSucceed
    BY <2>a DEF FreeListInv, WritesSucceed
  <2>1. Takes \/ Fails \/ Gives \/ UNCHANGED <<pool, used, full>>
    BY <2>b, ListNext
  <2>2. CASE Takes
    <3>1. full' \in BOOLEAN
      BY <2>b, ListNext DEF ListInv, ListType
    <3>2. full' = FALSE
      BY <2>2, <3>1 DEF Takes
    <3>3. PICK b \in pool : pool' = pool \ {b} /\ used' = used \cup {b}
      BY <2>2 DEF Takes
    <3>4. b \in Blocks
      BY <2>b DEF ListInv, ListType
    <3> QED BY <3>2, <3>3, <3>4 DEF Pool!Next, Pool!Take
  <2>3. CASE Fails
    BY <2>3, <2>a DEF Fails, Pool!Next, Pool!Fail
  <2>4. CASE Gives
    BY <2>4 DEF Gives, Pool!Next, Pool!Give
  <2>5. reliable' = reliable
    BY <2>a DEF reliable
  <2> QED BY <2>1, <2>2, <2>3, <2>4, <2>5 DEF Pool!vars
<1> QED BY <1>1, <1>2, FreeListIsStack, PTL DEF Spec, PoolSpec, Pool!Spec

\* For every failure of a transfer and every content of the groups, alloc() hands
\* out blocks of the data area only.
THEOREM InDataAreaHolds == ASSUME OrderOK PROVE Spec => []InDataArea
<1>1. FreeListInv => InDataArea
  BY DEF FreeListInv, AnyGroups, InDataArea
<1> QED BY <1>1, FreeListIsStack, PTL
=============================================================================
