------------------------- MODULE BufferCacheProofs --------------------------
(***************************************************************************)
(* Proofs about BufferCache, for any number of buffers and blocks.  The    *)
(* image is assumed to hold the whole file system, as v7fs_init() takes    *)
(* for granted.                                                            *)
(***************************************************************************)
EXTENDS BufferCache, TLAPS

ImageHoldsFs == DskSize = 0 \/ DskSize >= FsSize

Free == Bufs \ Busy

\* s lists the elements of S, each once.
Lists(s, S) ==
    /\ s \in Seq(Bufs)
    /\ \A i, j \in 1..Len(s) : s[i] = s[j] => i = j
    /\ \A b \in Bufs : b \in S <=> \E i \in 1..Len(s) : s[i] = b

(***************************************************************************)
(* Lists: taking a buffer out of the available list and putting one back.  *)
(***************************************************************************)

\* notavail() removes exactly the buffer it is given.
LEMMA TakeOut ==
    ASSUME NEW s, NEW S \in SUBSET Bufs, NEW b \in S, Lists(s, S)
    PROVE  Lists(without(s, b), S \ {b})
<1> DEFINE k == CHOOSE i \in 1..Len(s) : s[i] = b
<1>1. s \in Seq(Bufs) /\ Len(s) \in Nat
  BY DEF Lists
<1>2. k \in 1..Len(s) /\ s[k] = b
  <2>1. \E i \in 1..Len(s) : s[i] = b
    BY DEF Lists
  <2> QED BY <2>1
<1> DEFINE t == [i \in 1..(Len(s) - 1) |-> IF i < k THEN s[i] ELSE s[i + 1]]
<1>3. t = without(s, b)
  BY DEF without
<1> HIDE DEF k
<1>4. \A i \in 1..(Len(s) - 1) : t[i] = IF i < k THEN s[i] ELSE s[i + 1]
  OBVIOUS
<1>5. t \in Seq(Bufs) /\ Len(t) = Len(s) - 1
  <2>1. Len(s) - 1 \in Nat
    BY <1>1, <1>2
  <2>2. \A i \in 1..(Len(s) - 1) : (IF i < k THEN s[i] ELSE s[i + 1]) \in Bufs
    BY <1>1, <1>2
  <2>3. t \in [1..(Len(s) - 1) -> Bufs]
    BY <2>2
  <2> QED BY <2>1, <2>3
<1> HIDE DEF t
<1>6. \A i, j \in 1..Len(t) : t[i] = t[j] => i = j
  <2> SUFFICES ASSUME NEW i \in 1..Len(t), NEW j \in 1..Len(t), t[i] = t[j]
               PROVE  i = j
    OBVIOUS
  <2> DEFINE at(n) == IF n < k THEN n ELSE n + 1
  <2>1. /\ at(i) \in 1..Len(s) /\ at(j) \in 1..Len(s)
        /\ t[i] = s[at(i)] /\ t[j] = s[at(j)]
    BY <1>1, <1>2, <1>4, <1>5
  <2>2. at(i) = at(j)
    <3> HIDE DEF at
    <3> QED BY <2>1 DEF Lists
  <2> QED BY <2>2, <1>1, <1>2, <1>5
<1>7. \A c \in Bufs : c \in S \ {b} <=> \E i \in 1..Len(t) : t[i] = c
  <2> TAKE c \in Bufs
  <2>1. ASSUME c \in S \ {b} PROVE \E i \in 1..Len(t) : t[i] = c
    <3>1. PICK i \in 1..Len(s) : s[i] = c
      BY <2>1 DEF Lists
    <3>2. i # k
      BY <2>1, <3>1, <1>2
    <3>3. CASE i < k
      <4>1. i \in 1..(Len(s) - 1)
        BY <1>1, <1>2, <3>3
      <4> QED BY <4>1, <3>1, <3>3, <1>4, <1>5
    <3>4. CASE i > k
      <4>1. i - 1 \in 1..(Len(s) - 1) /\ ~(i - 1 < k) /\ (i - 1) + 1 = i
        BY <1>1, <1>2, <3>1, <3>4
      <4>2. t[i - 1] = c
        BY <4>1, <3>1, <1>4
      <4> QED BY <4>1, <4>2, <1>5
    <3> QED BY <3>2, <3>3, <3>4, <1>2, <1>1
  <2>2. ASSUME NEW i \in 1..Len(t), t[i] = c PROVE c \in S \ {b}
    <3>1. i \in 1..(Len(s) - 1)
      BY <1>5
    <3>2. \E j \in 1..Len(s) : s[j] = c /\ j # k
      <4>1. CASE i < k
        BY <4>1, <3>1, <2>2, <1>1, <1>2, <1>4
      <4>2. CASE ~(i < k)
        <5>1. i + 1 \in 1..Len(s) /\ i + 1 # k /\ s[i + 1] = c
          BY <4>2, <3>1, <2>2, <1>1, <1>2, <1>4
        <5> QED BY <5>1
      <4> QED BY <4>1, <4>2
    <3> QED BY <3>2, <1>2 DEF Lists
  <2> QED BY <2>1, <2>2
<1> QED BY <1>3, <1>5, <1>6, <1>7 DEF Lists

\* brelse() puts a buffer back at either end of the list.
LEMMA PutBack ==
    ASSUME NEW s, NEW S \in SUBSET Bufs, NEW b \in Bufs \ S, Lists(s, S)
    PROVE  Lists(Append(s, b), S \cup {b}) /\ Lists(<<b>> \o s, S \cup {b})
<1>1. s \in Seq(Bufs) /\ Len(s) \in Nat
  BY DEF Lists
<1>2. \A i \in 1..Len(s) : s[i] \in Bufs /\ s[i] # b
  BY <1>1 DEF Lists
<1>3. Lists(Append(s, b), S \cup {b})
  <2> DEFINE t == Append(s, b)
  <2>1. /\ t \in Seq(Bufs) /\ Len(t) = Len(s) + 1 /\ t[Len(s) + 1] = b
        /\ \A i \in 1..Len(s) : t[i] = s[i]
    BY <1>1
  <2> HIDE DEF t
  <2>2. \A i, j \in 1..Len(t) : t[i] = t[j] => i = j
    BY <1>1, <1>2, <2>1 DEF Lists
  <2>3. \A c \in Bufs : c \in S \cup {b} <=> \E i \in 1..Len(t) : t[i] = c
    BY <1>1, <2>1 DEF Lists
  <2> QED BY <2>1, <2>2, <2>3 DEF Lists, t
<1>4. Lists(<<b>> \o s, S \cup {b})
  <2> DEFINE t == <<b>> \o s
  <2>1. /\ t \in Seq(Bufs) /\ Len(t) = Len(s) + 1 /\ t[1] = b
        /\ \A i \in 1..Len(s) : t[i + 1] = s[i]
    BY <1>1
  <2> HIDE DEF t
  <2>2. \A i \in 2..Len(t) : i - 1 \in 1..Len(s) /\ t[i] = s[i - 1]
    BY <1>1, <2>1
  <2>3. \A i, j \in 1..Len(t) : t[i] = t[j] => i = j
    <3> SUFFICES ASSUME NEW i \in 1..Len(t), NEW j \in 1..Len(t), t[i] = t[j]
                 PROVE  i = j
      OBVIOUS
    <3>1. CASE i = 1 \/ j = 1
      BY <3>1, <1>1, <1>2, <2>1, <2>2
    <3>2. CASE i # 1 /\ j # 1
      <4>1. i \in 2..Len(t) /\ j \in 2..Len(t)
        BY <3>2, <1>1, <2>1
      <4>2. i - 1 \in 1..Len(s) /\ j - 1 \in 1..Len(s) /\ s[i - 1] = s[j - 1]
        BY <4>1, <2>2
      <4>3. i - 1 = j - 1
        BY <4>2 DEF Lists
      <4> QED BY <4>1, <4>3
    <3> QED BY <3>1, <3>2
  <2>4. \A c \in Bufs : c \in S \cup {b} <=> \E i \in 1..Len(t) : t[i] = c
    <3> TAKE c \in Bufs
    <3>1. ASSUME c \in S PROVE \E i \in 1..Len(t) : t[i] = c
      <4>1. PICK i \in 1..Len(s) : s[i] = c
        BY <3>1 DEF Lists
      <4>2. i + 1 \in 1..Len(t) /\ t[i + 1] = c
        BY <4>1, <1>1, <2>1
      <4> QED BY <4>2
    <3>2. ASSUME NEW i \in 1..Len(t), t[i] = c PROVE c \in S \cup {b}
      <4>1. CASE i = 1
        BY <4>1, <3>2, <2>1
      <4>2. CASE i # 1
        <5>1. i \in 2..Len(t)
          BY <4>2, <1>1, <2>1
        <5>2. i - 1 \in 1..Len(s) /\ s[i - 1] = c
          BY <5>1, <3>2, <2>2
        <5> QED BY <5>2 DEF Lists
      <4> QED BY <4>1, <4>2
    <3>3. 1 \in 1..Len(t)
      BY <1>1, <2>1
    <3> QED BY <3>1, <3>2, <3>3, <2>1
  <2> QED BY <2>1, <2>3, <2>4 DEF Lists, t
<1> QED BY <1>3, <1>4

(***************************************************************************)
(* The inductive invariant.  ReadsContent alone is not inductive: a block  *)
(* that is read anew must be current in the image (DiskCurrent), a delayed *)
(* block must have a valid buffer that still stands for it (DelayedValid), *)
(* and breada() must not read over a block that has a buffer already.      *)
(***************************************************************************)
Flags == {"BUSY", "DONE", "DELWRI", "AGE", "ERROR"}

Ops == {"idle", "getblk", "geteblk", "bread", "breada", "ahead", "bflush"}

TypeInv ==
    /\ assoc \in [Bufs -> Blocks \cup {NODEV}]
    /\ flags \in [Bufs -> SUBSET Flags]
    /\ core \in [Bufs -> Data]
    /\ disk \in [Blocks -> Data]
    /\ content \in [Blocks -> Data]
    /\ call \in [op : Ops, blk : Blocks, ra : Blocks, got : Bufs \cup {0}]
    /\ dskEnd = FsSize
    /\ ioErrors \in 0..MaxIoErrors
    /\ changed \subseteq Busy

DelayedValid ==
    \A b \in Bufs : "DELWRI" \in flags[b] =>
        "DONE" \in flags[b] /\ "ERROR" \notin flags[b] /\ assoc[b] # NODEV

DiskCurrent ==
    \A blk \in Blocks :
        \/ disk[blk] = content[blk]
        \/ \E b \in Bufs : assoc[b] = blk /\ "DELWRI" \in flags[b]

BreadaFresh == call.op = "breada" => ~incore(call.blk)

CacheInv ==
    /\ TypeInv
    /\ Lists(av, Free)
    /\ OneBufferPerBlock
    /\ DelayedValid
    /\ DiskCurrent
    /\ ReadsContent
    /\ BreadaFresh

\* Block numbers are not NODEV.
LEMMA BlockNumbers == NODEV \notin Blocks /\ 0 \in Blocks /\ \A blk \in Blocks : blk < FsSize
BY CacheAssumption DEF NODEV, Blocks

\* The initial state satisfies the invariant.
LEMMA CacheInit == ASSUME ImageHoldsFs, Init PROVE CacheInv
<1> USE CacheAssumption DEF Init
<1>1. Busy = {} /\ Free = Bufs
  BY DEF Busy, Free
<1>2. dskEnd = FsSize
  BY DEF dskEndOf, ImageHoldsFs
<1>3. TypeInv
  BY <1>1, <1>2, BlockNumbers DEF TypeInv, Idle, Ops
<1>4. Lists(av, Free)
  <2>1. av \in Seq(Bufs) /\ Len(av) = NBUF /\ \A i \in 1..NBUF : av[i] = i
    BY DEF Bufs
  <2> QED BY <2>1, <1>1 DEF Lists, Bufs
<1>5. OneBufferPerBlock /\ DelayedValid /\ DiskCurrent /\ ReadsContent /\ BreadaFresh
  BY DEF OneBufferPerBlock, DelayedValid, DiskCurrent, ReadsContent, BreadaFresh, Idle
<1> QED BY <1>3, <1>4, <1>5 DEF CacheInv

\* Releasing a buffer keeps the list in step with the BUSY marks.
LEMMA ReleaseLists ==
    ASSUME TypeInv, NEW b \in Bufs, NEW fl \in SUBSET Flags, NEW rest,
           NEW late \in SUBSET {"AGE"}, Lists(rest, Free \ {b}),
           brelse(b, fl, rest, late)
    PROVE  Lists(av', Free') /\ Busy' = Busy \ {b}
<1>1. Busy' = Busy \ {b}
  BY DEF brelse, Busy, TypeInv
<1>2. Free' = (Free \ {b}) \cup {b}
  BY <1>1 DEF Free
<1>3. Lists(Append(rest, b), (Free \ {b}) \cup {b}) /\ Lists(<<b>> \o rest, (Free \ {b}) \cup {b})
  BY PutBack DEF Free
<1> QED BY <1>1, <1>2, <1>3 DEF brelse

\* Obtaining a buffer does too.
LEMMA ObtainLists ==
    ASSUME TypeInv, Lists(av, Free), NEW b \in Free, NEW fl, "BUSY" \in fl, obtain(b, fl)
    PROVE  Lists(av', Free') /\ Busy' = Busy \cup {b}
<1>1. b \in Bufs
  BY DEF Free
<1>2. Busy' = Busy \cup {b}
  BY <1>1 DEF obtain, Busy, TypeInv
<1>3. Free' = Free \ {b}
  BY <1>2 DEF Free
<1>4. Lists(without(av, b), Free \ {b})
  BY TakeOut DEF Free
<1> QED BY <1>2, <1>3, <1>4 DEF obtain

\* The head of the available list is a free buffer.
LEMMA HeadFree ==
    ASSUME Lists(av, Free), av # <<>>
    PROVE  Head(av) \in Free /\ Head(av) \in Bufs
<1>1. Len(av) >= 1 /\ Head(av) = av[1] /\ av[1] \in Bufs
  BY DEF Lists
<1> QED BY <1>1 DEF Lists

\* getblk() returns a free buffer, and no other buffer stands for its block.
LEMMA TakesFree ==
    ASSUME CacheInv, NEW b \in Bufs, takes(b)
    PROVE  /\ b \in Free
           /\ target # NODEV => \A c \in Bufs \ {b} : assoc[c] # target
           /\ ~hit(b) => miss /\ "DELWRI" \notin flags[b]
           /\ hit(b) => target # NODEV /\ assoc[b] = target
<1>1. CASE hit(b)
  BY <1>1 DEF hit, CacheInv, OneBufferPerBlock, Free, Busy
<1>2. CASE ~hit(b)
  <2>1. miss /\ av # <<>> /\ b = Head(av) /\ "DELWRI" \notin flags[b]
    BY <1>2 DEF takes
  <2> QED BY <1>2, <2>1, HeadFree DEF CacheInv, miss, incore
<1> QED BY <1>1, <1>2

\* The number of failed transfers stays within its bound.
LEMMA CountBounded ==
    ASSUME TypeInv, NEW ok \in outcome, count(ok)
    PROVE  ioErrors' \in 0..MaxIoErrors
<1>1. CASE ioErrors < MaxIoErrors
  BY <1>1, CacheAssumption DEF count, TypeInv
<1>2. CASE ~(ioErrors < MaxIoErrors)
  <2>1. ok = TRUE
    BY <1>2 DEF outcome
  <2> QED BY <2>1 DEF count, TypeInv
<1> QED BY <1>1, <1>2

\* A step that changes nothing but the call, and does not begin breada().
LEMMA CallInv ==
    ASSUME CacheInv, UNCHANGED <<bufVars, disk, dskEnd, ioErrors, changed, content>>,
           call' \in [op : Ops, blk : Blocks, ra : Blocks, got : Bufs \cup {0}],
           call'.op = "breada" => ~incore(call'.blk)
    PROVE  CacheInv'
BY DEF CacheInv, bufVars, TypeInv, Lists, Free, Busy, OneBufferPerBlock, DelayedValid,
       DiskCurrent, ReadsContent, BreadaFresh, incore

\* What a write does to the buffer, the image and the lists.
LEMMA WriteEffect ==
    ASSUME CacheInv, NEW b \in Bufs, assoc[b] # NODEV, NEW rest, Lists(rest, Free \ {b}),
           NEW async \in BOOLEAN, NEW ok \in outcome, writeOut(b, rest, async, ok)
    PROVE  /\ Lists(av', Free') /\ Busy' = Busy \ {b}
           /\ assoc' = [assoc EXCEPT ![b] = IF ok THEN assoc[b] ELSE NODEV]
           /\ flags' \in [Bufs -> SUBSET Flags]
           /\ \A c \in Bufs \ {b} : flags'[c] = flags[c]
           /\ "DELWRI" \notin flags'[b] /\ (ok => "ERROR" \notin flags'[b])
           /\ disk' = IF ok THEN [disk EXCEPT ![assoc[b]] = core[b]] ELSE disk
           /\ ioErrors' \in 0..MaxIoErrors
<1> DEFINE late == IF async /\ "DELWRI" \in flags[b] THEN {"AGE"} ELSE {}
           fl == transferred(flags[b] \ {"DONE", "ERROR", "DELWRI", "AGE"}, ok)
<1>1. TypeInv /\ b \in Bufs /\ assoc[b] \in Blocks
  BY DEF CacheInv, TypeInv
<1>2. brelse(b, fl, rest, late)
  BY DEF writeOut
<1>3. fl \in SUBSET Flags /\ late \in SUBSET {"AGE"} /\ "DELWRI" \notin fl
      /\ ("ERROR" \in fl <=> ~ok)
  BY <1>1 DEF TypeInv, transferred, Flags, outcome
<1> HIDE DEF fl, late
<1>4. Lists(av', Free') /\ Busy' = Busy \ {b}
  BY <1>1, <1>2, <1>3, ReleaseLists
<1>5. disk' = IF ok THEN [disk EXCEPT ![assoc[b]] = core[b]] ELSE disk
  BY <1>1, BlockNumbers DEF writeOut, TypeInv
<1>6. ioErrors' \in 0..MaxIoErrors
  BY <1>1, CountBounded DEF writeOut
<1>7. /\ assoc' = [assoc EXCEPT ![b] = IF ok THEN assoc[b] ELSE NODEV]
      /\ flags' = [flags EXCEPT ![b] = (fl \ {"BUSY", "AGE"}) \cup late]
  BY <1>2, <1>3 DEF brelse
<1> QED BY <1>1, <1>3, <1>4, <1>5, <1>6, <1>7 DEF TypeInv, Flags

\* Writing out a delayed block on the cache's own account.
LEMMA FlushInv ==
    ASSUME CacheInv, NEW b \in Free, "DELWRI" \in flags[b], flushOut(b),
           dskEnd' = dskEnd, call' = call
    PROVE  CacheInv'
<1>1. b \in Bufs /\ b \notin changed /\ TypeInv /\ assoc[b] \in Blocks /\ assoc[b] # NODEV
  BY DEF Free, CacheInv, TypeInv, DelayedValid
<1>2. PICK ok \in outcome :
         /\ writeOut(b, without(av, b), TRUE, ok)
         /\ content' = IF ok THEN content ELSE [content EXCEPT ![assoc[b]] = disk[assoc[b]]]
         /\ UNCHANGED <<core, changed>>
  BY DEF flushOut
<1>3. Lists(without(av, b), Free \ {b})
  BY TakeOut DEF CacheInv, Free
<1>4. /\ Lists(av', Free') /\ Busy' = Busy \ {b}
      /\ assoc' = [assoc EXCEPT ![b] = IF ok THEN assoc[b] ELSE NODEV]
      /\ flags' \in [Bufs -> SUBSET Flags]
      /\ \A c \in Bufs \ {b} : flags'[c] = flags[c]
      /\ "DELWRI" \notin flags'[b] /\ (ok => "ERROR" \notin flags'[b])
      /\ disk' = IF ok THEN [disk EXCEPT ![assoc[b]] = core[b]] ELSE disk
      /\ ioErrors' \in 0..MaxIoErrors
  BY <1>1, <1>2, <1>3, WriteEffect
<1>5. core[b] = content[assoc[b]]
  BY <1>1 DEF CacheInv, ReadsContent, DelayedValid
<1>6. TypeInv'
  BY <1>1, <1>2, <1>4, BlockNumbers DEF TypeInv, Free
<1>7. OneBufferPerBlock'
  BY <1>1, <1>4 DEF CacheInv, OneBufferPerBlock, TypeInv
<1>8. DelayedValid'
  BY <1>1, <1>4 DEF CacheInv, DelayedValid, TypeInv
<1>9. DiskCurrent'
  BY <1>1, <1>2, <1>4, <1>5 DEF CacheInv, DiskCurrent, TypeInv
<1>10. ReadsContent'
  <2> SUFFICES ASSUME NEW c \in Bufs \ changed, assoc'[c] # NODEV, "DONE" \in flags'[c], "ERROR" \notin flags'[c]
               PROVE  core'[c] = content'[assoc'[c]]
    BY <1>2 DEF ReadsContent
  <2>1. CASE c = b
    BY <2>1, <1>1, <1>2, <1>4, <1>5 DEF TypeInv
  <2>2. CASE c # b
    <3>1. assoc'[c] = assoc[c] /\ flags'[c] = flags[c] /\ assoc[c] # assoc[b]
      BY <2>2, <1>1, <1>4 DEF CacheInv, OneBufferPerBlock, TypeInv
    <3>2. assoc[c] \in Blocks
      BY <3>1, <1>1 DEF TypeInv
    <3>3. core[c] = content[assoc[c]]
      BY <3>1 DEF CacheInv, ReadsContent
    <3> QED BY <3>1, <3>2, <3>3, <1>1, <1>2 DEF TypeInv
  <2> QED BY <2>1, <2>2
<1>11. BreadaFresh'
  BY <1>1, <1>4, BlockNumbers DEF CacheInv, BreadaFresh, incore, TypeInv
<1> QED BY <1>4, <1>6, <1>7, <1>8, <1>9, <1>10, <1>11 DEF CacheInv

(***************************************************************************)
(* The steps of the cache.                                                 *)
(***************************************************************************)

\* getblk() writes out the oldest buffer before it reassigns it.
LEMMA EvictInv == ASSUME CacheInv, Evict, UNCHANGED dskEnd PROVE CacheInv'
<1>1. Head(av) \in Free
  BY HeadFree DEF Evict, CacheInv
<1> QED BY <1>1, FlushInv DEF Evict

\* bflush() writes out the first delayed block, or returns.
LEMMA BflushInv == ASSUME CacheInv, Bflush, UNCHANGED dskEnd PROVE CacheInv'
<1>1. ASSUME NEW i \in 1..Len(av), firstDelayed(i), flushOut(av[i]), UNCHANGED call
      PROVE  CacheInv'
  <2>1. av[i] \in Free
    BY DEF CacheInv, Lists
  <2> QED BY <1>1, <2>1, FlushInv DEF firstDelayed
<1>2. CASE call' = Idle /\ UNCHANGED <<bufVars, disk, uError, ioErrors, changed, content, lost>>
  <2>1. call' \in [op : Ops, blk : Blocks, ra : Blocks, got : Bufs \cup {0}] /\ call'.op = "idle"
    BY <1>2, BlockNumbers DEF Idle, Ops
  <2> QED BY <1>2, <2>1, CallInv
<1> QED BY <1>1, <1>2 DEF Bflush

\* The block getblk() looks for is a block, or none for geteblk().
LEMMA TargetType == ASSUME TypeInv PROVE target \in Blocks \cup {NODEV}
BY DEF TypeInv, target

\* A block that must be read from the image is current there.
LEMMA TargetCurrent ==
    ASSUME CacheInv, NEW b \in Bufs, takes(b), target \in Blocks, "DONE" \notin flagsOf(b)
    PROVE  disk[target] = content[target]
<1>1. SUFFICES ASSUME NEW c \in Bufs, assoc[c] = target, "DELWRI" \in flags[c] PROVE FALSE
  BY DEF CacheInv, DiskCurrent
<1>2. target # NODEV
  BY BlockNumbers
<1>3. c = b
  BY <1>1, <1>2, TakesFree
<1>4. hit(b)
  BY <1>1, <1>3, TakesFree
<1>5. "DONE" \in flags[b]
  BY <1>1, <1>3 DEF CacheInv, DelayedValid
<1> QED BY <1>4, <1>5 DEF flagsOf

\* Obtaining a buffer keeps the invariant, if a valid buffer holds its block.
LEMMA ObtainInv ==
    ASSUME CacheInv, NEW b \in Bufs, takes(b), NEW fl \in SUBSET Flags, "BUSY" \in fl,
           obtain(b, fl), UNCHANGED <<disk, content, changed, dskEnd>>,
           ioErrors' \in 0..MaxIoErrors,
           call' \in [op : Ops, blk : Blocks, ra : Blocks, got : Bufs \cup {0}],
           call'.op # "breada",
           core' \in [Bufs -> Data], \A c \in Bufs \ {b} : core'[c] = core[c],
           "DELWRI" \in fl <=> "DELWRI" \in flagsOf(b),
           "DELWRI" \in fl => "DONE" \in fl /\ "ERROR" \notin fl,
           target # NODEV /\ "DONE" \in fl /\ "ERROR" \notin fl => core'[b] = content[target]
    PROVE  CacheInv'
<1>1. TypeInv /\ target \in Blocks \cup {NODEV}
  BY TargetType DEF CacheInv
<1>2. /\ b \in Free
      /\ target # NODEV => \A c \in Bufs \ {b} : assoc[c] # target
      /\ ~hit(b) => miss /\ "DELWRI" \notin flags[b]
      /\ hit(b) => target # NODEV /\ assoc[b] = target
  BY TakesFree
<1>3. Lists(av', Free') /\ Busy' = Busy \cup {b}
  BY <1>1, <1>2, ObtainLists DEF CacheInv
<1>4. /\ assoc' = [assoc EXCEPT ![b] = target]
      /\ flags' = [flags EXCEPT ![b] = fl]
  BY DEF obtain
<1>5. TypeInv'
  BY <1>1, <1>3, <1>4 DEF TypeInv
<1>6. OneBufferPerBlock'
  BY <1>1, <1>2, <1>4 DEF CacheInv, OneBufferPerBlock, TypeInv
<1>7. "DELWRI" \in fl => hit(b)
  BY DEF flagsOf
<1>8. DelayedValid'
  BY <1>1, <1>2, <1>4, <1>7 DEF CacheInv, DelayedValid, TypeInv
<1>9. DiskCurrent'
  <2> SUFFICES ASSUME NEW blk \in Blocks, disk[blk] # content[blk]
               PROVE  \E c \in Bufs : assoc'[c] = blk /\ "DELWRI" \in flags'[c]
    BY DEF DiskCurrent
  <2>1. PICK c \in Bufs : assoc[c] = blk /\ "DELWRI" \in flags[c]
    BY DEF CacheInv, DiskCurrent
  <2>2. CASE c # b
    BY <2>1, <2>2, <1>1, <1>4 DEF TypeInv
  <2>3. CASE c = b
    <3>1. hit(b) /\ "DELWRI" \in fl
      BY <2>1, <2>3, <1>2 DEF flagsOf
    <3> QED BY <3>1, <2>1, <2>3, <1>1, <1>2, <1>4 DEF TypeInv
  <2> QED BY <2>2, <2>3
<1>10. ReadsContent'
  BY <1>1, <1>4 DEF CacheInv, ReadsContent, TypeInv
<1> QED BY <1>3, <1>5, <1>6, <1>8, <1>9, <1>10 DEF CacheInv, BreadaFresh

\* flagsOf() in terms of the flags the buffer had.
LEMMA FlagsOf ==
    ASSUME CacheInv, NEW b \in Bufs, takes(b)
    PROVE  /\ flagsOf(b) \in SUBSET Flags /\ "BUSY" \in flagsOf(b)
           /\ "DELWRI" \in flagsOf(b) => "DONE" \in flagsOf(b) /\ "ERROR" \notin flagsOf(b)
           /\ "DONE" \in flagsOf(b) => hit(b) /\ "DONE" \in flags[b]
           /\ "ERROR" \in flagsOf(b) <=> hit(b) /\ "ERROR" \in flags[b]
BY DEF CacheInv, TypeInv, Flags, flagsOf, DelayedValid

\* getblk() and geteblk() return.
LEMMA GetblkInv == ASSUME CacheInv, Getblk, UNCHANGED dskEnd PROVE CacheInv'
<1>1. PICK b \in Bufs : takes(b) /\ obtain(b, flagsOf(b))
  BY DEF Getblk
<1>2. target # NODEV /\ "DONE" \in flagsOf(b) /\ "ERROR" \notin flagsOf(b) => core[b] = content[target]
  BY <1>1, TakesFree, FlagsOf DEF CacheInv, ReadsContent, TypeInv, Free
<1>3. call' \in [op : Ops, blk : Blocks, ra : Blocks, got : Bufs \cup {0}] /\ call'.op # "breada"
  BY BlockNumbers DEF Getblk, Idle, Ops
<1>4. TypeInv
  BY DEF CacheInv
<1> QED BY <1>1, <1>2, <1>3, <1>4, FlagsOf, ObtainInv DEF Getblk, TypeInv

\* Obtaining a buffer and reading the image into it keeps the invariant.
LEMMA ReadInto ==
    ASSUME CacheInv, NEW b \in Bufs, takes(b), target \in Blocks, "DONE" \notin flagsOf(b),
           NEW ok \in outcome, obtain(b, transferred(flagsOf(b), ok)), readIn(b, target, ok),
           UNCHANGED <<disk, content, changed, dskEnd>>,
           call' \in [op : Ops, blk : Blocks, ra : Blocks, got : Bufs \cup {0}],
           call'.op # "breada"
    PROVE  CacheInv'
<1> DEFINE fl == transferred(flagsOf(b), ok)
<1>1. TypeInv
  BY DEF CacheInv
<1>2. fl \in SUBSET Flags /\ "BUSY" \in fl /\ "DELWRI" \notin fl /\ "DELWRI" \notin flagsOf(b)
      /\ ("ERROR" \notin fl => ok)
  BY FlagsOf DEF transferred, Flags
<1>3. ok => core'[b] = disk[target]
  BY <1>1, BlockNumbers DEF readIn, TypeInv
<1>4. core' \in [Bufs -> Data] /\ \A c \in Bufs \ {b} : core'[c] = core[c]
  BY <1>1 DEF readIn, TypeInv
<1>5. ioErrors' \in 0..MaxIoErrors
  BY <1>1, CountBounded DEF readIn
<1>6. disk[target] = content[target]
  BY TargetCurrent
<1> HIDE DEF fl
<1>7. obtain(b, fl)
  BY DEF fl
<1> QED BY <1>2, <1>3, <1>4, <1>5, <1>6, <1>7, ObtainInv

\* bread() returns, from the cache or after reading the image.
LEMMA BreadInv == ASSUME CacheInv, Bread, UNCHANGED dskEnd PROVE CacheInv'
<1>1. PICK b \in Bufs :
        /\ takes(b)
        /\ \/ /\ "DONE" \in flagsOf(b)
              /\ obtain(b, flagsOf(b))
              /\ UNCHANGED <<core, uError, ioErrors>>
           \/ /\ "DONE" \notin flagsOf(b)
              /\ \E ok \in outcome : /\ obtain(b, transferred(flagsOf(b), ok))
                                     /\ readIn(b, target, ok)
  BY DEF Bread
<1>2. call' \in [op : Ops, blk : Blocks, ra : Blocks, got : Bufs \cup {0}] /\ call'.op # "breada"
  BY BlockNumbers DEF Bread, Idle, Ops
<1>3. TypeInv
  BY DEF CacheInv
<1>4. CASE /\ "DONE" \in flagsOf(b)
           /\ obtain(b, flagsOf(b))
           /\ UNCHANGED <<core, uError, ioErrors>>
  <2>1. target # NODEV /\ "DONE" \in flagsOf(b) /\ "ERROR" \notin flagsOf(b) => core[b] = content[target]
    BY <1>1, <1>3, TakesFree, FlagsOf DEF CacheInv, ReadsContent, TypeInv, Free
  <2> QED BY <1>1, <1>2, <1>3, <1>4, <2>1, FlagsOf, ObtainInv DEF Bread, TypeInv
<1>5. ASSUME "DONE" \notin flagsOf(b), NEW ok \in outcome,
             obtain(b, transferred(flagsOf(b), ok)), readIn(b, target, ok)
      PROVE  CacheInv'
  <2>1. target \in Blocks
    BY <1>3 DEF target, Bread, TypeInv
  <2> QED BY <1>1, <1>2, <1>5, <2>1, ReadInto DEF Bread
<1> QED BY <1>1, <1>4, <1>5

\* breada() reads its own block.
LEMMA BreadaFirstInv == ASSUME CacheInv, BreadaFirst, UNCHANGED dskEnd PROVE CacheInv'
<1>1. PICK b \in Bufs, ok \in outcome :
        /\ takes(b)
        /\ obtain(b, transferred(flagsOf(b), ok))
        /\ readIn(b, target, ok)
        /\ call' = [call EXCEPT !.op = "ahead", !.got = b]
  BY DEF BreadaFirst
<1>2. TypeInv /\ target = call.blk /\ target \in Blocks
  BY DEF CacheInv, BreadaFirst, target, TypeInv
<1>3. ~incore(target)
  BY <1>2 DEF CacheInv, BreadaFresh, BreadaFirst
<1>4. "DONE" \notin flagsOf(b)
  BY <1>1, <1>3 DEF flagsOf, hit, incore
<1>5. call' \in [op : Ops, blk : Blocks, ra : Blocks, got : Bufs \cup {0}] /\ call'.op # "breada"
  BY <1>1, <1>2 DEF TypeInv, Ops
<1> QED BY <1>1, <1>2, <1>4, <1>5, ReadInto DEF BreadaFirst

\* breada() reads ahead and releases the buffer.
LEMMA BreadaAheadInv == ASSUME CacheInv, BreadaAhead, UNCHANGED dskEnd PROVE CacheInv'
<1>1. PICK b \in Bufs, ok \in outcome :
         /\ takes(b)
         /\ assoc' = [assoc EXCEPT ![b] = IF ok THEN target ELSE NODEV]
         /\ av' = Append(without(av, b), b)
         /\ flags' = [flags EXCEPT ![b] = transferred({}, ok)]
         /\ readIn(b, target, ok)
  BY DEF BreadaAhead
<1>2. TypeInv /\ target = call.ra /\ target \in Blocks /\ ~incore(target) /\ ~hit(b)
  BY DEF CacheInv, BreadaAhead, target, TypeInv, wantsAhead, hit, incore
<1>3. /\ b \in Free /\ "DELWRI" \notin flags[b]
      /\ \A c \in Bufs \ {b} : assoc[c] # target
  BY <1>1, <1>2, TakesFree, BlockNumbers
<1>4. disk[target] = content[target]
  BY <1>2 DEF CacheInv, DiskCurrent, incore
<1>5. flags' \in [Bufs -> SUBSET Flags] /\ "BUSY" \notin flags'[b] /\ "DELWRI" \notin flags'[b]
      /\ \A c \in Bufs \ {b} : flags'[c] = flags[c]
  BY <1>1, <1>2 DEF TypeInv, transferred, Flags
<1>6. Busy' = Busy /\ Free' = Free
  BY <1>3, <1>5 DEF Busy, Free
<1>7. Lists(av', Free')
  <2>1. Lists(without(av, b), Free \ {b})
    BY <1>3, TakeOut DEF CacheInv, Free
  <2>2. Lists(Append(without(av, b), b), (Free \ {b}) \cup {b})
    BY <2>1, <1>3, PutBack DEF Free
  <2>3. (Free \ {b}) \cup {b} = Free
    BY <1>3
  <2> QED BY <1>1, <1>6, <2>2, <2>3
<1>8. core' \in [Bufs -> Data] /\ (\A c \in Bufs \ {b} : core'[c] = core[c])
      /\ (ok => core'[b] = content[target])
  BY <1>1, <1>2, <1>4, BlockNumbers DEF readIn, TypeInv
<1>9. ioErrors' \in 0..MaxIoErrors
  BY <1>1, <1>2, CountBounded DEF readIn
<1>10. call' \in [op : Ops, blk : Blocks, ra : Blocks, got : Bufs \cup {0}] /\ call'.op = "ahead"
  BY <1>2, BlockNumbers DEF TypeInv, BreadaAhead
<1>11. TypeInv'
  BY <1>1, <1>2, <1>5, <1>6, <1>8, <1>9, <1>10 DEF TypeInv, BreadaAhead
<1>12. OneBufferPerBlock'
  BY <1>1, <1>2, <1>3 DEF CacheInv, OneBufferPerBlock, TypeInv
<1>13. DelayedValid'
  BY <1>1, <1>2, <1>5 DEF CacheInv, DelayedValid, TypeInv
<1>14. DiskCurrent'
  <2> SUFFICES ASSUME NEW blk \in Blocks, disk[blk] # content[blk]
               PROVE  \E c \in Bufs : assoc'[c] = blk /\ "DELWRI" \in flags'[c]
    BY DEF DiskCurrent, BreadaAhead
  <2>1. PICK c \in Bufs : assoc[c] = blk /\ "DELWRI" \in flags[c]
    BY DEF CacheInv, DiskCurrent
  <2>2. c # b
    BY <2>1, <1>3
  <2> QED BY <2>1, <2>2, <1>1, <1>2, <1>5 DEF TypeInv
<1>15. ReadsContent'
  <2> SUFFICES ASSUME NEW c \in Bufs \ changed, assoc'[c] # NODEV, "DONE" \in flags'[c], "ERROR" \notin flags'[c]
               PROVE  core'[c] = content[assoc'[c]]
    BY DEF ReadsContent, BreadaAhead
  <2>1. CASE c = b
    BY <2>1, <1>1, <1>2, <1>8 DEF TypeInv
  <2>2. CASE c # b
    BY <2>2, <1>1, <1>2, <1>5, <1>8 DEF CacheInv, ReadsContent, TypeInv
  <2> QED BY <2>1, <2>2
<1> QED BY <1>7, <1>10, <1>11, <1>12, <1>13, <1>14, <1>15 DEF CacheInv, BreadaFresh

\* breada() ends, or goes on as bread().
LEMMA BreadaLastInv == ASSUME CacheInv, BreadaLast, UNCHANGED dskEnd PROVE CacheInv'
<1>1. TypeInv
  BY DEF CacheInv
<1>2. call' \in [op : Ops, blk : Blocks, ra : Blocks, got : Bufs \cup {0}] /\ call'.op # "breada"
  BY <1>1, BlockNumbers DEF BreadaLast, TypeInv, Idle, Ops
<1> QED BY <1>2, CallInv DEF BreadaLast

\* Every step of the cache.
LEMMA CacheStepInv == ASSUME CacheInv, Cache PROVE CacheInv'
BY EvictInv, GetblkInv, BreadInv, BreadaFirstInv, BreadaAheadInv, BreadaLastInv, BflushInv DEF Cache

(***************************************************************************)
(* The steps of the file system.                                           *)
(***************************************************************************)

\* A call begins.
LEMMA BeginInv == ASSUME CacheInv, Asks \/ AsksEmpty, UNCHANGED dskEnd PROVE CacheInv'
<1>1. PICK op \in Ops, blk \in Blocks, ra \in Blocks :
        begin(op, blk, ra) /\ (op = "breada" => ~incore(blk))
  BY BlockNumbers DEF Asks, AsksEmpty, Ops
<1>2. call' \in [op : Ops, blk : Blocks, ra : Blocks, got : Bufs \cup {0}]
      /\ call'.op = op /\ call'.blk = blk
  BY <1>1 DEF begin
<1> QED BY <1>1, <1>2, CallInv DEF begin

\* A held buffer is modified.
LEMMA ModifiesInv == ASSUME CacheInv, Modifies, UNCHANGED dskEnd PROVE CacheInv'
<1>1. PICK b \in Busy, v \in Data : /\ core' = [core EXCEPT ![b] = v]
                                    /\ changed' = changed \cup {b}
  BY DEF Modifies
<1>2. UNCHANGED <<assoc, flags, av, disk, dskEnd, call, ioErrors, content>>
  BY DEF Modifies
<1>3. TypeInv'
  BY <1>1, <1>2 DEF CacheInv, TypeInv, Busy
<1>4. ReadsContent'
  BY <1>1, <1>2 DEF CacheInv, ReadsContent, TypeInv, Busy
<1> QED BY <1>2, <1>3, <1>4 DEF CacheInv, Lists, Free, Busy, OneBufferPerBlock, DelayedValid,
                            DiskCurrent, BreadaFresh, incore

\* A held buffer is not on the available list.
LEMMA HeldUnlisted ==
    ASSUME CacheInv, NEW b \in Busy
    PROVE  b \in Bufs /\ Free \ {b} = Free /\ Lists(av, Free \ {b})
<1>1. b \in Bufs /\ Free \ {b} = Free
  BY DEF Busy, Free
<1> QED BY <1>1 DEF CacheInv

\* bwrite() and bawrite().
LEMMA BwriteInv == ASSUME CacheInv, Bwrite, UNCHANGED dskEnd PROVE CacheInv'
<1>1. PICK b \in Busy, async \in BOOLEAN, ok \in outcome :
         /\ mayWrite(b)
         /\ writeOut(b, av, async, ok)
         /\ content' = [content EXCEPT ![assoc[b]] = IF ok THEN core[b] ELSE disk[assoc[b]]]
         /\ changed' = changed \ {b}
  BY DEF Bwrite
<1>2. UNCHANGED <<core, call>>
  BY DEF Bwrite
<1>3. b \in Bufs /\ TypeInv /\ assoc[b] \in Blocks /\ assoc[b] # NODEV
  BY <1>1, HeldUnlisted DEF CacheInv, TypeInv, mayWrite
<1>4. /\ Lists(av', Free') /\ Busy' = Busy \ {b}
      /\ assoc' = [assoc EXCEPT ![b] = IF ok THEN assoc[b] ELSE NODEV]
      /\ flags' \in [Bufs -> SUBSET Flags]
      /\ \A c \in Bufs \ {b} : flags'[c] = flags[c]
      /\ "DELWRI" \notin flags'[b] /\ (ok => "ERROR" \notin flags'[b])
      /\ disk' = IF ok THEN [disk EXCEPT ![assoc[b]] = core[b]] ELSE disk
      /\ ioErrors' \in 0..MaxIoErrors
  BY <1>1, <1>3, HeldUnlisted, WriteEffect
<1>5. TypeInv'
  BY <1>1, <1>2, <1>3, <1>4, BlockNumbers DEF TypeInv
<1>6. OneBufferPerBlock'
  BY <1>3, <1>4 DEF CacheInv, OneBufferPerBlock, TypeInv
<1>7. DelayedValid'
  BY <1>3, <1>4 DEF CacheInv, DelayedValid, TypeInv
<1>8. DiskCurrent'
  BY <1>1, <1>3, <1>4, SMTT(60) DEF CacheInv, DiskCurrent, TypeInv
<1>9. ReadsContent'
  <2> SUFFICES ASSUME NEW c \in Bufs \ (changed \ {b}), assoc'[c] # NODEV,
                      "DONE" \in flags'[c], "ERROR" \notin flags'[c]
               PROVE  core[c] = content'[assoc'[c]]
    BY <1>1, <1>2 DEF ReadsContent
  <2>1. CASE c = b
    BY <2>1, <1>1, <1>3, <1>4 DEF TypeInv
  <2>2. CASE c # b
    <3>1. assoc'[c] = assoc[c] /\ flags'[c] = flags[c] /\ assoc[c] # assoc[b]
      BY <2>2, <1>3, <1>4 DEF CacheInv, OneBufferPerBlock, TypeInv
    <3>2. assoc[c] \in Blocks
      BY <3>1, <1>3 DEF TypeInv
    <3>3. core[c] = content[assoc[c]]
      BY <2>2, <3>1 DEF CacheInv, ReadsContent
    <3> QED BY <3>1, <3>2, <3>3, <1>1, <1>3 DEF TypeInv
  <2> QED BY <2>1, <2>2
<1>10. BreadaFresh'
  BY <1>2 DEF BreadaFresh, Bwrite, Idle
<1> QED BY <1>4, <1>5, <1>6, <1>7, <1>8, <1>9, <1>10 DEF CacheInv

\* bdwrite().
LEMMA BdwriteInv == ASSUME CacheInv, Bdwrite, UNCHANGED dskEnd PROVE CacheInv'
<1>1. PICK b \in Busy :
         /\ mayWrite(b)
         /\ brelse(b, flags[b] \cup {"DELWRI", "DONE"}, av, {})
         /\ content' = [content EXCEPT ![assoc[b]] = core[b]]
         /\ changed' = changed \ {b}
  BY DEF Bdwrite
<1>2. UNCHANGED <<core, disk, call, ioErrors>>
  BY DEF Bdwrite
<1>3. b \in Bufs /\ TypeInv /\ assoc[b] \in Blocks /\ assoc[b] # NODEV /\ "ERROR" \notin flags[b]
  BY <1>1, HeldUnlisted DEF CacheInv, TypeInv, mayWrite
<1>4. flags[b] \cup {"DELWRI", "DONE"} \in SUBSET Flags
  BY <1>3 DEF TypeInv, Flags
<1>5. Lists(av', Free') /\ Busy' = Busy \ {b}
  <2>1. Lists(av, Free \ {b}) /\ {} \in SUBSET {"AGE"}
    BY <1>1, HeldUnlisted
  <2> QED BY <1>1, <1>3, <1>4, <2>1, ReleaseLists
<1>6. /\ assoc' = assoc
      /\ flags' \in [Bufs -> SUBSET Flags]
      /\ \A c \in Bufs \ {b} : flags'[c] = flags[c]
      /\ "DELWRI" \in flags'[b] /\ "DONE" \in flags'[b] /\ "ERROR" \notin flags'[b]
  BY <1>1, <1>3, <1>4 DEF brelse, TypeInv, Flags
<1>7. TypeInv'
  BY <1>1, <1>2, <1>3, <1>5, <1>6 DEF TypeInv
<1>8. OneBufferPerBlock' /\ DelayedValid'
  BY <1>3, <1>6 DEF CacheInv, OneBufferPerBlock, DelayedValid, TypeInv
<1>9. DiskCurrent'
  BY <1>1, <1>2, <1>3, <1>6, SMTT(60) DEF CacheInv, DiskCurrent, TypeInv
<1>10. ReadsContent'
  <2> SUFFICES ASSUME NEW c \in Bufs \ (changed \ {b}), assoc[c] # NODEV,
                      "DONE" \in flags'[c], "ERROR" \notin flags'[c]
               PROVE  core[c] = content'[assoc[c]]
    BY <1>1, <1>2, <1>6 DEF ReadsContent
  <2>1. CASE c = b
    BY <2>1, <1>1, <1>3 DEF TypeInv
  <2>2. CASE c # b
    <3>1. flags'[c] = flags[c] /\ assoc[c] # assoc[b] /\ assoc[c] \in Blocks
      BY <2>2, <1>3, <1>6 DEF CacheInv, OneBufferPerBlock, TypeInv
    <3>2. core[c] = content[assoc[c]]
      BY <2>2, <3>1 DEF CacheInv, ReadsContent
    <3> QED BY <3>1, <3>2, <1>1, <1>3 DEF TypeInv
  <2> QED BY <2>1, <2>2
<1>11. BreadaFresh'
  BY <1>2 DEF BreadaFresh, Bdwrite, Idle
<1> QED BY <1>5, <1>7, <1>8, <1>9, <1>10, <1>11 DEF CacheInv

\* brelse() of a buffer that was not modified or is not valid.
LEMMA BrelseInv == ASSUME CacheInv, Brelse, UNCHANGED dskEnd PROVE CacheInv'
<1>1. PICK b \in Busy :
         /\ b \notin changed \/ assoc[b] = NODEV \/ "DONE" \notin flags[b] \/ "ERROR" \in flags[b]
         /\ brelse(b, flags[b], av, {})
         /\ changed' = changed \ {b}
  BY DEF Brelse
<1>2. UNCHANGED <<core, disk, call, ioErrors, content>>
  BY DEF Brelse
<1>3. b \in Bufs /\ TypeInv /\ flags[b] \in SUBSET Flags
  BY <1>1, HeldUnlisted DEF CacheInv, TypeInv
<1>4. Lists(av', Free') /\ Busy' = Busy \ {b}
  <2>1. Lists(av, Free \ {b}) /\ {} \in SUBSET {"AGE"}
    BY <1>1, HeldUnlisted
  <2> QED BY <1>1, <1>3, <2>1, ReleaseLists
<1>5. /\ assoc' = [assoc EXCEPT ![b] = IF "ERROR" \in flags[b] THEN NODEV ELSE assoc[b]]
      /\ flags' = [flags EXCEPT ![b] = flags[b] \ {"BUSY", "AGE"}]
  BY <1>1, <1>3 DEF brelse, TypeInv
<1>6. TypeInv'
  BY <1>1, <1>2, <1>3, <1>4, <1>5 DEF TypeInv
<1>7. OneBufferPerBlock' /\ DelayedValid'
  BY <1>3, <1>5 DEF CacheInv, OneBufferPerBlock, DelayedValid, TypeInv
<1>8. DiskCurrent'
  BY <1>2, <1>3, <1>5 DEF CacheInv, DiskCurrent, DelayedValid, TypeInv
<1>9. ReadsContent'
  BY <1>1, <1>2, <1>3, <1>5 DEF CacheInv, ReadsContent, TypeInv
<1>10. BreadaFresh'
  BY <1>2 DEF BreadaFresh, Brelse, Idle
<1> QED BY <1>4, <1>6, <1>7, <1>8, <1>9, <1>10 DEF CacheInv

\* v7fs_sync() begins.
LEMMA SyncInv == ASSUME CacheInv, Sync, UNCHANGED dskEnd PROVE CacheInv'
<1>1. call' \in [op : Ops, blk : Blocks, ra : Blocks, got : Bufs \cup {0}] /\ call'.op = "bflush"
  BY BlockNumbers DEF Sync, Idle, Ops
<1> QED BY <1>1, CallInv DEF Sync

\* The process ends and starts again.
LEMMA CrashInv == ASSUME CacheInv, Crash, UNCHANGED dskEnd PROVE CacheInv'
<1>1. Busy' = {} /\ Free' = Bufs
  BY DEF Busy, Free, Crash, binit
<1>2. TypeInv'
  BY <1>1, BlockNumbers, CacheAssumption DEF CacheInv, TypeInv, Crash, binit, Idle, Ops
<1>3. Lists(av', Free')
  <2>1. av' \in Seq(Bufs) /\ Len(av') = NBUF /\ \A i \in 1..NBUF : av'[i] = i
    BY CacheAssumption DEF Bufs, Crash, binit
  <2> QED BY <2>1, <1>1 DEF Lists, Bufs
<1>4. OneBufferPerBlock' /\ DelayedValid' /\ DiskCurrent' /\ ReadsContent' /\ BreadaFresh'
  BY DEF OneBufferPerBlock, DelayedValid, DiskCurrent, ReadsContent, BreadaFresh, Idle, Crash, binit
<1> QED BY <1>2, <1>3, <1>4 DEF CacheInv

\* Every step keeps the invariant.
LEMMA CacheNext == ASSUME CacheInv, [Next]_vars PROVE CacheInv'
<1>1. CASE Cache
  BY <1>1, CacheStepInv
<1>2. CASE FileSystem
  BY <1>2, BeginInv, ModifiesInv, BwriteInv, BdwriteInv, BrelseInv, SyncInv, CrashInv DEF FileSystem
<1>3. CASE UNCHANGED vars
  <2>1. TypeInv /\ (call.op = "breada" => ~incore(call.blk))
    BY DEF CacheInv, BreadaFresh
  <2> QED BY <1>3, <2>1, CallInv DEF vars, TypeInv
<1> QED BY <1>1, <1>2, <1>3 DEF Next

(***************************************************************************)
(* The theorems.                                                           *)
(***************************************************************************)

\* bio.c keeps the inductive invariant, given an image that holds the file
\* system.
THEOREM CacheCorrect == ASSUME ImageHoldsFs PROVE Spec => []CacheInv
<1>1. Init => CacheInv
  BY CacheInit
<1>2. CacheInv /\ [Next]_vars => CacheInv'
  BY CacheNext
<1> QED BY <1>1, <1>2, PTL DEF Spec

\* The available list of bio.c holds exactly the buffers that are not BUSY.
THEOREM FreeIffNotBusyHolds == ASSUME ImageHoldsFs PROVE Spec => []FreeIffNotBusy
<1>1. CacheInv => FreeIffNotBusy
  BY DEF CacheInv, Lists, FreeIffNotBusy, Free, Busy
<1> QED BY <1>1, CacheCorrect, PTL

\* getblk() never gives a block two buffers.
THEOREM OneBufferHolds == ASSUME ImageHoldsFs PROVE Spec => []OneBufferPerBlock
<1>1. CacheInv => OneBufferPerBlock
  BY DEF CacheInv
<1> QED BY <1>1, CacheCorrect, PTL

\* bread() and breada() return the content of the block.
THEOREM ReadsContentHolds == ASSUME ImageHoldsFs PROVE Spec => []ReadsContent
<1>1. CacheInv => ReadsContent
  BY DEF CacheInv
<1> QED BY <1>1, CacheCorrect, PTL

\* When bflush() returns and nothing is held, the image is up to date.
THEOREM SyncCommitsHolds == ASSUME ImageHoldsFs PROVE Spec => SyncCommits
<1>1. CacheInv /\ [Next]_vars => [call.op = "bflush" /\ call'.op = "idle" /\ Busy = {} => disk' = content']_vars
  <2> SUFFICES ASSUME CacheInv, Next, call.op = "bflush", call'.op = "idle", Busy = {}
               PROVE  disk' = content'
    BY DEF vars
  <2>1. CASE Crash
    BY <2>1 DEF Crash
  <2>2. CASE ~Crash
    <3>1. Bflush
      BY <2>2 DEF Next, Cache, FileSystem, Evict, Searching, Getblk, Bread, BreadaFirst,
                  BreadaAhead, BreadaLast, Asks, AsksEmpty, begin, Modifies, Bwrite, Bdwrite,
                  Brelse, Sync, Idle
    <3>2. ~delayed /\ UNCHANGED <<disk, content>>
      BY <3>1 DEF Bflush
    <3>3. \A b \in Bufs : "DELWRI" \notin flags[b]
      BY <3>2 DEF delayed, CacheInv, Lists, Free
    <3>4. \A blk \in Blocks : disk[blk] = content[blk]
      BY <3>3 DEF CacheInv, DiskCurrent
    <3> QED BY <3>2, <3>4 DEF CacheInv, TypeInv
  <2> QED BY <2>1, <2>2
<1> QED BY <1>1, CacheCorrect, PTL DEF Spec, SyncCommits

\* A write that bio.c makes on its own writes back the content of a block, or
\* is refused.
LEMMA FlushStores ==
    ASSUME CacheInv, NEW b \in Free, "DELWRI" \in flags[b], flushOut(b)
    PROVE  \E blk \in Blocks : Store!WriteBack(blk) \/ Store!Refused(blk)
<1>1. b \in Bufs /\ b \notin changed /\ TypeInv /\ assoc[b] \in Blocks /\ assoc[b] # NODEV
  BY DEF Free, CacheInv, TypeInv, DelayedValid
<1>2. PICK ok \in outcome :
         /\ writeOut(b, without(av, b), TRUE, ok)
         /\ content' = IF ok THEN content ELSE [content EXCEPT ![assoc[b]] = disk[assoc[b]]]
  BY DEF flushOut
<1>3. disk' = IF ok THEN [disk EXCEPT ![assoc[b]] = core[b]] ELSE disk
  BY <1>1, <1>2, CacheAssumption DEF writeOut, TypeInv, Blocks
<1>4. core[b] = content[assoc[b]]
  BY <1>1 DEF CacheInv, ReadsContent, DelayedValid
<1> QED BY <1>1, <1>2, <1>3, <1>4 DEF Store!WriteBack, Store!Refused

\* bwrite() writes a block, or is refused.
LEMMA BwriteStores == ASSUME CacheInv, Bwrite PROVE \E blk \in Blocks : Store!Write(blk) \/ Store!Refused(blk)
<1>1. PICK b \in Busy, async \in BOOLEAN, ok \in outcome :
         /\ mayWrite(b)
         /\ writeOut(b, av, async, ok)
         /\ content' = [content EXCEPT ![assoc[b]] = IF ok THEN core[b] ELSE disk[assoc[b]]]
         /\ changed' = changed \ {b}
  BY DEF Bwrite
<1>2. b \in Bufs /\ TypeInv /\ assoc[b] \in Blocks /\ assoc[b] # NODEV /\ core[b] \in Data
  BY <1>1, HeldUnlisted DEF CacheInv, TypeInv, mayWrite
<1>3. disk' = IF ok THEN [disk EXCEPT ![assoc[b]] = core[b]] ELSE disk
  BY <1>1, <1>2, CacheAssumption DEF writeOut, TypeInv, Blocks
<1> QED BY <1>1, <1>2, <1>3 DEF Store!Write, Store!Refused

\* bdwrite() writes a block whose image stays behind.
LEMMA BdwriteStores == ASSUME CacheInv, Bdwrite PROVE \E blk \in Blocks : Store!Write(blk)
<1>1. PICK b \in Busy : mayWrite(b) /\ content' = [content EXCEPT ![assoc[b]] = core[b]]
  BY DEF Bdwrite
<1>2. assoc[b] \in Blocks /\ core[b] \in Data /\ UNCHANGED disk
  BY <1>1, HeldUnlisted DEF CacheInv, TypeInv, mayWrite, Bdwrite
<1> QED BY <1>1, <1>2 DEF Store!Write

\* The buffer cache is a disk: every step of bio.c is a step of BlockStore or
\* changes neither what the blocks read as nor the image.
THEOREM CacheStores == ASSUME ImageHoldsFs PROVE Spec => StoreSpec
<1>1. Init => Store!Init
  BY DEF Init, Store!Init
<1>2. CacheInv /\ [Next]_vars => [Store!Next]_(Store!vars)
  <2> SUFFICES ASSUME CacheInv, [Next]_vars, ~UNCHANGED <<content, disk>>
               PROVE  Store!Next
    BY DEF Store!vars
  <2>1. CASE Evict
    <3>1. av # <<>> /\ "DELWRI" \in flags[Head(av)] /\ flushOut(Head(av))
      BY <2>1 DEF Evict
    <3>2. Head(av) \in Free
      BY <3>1, HeadFree DEF CacheInv
    <3> QED BY <3>1, <3>2, FlushStores DEF Store!Next
  <2>2. CASE Bflush
    <3>1. PICK i \in 1..Len(av) : firstDelayed(i) /\ flushOut(av[i])
      BY <2>2 DEF Bflush
    <3>2. av[i] \in Free /\ "DELWRI" \in flags[av[i]]
      BY <3>1 DEF CacheInv, Lists, firstDelayed
    <3> QED BY <3>1, <3>2, FlushStores DEF Store!Next
  <2>3. CASE Bwrite
    BY <2>3, BwriteStores DEF Store!Next
  <2>4. CASE Bdwrite
    BY <2>4, BdwriteStores DEF Store!Next
  <2>5. CASE Crash
    BY <2>5 DEF Crash, Store!Crash, Store!Next
  <2> QED BY <2>1, <2>2, <2>3, <2>4, <2>5
          DEF Next, Cache, FileSystem, vars, Getblk, Bread, BreadaFirst, BreadaAhead,
              BreadaLast, Asks, AsksEmpty, begin, Modifies, Brelse, Sync
<1> QED BY <1>1, <1>2, CacheCorrect, PTL DEF Spec, StoreSpec, Store!Spec

\* Every variable of the cache keeps its type.
THEOREM CacheTypeHolds == ASSUME ImageHoldsFs PROVE Spec => []CacheTypeOK
<1>1. CacheInv => CacheTypeOK
  BY CacheAssumption DEF CacheInv, TypeInv, Flags, CacheTypeOK
<1> QED BY <1>1, CacheCorrect, PTL
=============================================================================
