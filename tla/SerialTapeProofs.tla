------------------------- MODULE SerialTapeProofs -------------------------
(***************************************************************************)
(* The serial tape for every tape, every count and any number of faults of *)
(* the line: the blocks that a call takes.                                 *)
(***************************************************************************)
EXTENDS SerialTape, SequenceTheorems, TLAPS

-----------------------------------------------------------------------------
(* Frames on the line: which types are there, and how often.               *)

Has(s, T) == \E i \in 1 .. Len(s) : s[i].type \in T

AtMostOne(s, T) ==
    \A i, j \in 1 .. Len(s) : s[i].type \in T /\ s[j].type \in T => i = j

\* The blocks of s are those of a payload that starts at byte p of file f.
Blocks(s, f, p) ==
    \A i \in 1 .. Len(s) : s[i].type = "block" =>
        /\ s[i].num \in 1 .. BlockMod - 1
        /\ s[i].file = f
        /\ s[i].from = p + (s[i].num - 1) * BlockSize

HostFrames ==
    [type : {"ACK", "NAK", "CAN", "noise"}]
      \cup [type : {"open"}, version : {3}, file : OpenFiles, ok : BOOLEAN]
      \cup [type : {"read"}, offset : Nat, count : Counts, ok : BOOLEAN, short : {0, 1}]
      \cup [type : {"space"}, count : SpaceCounts, ok : BOOLEAN]

TargetFrames ==
    [type : {"ACK", "CAN", "EOT", "noise"}]
      \cup [type : {"block"}, num : Nat, file : Int, from : Int, ok : BOOLEAN, arrived : Nat]

\* A frame is written.
LEMMA OnAppend ==
    ASSUME NEW S, NEW s \in Seq(S), NEW f \in S, NEW T
    PROVE  /\ Append(s, f) \in Seq(S)
           /\ Has(Append(s, f), T) <=> Has(s, T) \/ f.type \in T
           /\ AtMostOne(s, T) /\ (~Has(s, T) \/ f.type \notin T)
                => AtMostOne(Append(s, f), T)
<1>. DEFINE t == Append(s, f)
            n == Len(s)
<1>1. /\ n \in Nat /\ t \in Seq(S) /\ Len(t) = n + 1 /\ t[n + 1] = f
      /\ \A i \in 1 .. n : t[i] = s[i]
  BY AppendProperties, LenProperties
<1>. HIDE DEF t, n
<1>2. Has(t, T) <=> Has(s, T) \/ f.type \in T
  <2>1. ASSUME NEW i \in 1 .. n, s[i].type \in T PROVE Has(t, T)
    BY <1>1, <2>1 DEF Has
  <2>2. ASSUME f.type \in T PROVE Has(t, T)
    BY <1>1, <2>2 DEF Has
  <2>3. ASSUME NEW i \in 1 .. n + 1, t[i].type \in T PROVE Has(s, T) \/ f.type \in T
    BY <1>1, <2>3 DEF Has, n
  <2>. QED
    BY <1>1, <2>1, <2>2, <2>3 DEF Has, n
<1>3. ASSUME AtMostOne(s, T), ~Has(s, T) \/ f.type \notin T PROVE AtMostOne(t, T)
  <2>. SUFFICES ASSUME NEW i \in 1 .. n + 1, NEW j \in 1 .. n + 1,
                       t[i].type \in T, t[j].type \in T
                PROVE  i = j
    BY <1>1 DEF AtMostOne
  <2>1. CASE i \in 1 .. n /\ j \in 1 .. n
    BY <1>1, <1>3, <2>1 DEF AtMostOne, n
  <2>2. CASE i = n + 1 /\ j = n + 1
    BY <2>2
  <2>3. CASE i = n + 1 /\ j \in 1 .. n
    BY <1>1, <1>3, <2>3 DEF Has, n
  <2>4. CASE j = n + 1 /\ i \in 1 .. n
    BY <1>1, <1>3, <2>4 DEF Has, n
  <2>. QED
    BY <1>1, <2>1, <2>2, <2>3, <2>4
<1>. QED
  BY <1>1, <1>2, <1>3 DEF t

\* A frame is read.
LEMMA OnTail ==
    ASSUME NEW S, NEW s \in Seq(S), s # <<>>, NEW T
    PROVE  /\ Tail(s) \in Seq(S) /\ Head(s) \in S /\ Len(Tail(s)) = Len(s) - 1
           /\ Head(s).type \in T => Has(s, T)
           /\ Has(Tail(s), T) => Has(s, T)
           /\ AtMostOne(s, T) => AtMostOne(Tail(s), T)
           /\ AtMostOne(s, T) /\ Head(s).type \in T => ~Has(Tail(s), T)
<1>. DEFINE t == Tail(s)
            n == Len(s)
            h == Head(s)
<1>1. /\ n \in Nat \ {0} /\ t \in Seq(S) /\ Len(t) = n - 1 /\ h = s[1] /\ h \in S
      /\ \A i \in 1 .. n - 1 : t[i] = s[i + 1]
  BY HeadTailProperties, LenProperties
<1>. HIDE DEF t, n, h
<1>2. h.type \in T => Has(s, T)
  BY <1>1 DEF Has, n
<1>3. ASSUME Has(t, T) PROVE Has(s, T)
  <2>1. PICK i \in 1 .. n - 1 : t[i].type \in T
    BY <1>1, <1>3 DEF Has
  <2>2. i + 1 \in 1 .. n /\ s[i + 1].type \in T
    BY <1>1, <2>1
  <2>. QED
    BY <2>2 DEF Has, n
<1>4. ASSUME AtMostOne(s, T) PROVE AtMostOne(t, T)
  <2>. SUFFICES ASSUME NEW i \in 1 .. n - 1, NEW j \in 1 .. n - 1,
                       t[i].type \in T, t[j].type \in T
                PROVE  i = j
    BY <1>1 DEF AtMostOne
  <2>1. i + 1 \in 1 .. n /\ j + 1 \in 1 .. n /\ s[i + 1].type \in T /\ s[j + 1].type \in T
    BY <1>1
  <2>2. i + 1 = j + 1
    BY <1>4, <2>1 DEF AtMostOne, n
  <2>. QED
    BY <2>2
<1>5. ASSUME AtMostOne(s, T), h.type \in T, Has(t, T) PROVE FALSE
  <2>1. PICK i \in 1 .. n - 1 : t[i].type \in T
    BY <1>1, <1>5 DEF Has
  <2>2. i + 1 \in 1 .. n /\ s[i + 1].type \in T /\ 1 \in 1 .. n /\ s[1].type \in T
    BY <1>1, <1>5, <2>1
  <2>3. i + 1 = 1
    BY <1>5, <2>2 DEF AtMostOne, n
  <2>. QED
    BY <1>1, <2>3
<1>. QED
  BY <1>1, <1>2, <1>3, <1>4, <1>5 DEF t, n, h

LEMMA BlocksAppend ==
    ASSUME NEW S, NEW s \in Seq(S), NEW f \in S, NEW g, NEW p, Blocks(s, g, p),
           f.type = "block" => /\ f.num \in 1 .. BlockMod - 1 /\ f.file = g
                               /\ f.from = p + (f.num - 1) * BlockSize
    PROVE  Blocks(Append(s, f), g, p)
<1>. DEFINE t == Append(s, f)
            n == Len(s)
<1>1. n \in Nat /\ Len(t) = n + 1 /\ t[n + 1] = f /\ \A i \in 1 .. n : t[i] = s[i]
  BY AppendProperties, LenProperties
<1>. HIDE DEF t, n
<1>2. ASSUME NEW i \in 1 .. n + 1, t[i].type = "block"
      PROVE  /\ t[i].num \in 1 .. BlockMod - 1 /\ t[i].file = g
             /\ t[i].from = p + (t[i].num - 1) * BlockSize
  <2>1. CASE i = n + 1
    BY <1>1, <1>2, <2>1
  <2>2. CASE i \in 1 .. n
    <3>1. t[i] = s[i]
      BY <1>1, <2>2
    <3>. QED
      BY <1>2, <2>2, <3>1, Zenon DEF Blocks, n
  <2>. QED
    BY <1>1, <2>1, <2>2
<1>. QED
  BY <1>1, <1>2 DEF Blocks, t

LEMMA BlocksTail ==
    ASSUME NEW S, NEW s \in Seq(S), s # <<>>, NEW g, NEW p, Blocks(s, g, p)
    PROVE  /\ Blocks(Tail(s), g, p)
           /\ Head(s).type = "block" =>
                 /\ Head(s).num \in 1 .. BlockMod - 1 /\ Head(s).file = g
                 /\ Head(s).from = p + (Head(s).num - 1) * BlockSize
<1>. DEFINE t == Tail(s)
            n == Len(s)
<1>1. /\ n \in Nat \ {0} /\ Len(t) = n - 1 /\ Head(s) = s[1]
      /\ \A i \in 1 .. n - 1 : t[i] = s[i + 1]
  BY HeadTailProperties, LenProperties
<1>. HIDE DEF t
<1>2. ASSUME NEW i \in 1 .. n - 1, t[i].type = "block"
      PROVE  /\ t[i].num \in 1 .. BlockMod - 1 /\ t[i].file = g
             /\ t[i].from = p + (t[i].num - 1) * BlockSize
  <2>1. i + 1 \in 1 .. n /\ t[i] = s[i + 1]
    BY <1>1
  <2>. QED
    BY <1>2, <2>1, Zenon DEF Blocks
<1>3. 1 \in 1 .. n
  BY <1>1
<1>4. Head(s).type = "block" =>
                 /\ Head(s).num \in 1 .. BlockMod - 1 /\ Head(s).file = g
                 /\ Head(s).from = p + (Head(s).num - 1) * BlockSize
  BY <1>1, <1>3, Zenon DEF Blocks
<1>. QED
  BY <1>1, <1>2, <1>4 DEF Blocks, t

LEMMA BlocksNone ==
    ASSUME NEW s, ~Has(s, {"block"}), NEW g, NEW p
    PROVE  Blocks(s, g, p)
  BY DEF Blocks, Has

-----------------------------------------------------------------------------
(* What the line does to the frames: each one that is left was there, in   *)
(* the same order, and is of the same type or noise.                       *)

Damaged(t, s) ==
    \E g \in [1 .. Len(t) -> 1 .. Len(s)] :
        /\ \A i, j \in 1 .. Len(t) : g[i] = g[j] => i = j
        /\ \A i, j \in 1 .. Len(t) : i < j => g[i] < g[j]
        /\ \A i \in 1 .. Len(t) :
             \/ t[i].type = "noise"
             \/ /\ t[i].type = s[g[i]].type
                /\ t[i].type = "block" =>
                      /\ t[i].num = s[g[i]].num
                      /\ t[i].file = s[g[i]].file
                      /\ t[i].from = s[g[i]].from

LEMMA OnDamage ==
    ASSUME NEW s, NEW t, Damaged(t, s), NEW T, "noise" \notin T
    PROVE  /\ Has(t, T) => Has(s, T)
           /\ AtMostOne(s, T) => AtMostOne(t, T)
<1>1. PICK g \in [1 .. Len(t) -> 1 .. Len(s)] :
        /\ \A i, j \in 1 .. Len(t) : g[i] = g[j] => i = j
        /\ \A i \in 1 .. Len(t) : t[i].type \in {"noise", s[g[i]].type}
  BY DEF Damaged
<1>2. \A i \in 1 .. Len(t) : t[i].type \in T => g[i] \in 1 .. Len(s) /\ s[g[i]].type \in T
  BY <1>1
<1>3. Has(t, T) => Has(s, T)
  BY <1>2, Zenon DEF Has
<1>4. ASSUME AtMostOne(s, T), NEW i \in 1 .. Len(t), NEW j \in 1 .. Len(t),
             t[i].type \in T, t[j].type \in T
      PROVE  i = j
  <2>1. g[i] = g[j]
    BY <1>2, <1>4, Zenon DEF AtMostOne
  <2>. QED
    BY <1>1, <2>1, Zenon
<1>. QED
  BY <1>3, <1>4, Zenon DEF AtMostOne

LEMMA BlocksDamaged ==
    ASSUME NEW s, NEW t, Damaged(t, s), NEW f, NEW p, Blocks(s, f, p)
    PROVE  Blocks(t, f, p)
<1>1. PICK g \in [1 .. Len(t) -> 1 .. Len(s)] :
        \A i \in 1 .. Len(t) :
             \/ t[i].type = "noise"
             \/ /\ t[i].type = s[g[i]].type
                /\ t[i].type = "block" =>
                      /\ t[i].num = s[g[i]].num
                      /\ t[i].file = s[g[i]].file
                      /\ t[i].from = s[g[i]].from
  BY DEF Damaged
<1>2. ASSUME NEW i \in 1 .. Len(t), t[i].type = "block"
      PROVE  /\ t[i].num \in 1 .. BlockMod - 1 /\ t[i].file = f
             /\ t[i].from = p + (t[i].num - 1) * BlockSize
  <2>1. /\ g[i] \in 1 .. Len(s) /\ s[g[i]].type = "block" /\ t[i].num = s[g[i]].num
        /\ t[i].file = s[g[i]].file /\ t[i].from = s[g[i]].from
    BY <1>1, <1>2
  <2>. QED
    BY <2>1, Zenon DEF Blocks
<1>. QED
  BY <1>2 DEF Blocks

\* A frame is lost, another takes its place, or all is as it was.
LEMMA DamagedLost ==
    ASSUME NEW S, NEW s \in Seq(S), NEW k \in 1 .. Len(s)
    PROVE  /\ Without(s, k) \in Seq(S) /\ Damaged(Without(s, k), s)
           /\ Len(Without(s, k)) = Len(s) - 1
           /\ \A i \in 1 .. Len(s) - 1 :
                 Without(s, k)[i] = IF i < k THEN s[i] ELSE s[i + 1]
<1>. DEFINE t == Without(s, k)
            n == Len(s)
            a == SubSeq(s, 1, k - 1)
            b == SubSeq(s, k + 1, n)
            g == [i \in 1 .. n - 1 |-> IF i < k THEN i ELSE i + 1]
<1>1. n \in Nat /\ k \in 1 .. n
  BY LenProperties
<1>2. a \in Seq(S) /\ Len(a) = k - 1 /\ \A i \in 1 .. k - 1 : a[i] = s[i]
  BY <1>1
<1>3. b \in Seq(S) /\ Len(b) = n - k /\ \A i \in 1 .. n - k : b[i] = s[k + i]
  BY <1>1
<1>. HIDE DEF a, b, n
<1>4. t = a \o b
  BY DEF Without, a, b, n
<1>. HIDE DEF t
<1>5. t \in Seq(S) /\ Len(t) = Len(a) + Len(b) /\ Len(t) = n - 1
  <2>1. a \o b \in Seq(S) /\ Len(a \o b) = Len(a) + Len(b)
    BY <1>2, <1>3, ConcatProperties
  <2>. QED
    BY <1>1, <1>2, <1>3, <1>4, <2>1
<1>6. \A i \in 1 .. n - 1 : t[i] = IF i <= k - 1 THEN a[i] ELSE b[i - (k - 1)]
  BY <1>1, <1>2, <1>3, <1>4, <1>5, ConcatProperties, SMTT(60)
<1>7. \A i \in 1 .. n - 1 : t[i] = IF i < k THEN s[i] ELSE s[i + 1]
  BY <1>1, <1>2, <1>3, <1>6
<1>8. Damaged(t, s)
  <2>1. g \in [1 .. Len(t) -> 1 .. n]
    BY <1>1, <1>5
  <2>2. /\ \A i, j \in 1 .. Len(t) : g[i] = g[j] => i = j
        /\ \A i, j \in 1 .. Len(t) : i < j => g[i] < g[j]
    BY <1>1, <1>5, SMTT(60)
  <2>3. \A i \in 1 .. Len(t) : t[i] = s[g[i]]
    BY <1>1, <1>5, <1>7
  <2>. HIDE DEF g
  <2>. QED
    BY <2>1, <2>2, <2>3, Zenon DEF Damaged, n
<1>. QED
  BY <1>5, <1>7, <1>8, Zenon DEF t, n

\* Frame f at place k of s
Put(s, k, f) == [s EXCEPT ![k] = f]

\* Frame f may stand where the line was given g.
Stands(f, g) ==
    \/ f.type = "noise"
    \/ /\ f.type = g.type
       /\ f.type = "block" => f.num = g.num /\ f.file = g.file /\ f.from = g.from

LEMMA DamagedOne ==
    ASSUME NEW S, NEW s \in Seq(S), NEW k \in 1 .. Len(s), NEW f \in S,
           NEW t, t = Put(s, k, f),
           Stands(f, s[k])
    PROVE  t \in Seq(S) /\ Damaged(t, s) /\ Len(t) = Len(s)
<1>. DEFINE g == [i \in 1 .. Len(s) |-> i]
<1>1. t \in Seq(S) /\ Len(t) = Len(s)
  BY ExceptSeq DEF Put
<1>2. \A i \in 1 .. Len(s) : t[i] = IF i = k THEN f ELSE s[i]
  BY DEF Put
<1>3. g \in [1 .. Len(t) -> 1 .. Len(s)] /\ \A i \in 1 .. Len(t) : g[i] = i
  BY <1>1
<1>. HIDE DEF g
<1>4. \A i \in 1 .. Len(t) :
             \/ t[i].type = "noise"
             \/ /\ t[i].type = s[g[i]].type
                /\ t[i].type = "block" =>
                      /\ t[i].num = s[g[i]].num
                      /\ t[i].file = s[g[i]].file
                      /\ t[i].from = s[g[i]].from
  BY <1>1, <1>2, <1>3 DEF Stands
<1>5. /\ \A i, j \in 1 .. Len(t) : g[i] = g[j] => i = j
      /\ \A i, j \in 1 .. Len(t) : i < j => g[i] < g[j]
  BY <1>3
<1>. QED
  BY <1>1, <1>3, <1>4, <1>5, Zenon DEF Damaged

LEMMA DamagedSame ==
    ASSUME NEW S, NEW s \in Seq(S)
    PROVE  Damaged(s, s)
<1>. DEFINE g == [i \in 1 .. Len(s) |-> i]
<1>1. g \in [1 .. Len(s) -> 1 .. Len(s)] /\ \A i \in 1 .. Len(s) : g[i] = i
  OBVIOUS
<1>2. \A i, j \in 1 .. Len(s) : i < j => g[i] < g[j]
  BY <1>1
<1>. HIDE DEF g
<1>. QED
  BY <1>1, <1>2, Zenon DEF Damaged

\* One step of the line
LEMMA FaultStep ==
    ASSUME toHost \in Seq(HostFrames), toTarget \in Seq(TargetFrames), Fault
    PROVE  /\ toHost' \in Seq(HostFrames) /\ Damaged(toHost', toHost)
           /\ toTarget' \in Seq(TargetFrames) /\ Damaged(toTarget', toTarget)
           /\ Len(toHost') <= Len(toHost) /\ Len(toTarget') <= Len(toTarget)
<1>0. Noise \in HostFrames /\ Noise \in TargetFrames /\ Noise.type = "noise"
  BY DEF Noise, Byte, HostFrames, TargetFrames
<1>1. /\ Damaged(toHost, toHost) /\ Damaged(toTarget, toTarget)
      /\ Len(toHost) \in Nat /\ Len(toTarget) \in Nat
  BY DamagedSame, LenProperties
<1>2. CASE LoseToHost
  BY <1>1, <1>2, DamagedLost DEF LoseToHost
<1>3. CASE LoseToTarget
  BY <1>1, <1>3, DamagedLost DEF LoseToTarget
<1>4. CASE NoiseToHost
  <2>1. PICK i \in 1 .. Len(toHost) :
          toHost' = [toHost EXCEPT ![i] = Noise] /\ UNCHANGED toTarget
    BY <1>4 DEF NoiseToHost
  <2>2. PICK g \in HostFrames : g = Noise /\ Stands(g, toHost[i])
    BY <1>0 DEF Stands
  <2>4. toHost' = Put(toHost, i, g)
    BY <2>1, <2>2 DEF Put
  <2>3. /\ toHost' \in Seq(HostFrames) /\ Damaged(toHost', toHost)
        /\ Len(toHost') = Len(toHost)
    BY <2>2, <2>4, DamagedOne
  <2>. QED
    BY <1>1, <2>1, <2>3
<1>5. CASE NoiseToTarget
  <2>1. PICK i \in 1 .. Len(toTarget) :
          toTarget' = [toTarget EXCEPT ![i] = Noise] /\ UNCHANGED toHost
    BY <1>5 DEF NoiseToTarget
  <2>2. PICK g \in TargetFrames : g = Noise /\ Stands(g, toTarget[i])
    BY <1>0 DEF Stands
  <2>4. toTarget' = Put(toTarget, i, g)
    BY <2>1, <2>2 DEF Put
  <2>3. /\ toTarget' \in Seq(TargetFrames) /\ Damaged(toTarget', toTarget)
        /\ Len(toTarget') = Len(toTarget)
    BY <2>2, <2>4, DamagedOne
  <2>. QED
    BY <1>1, <2>1, <2>3
<1>6. CASE DamagePayload
  <2>1. PICK i \in 1 .. Len(toTarget) :
          /\ \/ /\ toTarget[i].type = "block"
                /\ \E k \in 0..BlockSize :
                     toTarget' = [toTarget EXCEPT ![i].ok = FALSE, ![i].arrived = k]
             \/ /\ toTarget[i].type = "packet"
                /\ toTarget' = [toTarget EXCEPT ![i].ok = FALSE]
          /\ UNCHANGED toHost
    BY <1>6 DEF DamagePayload
  <2>. DEFINE f == toTarget[i]
  <2>2. f \in TargetFrames
    BY <2>1
  <2>3. f.type # "packet"
    BY <2>2 DEF TargetFrames
  <2>4. PICK k \in 0..BlockSize :
              toTarget' = [toTarget EXCEPT ![i].ok = FALSE, ![i].arrived = k]
    BY <2>1, <2>3
  <2>. DEFINE h == [f EXCEPT !.ok = FALSE, !.arrived = k]
  <2>5. toTarget' = Put(toTarget, i, h)
    BY <2>4 DEF Put
  <2>6. f \in [type : {"block"}, num : Nat, file : Int, from : Int, ok : BOOLEAN, arrived : Nat]
    BY <2>1, <2>2, <2>3 DEF TargetFrames
  <2>7. k \in Nat
    BY LineAssumption
  <2>. HIDE DEF f
  <2>8. /\ h \in [type : {"block"}, num : Nat, file : Int, from : Int, ok : BOOLEAN, arrived : Nat]
        /\ h.type = f.type /\ h.num = f.num /\ h.file = f.file /\ h.from = f.from
    BY <2>6, <2>7
  <2>. HIDE DEF h
  <2>9. h \in TargetFrames /\ Stands(h, toTarget[i])
    BY <2>8 DEF TargetFrames, Stands, f
  <2>10. /\ toTarget' \in Seq(TargetFrames) /\ Damaged(toTarget', toTarget)
         /\ Len(toTarget') = Len(toTarget)
    BY <2>5, <2>9, DamagedOne
  <2>. QED
    BY <1>1, <2>1, <2>5, <2>10
<1>7. CASE DamageRequest
  <2>1. PICK i \in 1 .. Len(toHost) :
          /\ IsRequest(toHost[i])
          /\ toHost' = [toHost EXCEPT ![i].ok = FALSE]
          /\ UNCHANGED toTarget
    BY <1>7 DEF DamageRequest
  <2>. DEFINE f == toHost[i]
              h == [f EXCEPT !.ok = FALSE]
  <2>2. f \in HostFrames /\ toHost' = Put(toHost, i, h)
    BY <2>1 DEF Put
  <2>3. IsRequest(f)
    BY <2>1
  <2>. HIDE DEF f
  <2>4. h \in HostFrames /\ Stands(h, f)
    BY <2>2, <2>3 DEF HostFrames, IsRequest, Stands
  <2>. HIDE DEF h
  <2>5. /\ toHost' \in Seq(HostFrames) /\ Damaged(toHost', toHost)
        /\ Len(toHost') = Len(toHost)
    BY <2>2, <2>4, DamagedOne DEF f
  <2>. QED
    BY <1>1, <2>1, <2>2, <2>5
<1>8. CASE ShortenRequest
  <2>1. PICK i \in 1 .. Len(toHost) :
          /\ toHost[i].type = "read"
          /\ toHost' = [toHost EXCEPT ![i].ok = FALSE, ![i].short = 1]
          /\ UNCHANGED toTarget
    BY <1>8 DEF ShortenRequest
  <2>. DEFINE f == toHost[i]
              h == [f EXCEPT !.ok = FALSE, !.short = 1]
  <2>2. f \in HostFrames /\ toHost' = Put(toHost, i, h)
    <3>1. f \in HostFrames
      BY <2>1
    <3>2. DOMAIN toHost = 1 .. Len(toHost)
      OBVIOUS
    <3>. QED
      BY <2>1, <3>1, <3>2, Zenon DEF Put
  <2>3. f.type = "read"
    BY <2>1
  <2>. HIDE DEF f
  <2>4. h \in HostFrames /\ Stands(h, f)
    BY <2>2, <2>3 DEF HostFrames, Stands
  <2>. HIDE DEF h
  <2>5. /\ toHost' \in Seq(HostFrames) /\ Damaged(toHost', toHost)
        /\ Len(toHost') = Len(toHost)
    BY <2>2, <2>4, DamagedOne DEF f
  <2>. QED
    BY <1>1, <2>1, <2>2, <2>5
<1>. QED
  BY <1>2, <1>3, <1>4, <1>5, <1>6, <1>7, <1>8 DEF Fault

-----------------------------------------------------------------------------
(* One token goes round: a block or an EOT towards the driver, then its    *)
(* ACK, or a NAK, towards the server.                                      *)

Receiving == drv \in {"response", "drain"}

FrameInv ==
    /\ toHost \in Seq(HostFrames) /\ toTarget \in Seq(TargetFrames)
    /\ file \in Files \cup {None} /\ position \in Nat /\ index \in Nat /\ pendLen \in Nat
    /\ sequence \in Nat \cup {None} /\ iOffset \in Nat
    /\ taken \in Seq([file : Int, from : Int])

TokenInv ==
    /\ AtMostOne(toTarget, {"block", "EOT"})
    /\ AtMostOne(toHost, {"ACK", "NAK"})
    /\ ~(Has(toTarget, {"block", "EOT"}) /\ Has(toHost, {"ACK", "NAK"}))
    /\ Has(toHost, {"NAK"}) => Len(toHost) = 1 /\ toTarget = <<>> /\ drv = "response"
    /\ srv \in {"command", "partial", "block", "eot", "dead"}
    /\ srv \in {"command", "partial"} =>
          /\ ~Has(toTarget, {"block", "EOT"}) /\ ~Has(toHost, {"ACK"})
          /\ Receiving => taken = <<>>
    /\ srv = "eot" => /\ ~Has(toTarget, {"block"})
                      /\ Has(toHost, {"ACK"}) /\ Receiving => taken = <<>>
    /\ Has(toTarget, {"EOT"}) => srv \in {"eot", "dead"}

LEMMA OnlyEmpty == ASSUME NEW S, NEW s \in Seq(S), Len(s) = 0 PROVE s = <<>>
  BY EmptySeq

\* What a frame written to the line, or read from it, does to the token.
LEMMA HasEither ==
    ASSUME NEW s, NEW a, NEW b
    PROVE  Has(s, {a, b}) <=> Has(s, {a}) \/ Has(s, {b})
  BY DEF Has

LEMMA NoFrames ==
    ASSUME NEW T
    PROVE  ~Has(<<>>, T) /\ AtMostOne(<<>>, T)
  BY DEF Has, AtMostOne

LEMMA HostSent ==
    ASSUME FrameInv, NEW f \in HostFrames, toHost' = Append(toHost, f)
    PROVE  /\ toHost' \in Seq(HostFrames) /\ Len(toHost') = Len(toHost) + 1
           /\ \A T : /\ Has(toHost', T) <=> Has(toHost, T) \/ f.type \in T
                     /\ AtMostOne(toHost, T) /\ (~Has(toHost, T) \/ f.type \notin T)
                          => AtMostOne(toHost', T)
<1>1. toHost \in Seq(HostFrames)
  BY DEF FrameInv
<1>2. toHost' \in Seq(HostFrames) /\ Len(toHost') = Len(toHost) + 1
  BY <1>1, AppendProperties
<1>. QED
  BY <1>1, <1>2, OnAppend

LEMMA TargetSent ==
    ASSUME FrameInv, NEW f \in TargetFrames, toTarget' = Append(toTarget, f)
    PROVE  /\ toTarget' \in Seq(TargetFrames)
           /\ \A T : /\ Has(toTarget', T) <=> Has(toTarget, T) \/ f.type \in T
                     /\ AtMostOne(toTarget, T) /\ (~Has(toTarget, T) \/ f.type \notin T)
                          => AtMostOne(toTarget', T)
<1>1. toTarget \in Seq(TargetFrames)
  BY DEF FrameInv
<1>2. toTarget' \in Seq(TargetFrames)
  BY <1>1, AppendProperties
<1>. QED
  BY <1>1, <1>2, OnAppend

LEMMA HostGot ==
    ASSUME FrameInv, HostReads
    PROVE  /\ toHost' \in Seq(HostFrames) /\ Len(toHost') = Len(toHost) - 1
           /\ Head(toHost) \in HostFrames /\ Len(toHost) \in Nat \ {0}
           /\ \A T : /\ Head(toHost).type \in T => Has(toHost, T)
                     /\ Has(toHost', T) => Has(toHost, T)
                     /\ AtMostOne(toHost, T) => AtMostOne(toHost', T)
                     /\ AtMostOne(toHost, T) /\ Head(toHost).type \in T => ~Has(toHost', T)
<1>1. toHost \in Seq(HostFrames) /\ toHost # <<>> /\ toHost' = Tail(toHost)
  BY DEF FrameInv, HostReads
<1>2. /\ toHost' \in Seq(HostFrames) /\ Len(toHost') = Len(toHost) - 1
      /\ Head(toHost) \in HostFrames /\ Len(toHost) \in Nat \ {0}
  BY <1>1, HeadTailProperties, EmptySeq
<1>. QED
  BY <1>1, <1>2, OnTail

LEMMA TargetGot ==
    ASSUME FrameInv, TargetReads
    PROVE  /\ toTarget' \in Seq(TargetFrames) /\ Head(toTarget) \in TargetFrames
           /\ toTarget # <<>>
           /\ \A T : /\ Head(toTarget).type \in T => Has(toTarget, T)
                     /\ Has(toTarget', T) => Has(toTarget, T)
                     /\ AtMostOne(toTarget, T) => AtMostOne(toTarget', T)
                     /\ AtMostOne(toTarget, T) /\ Head(toTarget).type \in T
                          => ~Has(toTarget', T)
<1>1. toTarget \in Seq(TargetFrames) /\ toTarget # <<>> /\ toTarget' = Tail(toTarget)
  BY DEF FrameInv, TargetReads
<1>2. toTarget' \in Seq(TargetFrames) /\ Head(toTarget) \in TargetFrames
  BY <1>1, HeadTailProperties
<1>. QED
  BY <1>1, <1>2, OnTail

LEMMA Bytes ==
    /\ Ack \in HostFrames /\ Nak \in HostFrames /\ Can \in HostFrames
    /\ Ack \in TargetFrames /\ Can \in TargetFrames /\ Eot \in TargetFrames
    /\ Ack.type = "ACK" /\ Nak.type = "NAK" /\ Can.type = "CAN" /\ Eot.type = "EOT"
  BY DEF Ack, Nak, Can, Eot, Byte, HostFrames, TargetFrames

LEMMA Requests ==
    /\ \A f \in OpenFiles : OpenFrame(3, f) \in HostFrames /\ OpenFrame(3, f).type = "open"
    /\ \A n \in SpaceCounts : SpaceFrame(n) \in HostFrames /\ SpaceFrame(n).type = "space"
    /\ \A n \in Counts, off \in Nat :
          ReadFrame(off, n) \in HostFrames /\ ReadFrame(off, n).type = "read"
  BY DEF OpenFrame, SpaceFrame, ReadFrame, HostFrames

LEMMA DivType == \A a \in Nat : a \div BlockSize \in Nat /\ a % BlockSize \in Nat
  BY LineAssumption

LEMMA ModType ==
    /\ \A a \in Nat : a % BlockMod \in Nat
    /\ \A a \in Nat : successor(a) \in Nat
  BY LineAssumption, ServerAssumption DEF successor

LEMMA BlockType ==
    ASSUME FrameInv, NEW p \in Nat, NEW i \in Nat
    PROVE  /\ blockAt(p, i) \in TargetFrames /\ blockAt(p, i).type = "block"
           /\ blockAt(p, i).num = (i \div BlockSize + 1) % BlockMod
           /\ blockAt(p, i).file = file /\ blockAt(p, i).from = p + i
<1>1. file \in Int
  BY ServerAssumption DEF FrameInv, Files, None
<1>2. (i \div BlockSize + 1) % BlockMod \in Nat
  BY DivType, ModType
<1>3. BlockSize \in Nat
  BY LineAssumption
<1>. QED
  BY <1>1, <1>2, <1>3 DEF blockAt, BlockFrame, TargetFrames

\* What a driver step writes and reads, and what it accepts
LEMMA DriverLine ==
    ASSUME FrameInv, Driver
    PROVE  /\ \/ toHost' = toHost
              \/ toHost' = Append(toHost, Ack) /\ TargetReads
              \/ toHost' = Append(toHost, Nak) /\ UNCHANGED toTarget
           /\ toTarget' = toTarget \/ TargetReads
           /\ taken' # taken => /\ Head(toTarget).type = "block" /\ toTarget # <<>>
                                /\ drv = "response"
                                /\ taken' = Append(taken, [file |-> Head(toTarget).file,
                                                           from |-> Head(toTarget).from])
<1>1. CASE Receive
  <2>1. CASE SimpleReply
    BY <2>1 DEF SimpleReply, Driver, accept
  <2>2. CASE ResponseEot
    BY <2>2 DEF ResponseEot, response, SendToHost, Driver, accept
  <2>3. CASE ResponseCan
    BY <2>3 DEF ResponseCan, response, Driver, accept
  <2>4. CASE ResponseWrong
    BY <2>4 DEF ResponseWrong, response, Driver, accept
  <2>5. CASE ResponseDuplicate
    BY <2>5 DEF ResponseDuplicate, response, SendToHost, Driver, accept
  <2>6. CASE ResponseNew
    BY <2>6 DEF ResponseNew, response, SendToHost, blockIs, Driver, accept, TargetReads
  <2>7. CASE Drain
    BY <2>7 DEF Drain, Driver, accept
  <2>. QED
    BY <1>1, <2>1, <2>2, <2>3, <2>4, <2>5, <2>6, <2>7 DEF Receive
<1>2. CASE Timeout
  BY <1>2 DEF Timeout, SimpleTimeout, ResponseTimeout, DrainTimeout, SendToHost, Driver, accept
<1>. QED
  BY <1>1, <1>2 DEF Driver, TimedOut

LEMMA FrameDriver == ASSUME FrameInv, Driver PROVE FrameInv'
<1>1. toHost' \in Seq(HostFrames)
  BY DriverLine, HostSent, Bytes DEF FrameInv
<1>2. toTarget' \in Seq(TargetFrames)
  BY DriverLine, TargetGot DEF FrameInv
<1>3. taken' \in Seq([file : Int, from : Int])
  <2>. DEFINE S == [file : Int, from : Int]
              e == [file |-> Head(toTarget).file, from |-> Head(toTarget).from]
  <2>1. taken \in Seq(S)
    BY DEF FrameInv
  <2>2. ASSUME Head(toTarget).type = "block", toTarget # <<>> PROVE e \in S
    <3>1. Head(toTarget) \in TargetFrames
      BY <2>2, HeadTailProperties DEF FrameInv
    <3>. QED
      BY <2>2, <3>1 DEF TargetFrames
  <2>. HIDE DEF S, e
  <2>3. taken' # taken => taken' = Append(taken, e) /\ e \in S
    BY <2>2, DriverLine DEF e
  <2>4. taken' \in Seq(S)
    BY <2>1, <2>3, AppendProperties
  <2>. QED
    BY <2>4 DEF S
<1>. QED
  BY <1>1, <1>2, <1>3 DEF FrameInv, Driver, serverState

LEMMA FrameCaller == ASSUME FrameInv, Caller PROVE FrameInv'
<1>1. toHost' \in Seq(HostFrames)
  <2>1. CASE CallOpen
    BY <2>1, HostSent, Requests DEF CallOpen, CtOpen, SendToHost
  <2>2. CASE CallClose
    BY <2>2, HostSent, Bytes DEF CallClose, CtClose, SendToHost
  <2>3. CASE CallSpace
    BY <2>3, HostSent, Requests DEF CallSpace, CtIoctl, SendToHost, FrameInv
  <2>4. CASE CallStrategy
    <3>1. PICK off \in {iOffset, successor(iOffset)}, n \in Counts :
            toHost' = toHost \/ toHost' = Append(toHost, ReadFrame(off, n))
      BY <2>4 DEF CallStrategy, CtStrategy, SendToHost
    <3>2. off \in Nat
      BY ModType DEF FrameInv
    <3>. QED
      BY <3>1, <3>2, HostSent, Requests DEF FrameInv
  <2>. QED
    BY <2>1, <2>2, <2>3, <2>4 DEF Caller
<1>2. iOffset' \in Nat
  BY ModType DEF FrameInv, Caller, CallOpen, CallClose, CallSpace, CallStrategy
<1>3. taken' \in Seq([file : Int, from : Int])
  BY EmptySeq DEF FrameInv, Caller, CallOpen, CallClose, CallSpace, CallStrategy, history
<1>4. UNCHANGED toTarget
  BY DEF Caller, CallOpen, CallClose, CallSpace, CallStrategy, CtOpen, CtClose, CtIoctl, CtStrategy
<1>. QED
  BY <1>1, <1>2, <1>3, <1>4 DEF FrameInv, Caller, serverState

\* A transfer starts: with the payload's first block, with EOT, or not at all.
LEMMA Starts ==
    ASSUME FrameInv, NEW p \in Nat, NEW len \in Nat, startTransfer(p, len)
    PROVE  /\ index' = 0 /\ toTarget' \in Seq(TargetFrames)
           /\ \/ srv' = "dead" /\ UNCHANGED toTarget
              \/ srv' = "eot" /\ toTarget' = Append(toTarget, Eot) /\ len = 0
              \/ /\ srv' = "block" /\ toTarget' = Append(toTarget, blockAt(p, 0))
                 /\ len > 0 /\ len % BlockSize = 0
<1>1. blockAt(p, 0) \in TargetFrames
  BY BlockType
<1>2. /\ index' = 0
      /\ \/ srv' = "dead" /\ UNCHANGED toTarget
         \/ srv' = "eot" /\ toTarget' = Append(toTarget, Eot) /\ len = 0
         \/ /\ srv' = "block" /\ toTarget' = Append(toTarget, blockAt(p, 0))
            /\ len > 0 /\ len % BlockSize = 0
  BY DEF startTransfer, SendToTarget
<1>3. toTarget' \in Seq(TargetFrames)
  BY <1>1, <1>2, TargetSent, Bytes DEF FrameInv
<1>. QED
  BY <1>2, <1>3

\* Which of its answers the server gives to a read request
ReadStarts ==
    /\ file # None
    /\ UNCHANGED <<file, version>>
    /\ sequence' \in Nat /\ position' \in Nat /\ pendLen' \in Nat
    /\ position' \in {position, position + pendLen}
    /\ \/ UNCHANGED <<position, pendLen>>
       \/ \E n \in Counts : pendLen' <= n
    /\ startTransfer(position', pendLen')

LEMMA SliceType ==
    ASSUME FrameInv, file # None, NEW pos \in Nat, NEW n \in Nat
    PROVE  SliceLen(pos, n) \in Nat /\ SliceLen(pos, n) <= n
<1>1. FileLen[file] \in Nat
  BY ServerAssumption DEF FrameInv
<1>. QED
  BY <1>1 DEF SliceLen, Smaller

LEMMA ReadKinds ==
    ASSUME FrameInv, Read
    PROVE  \/ UNCHANGED serverState /\ toTarget' = Append(toTarget, Can)
           \/ /\ srv' = "partial"
              /\ UNCHANGED <<toTarget, file, version, position, sequence,
                             pendCount, pendLen, index>>
           \/ ReadStarts
<1>. DEFINE req == Head(toHost)
<1>1. req \in HostFrames /\ req.type = "read"
  BY HostGot DEF Read, command
<1>2. req.offset \in Nat /\ req.count \in Counts /\ req.count \in Nat
  BY <1>1, CallerAssumption DEF HostFrames
<1>3. CASE Refuse
  BY <1>3 DEF Refuse, SendToTarget
<1>4. CASE /\ srv' = "partial"
           /\ UNCHANGED <<toTarget, file, version, position, sequence,
                          pendCount, pendLen, index>>
  BY <1>4
<1>5. CASE /\ file # None /\ UNCHANGED <<file, version>>
           /\ \E pos \in {position, position + pendLen} : takePending(req, pos)
  <2>1. PICK pos \in {position, position + pendLen} : takePending(req, pos)
    BY <1>5
  <2>2. pos \in Nat
    BY DEF FrameInv
  <2>3. SliceLen(pos, req.count) \in Nat /\ SliceLen(pos, req.count) <= req.count
    BY <1>2, <1>5, <2>2, SliceType
  <2>4. /\ sequence' = req.offset /\ position' = pos /\ pendLen' = SliceLen(pos, req.count)
        /\ startTransfer(pos, SliceLen(pos, req.count))
    BY <2>1 DEF takePending
  <2>. QED
    BY <1>2, <1>5, <2>2, <2>3, <2>4 DEF ReadStarts
<1>6. CASE /\ file # None /\ UNCHANGED <<file, version>>
           /\ sequence # None /\ startTransfer(position, pendLen)
           /\ UNCHANGED <<position, sequence, pendCount, pendLen>>
  BY <1>6 DEF ReadStarts, FrameInv
<1>. QED
  BY <1>3, <1>4, <1>5, <1>6 DEF Read

LEMMA FrameServer == ASSUME FrameInv, srv # "packet", Server PROVE FrameInv'
<1>1. toHost' \in Seq(HostFrames) /\ HostReads /\ UNCHANGED <<iOffset, taken>>
  <2>1. HostReads
    BY DEF Server, ServerStep, Open, Read, Partial, BlockReply, EotReply, ReadLegacy, PacketReply,
           Space, Close, Ignore, Gone, command
  <2>. QED
    BY <2>1, HostGot DEF Server, callerVars
<1>. SUFFICES /\ toTarget' \in Seq(TargetFrames)
              /\ file' \in Files \cup {None} /\ position' \in Nat
              /\ index' \in Nat /\ pendLen' \in Nat /\ sequence' \in Nat \cup {None}
  BY <1>1 DEF FrameInv
<1>. DEFINE req == Head(toHost)
<1>2. CASE UNCHANGED <<file, position, index, pendLen, sequence>>
           /\ \/ UNCHANGED toTarget
              \/ toTarget' = Append(toTarget, Can)
  BY <1>2, TargetSent, Bytes DEF FrameInv
<1>3. CASE Open
  <2>1. CASE Refuse
    BY <1>2, <2>1 DEF Refuse, SendToTarget, serverState
  <2>2. CASE ~Refuse
    BY <1>3, <2>2, TargetSent, Bytes DEF Open, validOpen, forgetPending, SendToTarget, FrameInv
  <2>. QED
    BY <2>1, <2>2
<1>4. CASE Space
  <2>1. CASE Refuse
    BY <1>2, <2>1 DEF Refuse, SendToTarget, serverState
  <2>2. CASE ~Refuse
    BY <1>4, <2>2, TargetSent, Bytes DEF Space, forgetPending, SendToTarget, FrameInv
  <2>. QED
    BY <2>1, <2>2
<1>5. CASE Read
  <2>1. CASE ReadStarts
    <3>1. /\ position' \in Nat /\ pendLen' \in Nat /\ startTransfer(position', pendLen')
          /\ sequence' \in Nat /\ file' = file
      BY <2>1 DEF ReadStarts
    <3>2. PICK p \in Nat, len \in Nat : startTransfer(p, len)
      BY <3>1
    <3>. QED
      BY <3>1, <3>2, Starts DEF FrameInv
  <2>2. CASE ~ReadStarts
    BY <1>2, <1>5, <2>2, ReadKinds DEF serverState
  <2>. QED
    BY <2>1, <2>2
<1>6. CASE Partial
  BY <1>2, <1>6 DEF Partial, SendToTarget
<1>7. CASE BlockReply
  <2>1. /\ \A i \in Nat : blockAt(position, i) \in TargetFrames
        /\ index + BlockSize \in Nat
    BY BlockType, LineAssumption DEF FrameInv
  <2>. QED
    BY <1>7, <2>1, TargetSent, Bytes DEF BlockReply, SendToTarget, die, FrameInv
<1>8. CASE EotReply
  BY <1>8, TargetSent, Bytes DEF EotReply, SendToTarget, die, FrameInv
<1>9. CASE Close
  BY <1>9 DEF Close, forgetPending, FrameInv
<1>10. CASE Ignore \/ Gone
  BY <1>2, <1>10 DEF Ignore, Gone, serverState
<1>11. ~ReadLegacy
  BY HostGot DEF ReadLegacy, command, HostFrames
<1>. QED
  BY <1>3, <1>4, <1>5, <1>6, <1>7, <1>8, <1>9, <1>10, <1>11 DEF Server, ServerStep, PacketReply

-----------------------------------------------------------------------------
(* The token is kept.                                                      *)

\* What a call of the program does
LEMMA CallerLine ==
    ASSUME FrameInv, Caller
    PROVE  /\ drv = "idle" /\ UNCHANGED toTarget /\ UNCHANGED serverState
           /\ \/ toHost' = toHost
              \/ \E f \in HostFrames : /\ f.type \in {"open", "read", "space", "CAN"}
                                       /\ toHost' = Append(toHost, f)
           /\ \/ /\ drv' = "response" /\ taken' = <<>> /\ cc' \in Counts /\ r4' = cc'
                 /\ r5' = 0 /\ expected' = 1 /\ errors' = 0 /\ UNCHANGED result
                 /\ mem' = [a \in 0 .. MemTop |-> Untouched]
              \/ /\ drv' \in {"idle", "open", "ioctl"}
                 /\ UNCHANGED <<taken, cc, r4, r5, expected, errors, mem>>
                 /\ drv' = "idle" => result'.value \in {0, -1}
                 /\ drv' # "idle" => UNCHANGED result
           /\ UNCHANGED <<delivered, chunk, spoiled, faults>>
<1>0. UNCHANGED serverState /\ UNCHANGED faults
  BY DEF Caller
<1>1. CASE CallOpen
  BY <1>0, <1>1, Requests DEF CallOpen, CtOpen, SendToHost, history
<1>2. CASE CallClose
  BY <1>0, <1>2, Bytes DEF CallClose, CtClose, SendToHost, history, returns
<1>3. CASE CallSpace
  BY <1>0, <1>3, Requests DEF CallSpace, CtIoctl, SendToHost, history, returns
<1>4. CASE CallStrategy
  <2>1. PICK mode \in {"READ", "WRITE"}, off \in {iOffset, successor(iOffset)}, n \in Counts :
           CtStrategy(mode, off, n) /\ taken' = IF mode = "READ" THEN <<>> ELSE taken
    BY <1>4 DEF CallStrategy
  <2>2. off \in Nat
    BY ModType DEF FrameInv
  <2>3. ReadFrame(off, n) \in HostFrames /\ ReadFrame(off, n).type = "read"
    BY <2>2, Requests
  <2>4. UNCHANGED <<delivered, chunk, spoiled>>
    BY <1>4 DEF CallStrategy
  <2>5. CASE mode = "READ"
    BY <1>0, <2>1, <2>3, <2>4, <2>5 DEF CtStrategy, SendToHost
  <2>6. CASE mode = "WRITE"
    BY <1>0, <2>1, <2>4, <2>6 DEF CtStrategy, returns
  <2>. QED
    BY <2>5, <2>6
<1>. QED
  BY <1>1, <1>2, <1>3, <1>4 DEF Caller

LEMMA TokenCaller == ASSUME FrameInv, TokenInv, Caller PROVE TokenInv'
<1>1. /\ drv = "idle" /\ UNCHANGED <<toTarget, srv>>
      /\ Receiving' => taken' = <<>>
  BY CallerLine DEF serverState, Receiving
<1>2. ~Has(toHost, {"NAK"})
  BY <1>1 DEF TokenInv
<1>3. /\ Has(toHost', {"NAK"}) <=> Has(toHost, {"NAK"})
      /\ Has(toHost', {"ACK"}) <=> Has(toHost, {"ACK"})
      /\ Has(toHost', {"ACK", "NAK"}) <=> Has(toHost, {"ACK", "NAK"})
      /\ AtMostOne(toHost, {"ACK", "NAK"}) => AtMostOne(toHost', {"ACK", "NAK"})
  <2>1. CASE toHost' = toHost
    BY <2>1
  <2>2. CASE \E f \in HostFrames : /\ f.type \in {"open", "read", "space", "CAN"}
                                   /\ toHost' = Append(toHost, f)
    <3>1. PICK f \in HostFrames : /\ f.type \in {"open", "read", "space", "CAN"}
                                  /\ toHost' = Append(toHost, f)
      BY <2>2
    <3>2. \A T : /\ Has(toHost', T) <=> Has(toHost, T) \/ f.type \in T
                 /\ AtMostOne(toHost, T) /\ (~Has(toHost, T) \/ f.type \notin T)
                      => AtMostOne(toHost', T)
      BY <3>1, HostSent
    <3>3. f.type \notin {"NAK"} /\ f.type \notin {"ACK"} /\ f.type \notin {"ACK", "NAK"}
      BY <3>1
    <3>. QED
      BY <3>2, <3>3
  <2>. QED
    BY <2>1, <2>2, CallerLine
<1>. QED
  BY <1>1, <1>2, <1>3 DEF TokenInv, Receiving

\* What a driver step does when a time-out means that nothing is on its way
LEMMA DriverKinds ==
    ASSUME FrameInv, Driver, "late" \notin FaultKinds
    PROVE  /\ UNCHANGED serverState
           /\ \/ /\ toHost' = toHost /\ TargetReads /\ taken' = taken
                 /\ Receiving' => Receiving
              \/ /\ toHost' = Append(toHost, Ack) /\ TargetReads
                 /\ \/ Head(toTarget).type = "EOT" /\ drv' = "idle"
                    \/ Head(toTarget).type = "block" /\ drv = "response" /\ drv' = "response"
              \/ /\ toHost = <<>> /\ toHost' = Append(toHost, Nak)
                 /\ toTarget = <<>> /\ toTarget' = <<>> /\ taken' = taken
                 /\ drv = "drain" /\ drv' = "response"
              \/ /\ toHost = <<>> /\ toHost' = <<>>
                 /\ toTarget = <<>> /\ toTarget' = <<>> /\ taken' = taken
                 /\ Receiving' => Receiving
<1>0. UNCHANGED serverState
  BY DEF Driver
<1>1. CASE Receive
  <2>1. CASE SimpleReply
    BY <1>0, <2>1 DEF SimpleReply, Driver, accept, returns, Receiving
  <2>2. CASE ResponseEot
    BY <1>0, <2>2 DEF ResponseEot, response, SendToHost, Driver, accept, returns, Receiving
  <2>3. CASE ResponseCan
    BY <1>0, <2>3 DEF ResponseCan, response, Driver, accept, returns, Receiving
  <2>4. CASE ResponseWrong
    BY <1>0, <2>4 DEF ResponseWrong, response, Driver, accept, Receiving
  <2>5. CASE ResponseDuplicate
    BY <1>0, <2>5 DEF ResponseDuplicate, response, SendToHost, Driver, accept, blockIs, Receiving
  <2>6. CASE ResponseNew
    BY <1>0, <2>6 DEF ResponseNew, response, SendToHost, blockIs, Driver, accept, Receiving
  <2>7. CASE Drain
    BY <1>0, <2>7 DEF Drain, Driver, accept, driverState, Receiving
  <2>. QED
    BY <1>1, <2>1, <2>2, <2>3, <2>4, <2>5, <2>6, <2>7 DEF Receive
<1>2. CASE TimedOut
  <2>1. toHost = <<>>
    BY <1>2 DEF TimedOut, ServerWaits
  <2>2. CASE SimpleTimeout
    BY <1>0, <2>1, <2>2 DEF SimpleTimeout, returns, Receiving, Driver, accept
  <2>3. CASE ResponseTimeout
    BY <1>0, <2>1, <2>3 DEF ResponseTimeout, Receiving, Driver, accept
  <2>4. CASE DrainTimeout
    BY <1>0, <2>1, <2>4 DEF DrainTimeout, SendToHost, Receiving, Driver, accept
  <2>. QED
    BY <1>2, <2>2, <2>3, <2>4 DEF TimedOut, Timeout
<1>. QED
  BY <1>1, <1>2 DEF Driver

LEMMA TokenDriver ==
    ASSUME FrameInv, TokenInv, Driver, "late" \notin FaultKinds
    PROVE  TokenInv'
<1>. DEFINE TT == {"block", "EOT"}
            TH == {"ACK", "NAK"}
<1>0. UNCHANGED srv
  BY DriverKinds DEF serverState
<1>a. \A s : /\ Has(s, TT) <=> Has(s, {"block"}) \/ Has(s, {"EOT"})
             /\ Has(s, TH) <=> Has(s, {"ACK"}) \/ Has(s, {"NAK"})
  BY HasEither
<1>. HIDE DEF TT, TH
<1>1. CASE toHost' = toHost /\ TargetReads /\ taken' = taken /\ (Receiving' => Receiving)
  <2>1. /\ toTarget # <<>>
        /\ Has(toTarget', TT) => Has(toTarget, TT)
        /\ Has(toTarget', {"block"}) => Has(toTarget, {"block"})
        /\ Has(toTarget', {"EOT"}) => Has(toTarget, {"EOT"})
        /\ AtMostOne(toTarget, TT) => AtMostOne(toTarget', TT)
    BY <1>1, TargetGot
  <2>. QED
    BY <1>0, <1>1, <2>1 DEF TokenInv, TT, TH
<1>2. CASE /\ toHost' = Append(toHost, Ack) /\ TargetReads
           /\ \/ Head(toTarget).type = "EOT" /\ drv' = "idle"
              \/ Head(toTarget).type = "block" /\ drv = "response" /\ drv' = "response"
  <2>1. /\ toTarget # <<>> /\ Has(toTarget, TT) /\ AtMostOne(toTarget', TT) /\ ~Has(toTarget', TT)
        /\ Head(toTarget).type = "block" => Has(toTarget, {"block"})
    <3>1. Head(toTarget).type \in TT /\ AtMostOne(toTarget, TT)
      BY <1>2 DEF TT, TokenInv
    <3>. QED
      BY <1>2, <3>1, TargetGot
  <2>2. ~Has(toHost, TH) /\ AtMostOne(toHost, TH)
    BY <2>1 DEF TokenInv, TT, TH
  <2>3. AtMostOne(toHost', TH) /\ ~Has(toHost', {"NAK"})
    <3>1. Ack.type \notin {"NAK"}
      BY Bytes
    <3>2. ~Has(toHost, {"NAK"})
      BY <1>a, <2>2
    <3>. QED
      BY <1>2, <2>2, <3>1, <3>2, HostSent, Bytes
  <2>4. srv \notin {"command", "partial"}
    BY <2>1 DEF TokenInv, TT
  <2>5. srv = "eot" => drv' = "idle"
    BY <1>2, <2>1 DEF TokenInv
  <2>. QED
    BY <1>0, <1>a, <2>1, <2>3, <2>4, <2>5 DEF TokenInv, TT, TH, Receiving
<1>3. CASE /\ toHost = <<>> /\ toHost' = Append(toHost, Nak)
           /\ toTarget = <<>> /\ toTarget' = <<>> /\ taken' = taken
           /\ drv = "drain" /\ drv' = "response"
  <2>1. /\ \A T : ~Has(toTarget', T) /\ AtMostOne(toTarget', T)
        /\ \A T : ~Has(toHost, T) /\ AtMostOne(toHost, T)
    BY <1>3, NoFrames
  <2>2. /\ AtMostOne(toHost', TH) /\ ~Has(toHost', {"ACK"})
        /\ Len(toHost') = Len(toHost) + 1
    BY <1>3, <2>1, HostSent, Bytes
  <2>3. Len(toHost') = 1
    BY <1>3, <2>2
  <2>. QED
    BY <1>0, <1>3, <2>1, <2>2, <2>3 DEF TokenInv, TH, Receiving
<1>4. CASE /\ toHost = <<>> /\ toHost' = <<>>
           /\ toTarget = <<>> /\ toTarget' = <<>> /\ taken' = taken
           /\ Receiving' => Receiving
  <2>1. /\ \A T : ~Has(toTarget', T) /\ AtMostOne(toTarget', T)
        /\ \A T : ~Has(toHost', T) /\ AtMostOne(toHost', T)
    BY <1>4, NoFrames
  <2>. QED
    BY <1>0, <1>4, <2>1 DEF TokenInv
<1>. QED
  BY <1>1, <1>2, <1>3, <1>4, DriverKinds

LEMMA TokenLine == ASSUME FrameInv, TokenInv, Line PROVE TokenInv' /\ FrameInv'
<1>1. /\ toHost' \in Seq(HostFrames) /\ Damaged(toHost', toHost)
      /\ toTarget' \in Seq(TargetFrames) /\ Damaged(toTarget', toTarget)
      /\ Len(toHost') <= Len(toHost) /\ Len(toTarget') <= Len(toTarget)
  BY FaultStep DEF FrameInv, Line
<1>2. UNCHANGED <<srv, file, position, index, pendLen, sequence, iOffset, taken, drv>>
  BY DEF Line, serverState, driverState, callerVars
<1>3. \A T : "noise" \notin T =>
         /\ Has(toHost', T) => Has(toHost, T)
         /\ Has(toTarget', T) => Has(toTarget, T)
         /\ AtMostOne(toHost, T) => AtMostOne(toHost', T)
         /\ AtMostOne(toTarget, T) => AtMostOne(toTarget', T)
  <2>. SUFFICES ASSUME NEW T, "noise" \notin T
                PROVE  /\ Has(toHost', T) => Has(toHost, T)
                       /\ Has(toTarget', T) => Has(toTarget, T)
                       /\ AtMostOne(toHost, T) => AtMostOne(toHost', T)
                       /\ AtMostOne(toTarget, T) => AtMostOne(toTarget', T)
    OBVIOUS
  <2>1. Damaged(toHost', toHost) /\ Damaged(toTarget', toTarget)
    BY <1>1
  <2>2. /\ Has(toHost', T) => Has(toHost, T)
        /\ AtMostOne(toHost, T) => AtMostOne(toHost', T)
    BY <2>1, OnDamage, Zenon
  <2>3. /\ Has(toTarget', T) => Has(toTarget, T)
        /\ AtMostOne(toTarget, T) => AtMostOne(toTarget', T)
    BY <2>1, OnDamage, Zenon
  <2>. QED
    BY <2>2, <2>3
<1>4. Has(toHost', {"NAK"}) => Len(toHost') = 1
  <2>. SUFFICES ASSUME Has(toHost', {"NAK"}) PROVE Len(toHost') = 1
    OBVIOUS
  <2>1. Len(toHost) = 1
    BY <1>3 DEF TokenInv
  <2>2. Len(toHost') # 0
    BY DEF Has
  <2>3. Len(toHost') \in Nat /\ Len(toHost') <= Len(toHost)
    BY <1>1, LenProperties
  <2>. QED
    BY <2>1, <2>2, <2>3
<1>5. toTarget = <<>> => toTarget' = <<>>
  <2>. SUFFICES ASSUME toTarget = <<>> PROVE toTarget' = <<>>
    OBVIOUS
  <2>0. toTarget' \in Seq(TargetFrames) /\ Len(toTarget') <= Len(toTarget)
    BY <1>1
  <2>a. Len(toTarget') \in Nat
    BY <2>0, LenProperties
  <2>b. Len(toTarget) = 0
    OBVIOUS
  <2>1. Len(toTarget') \in Nat /\ Len(toTarget') <= 0
    BY <2>0, <2>a, <2>b
  <2>2. Len(toTarget') = 0
    BY <2>1
  <2>. QED
    BY <2>0, <2>2, OnlyEmpty
<1>6. FrameInv'
  BY <1>1, <1>2 DEF FrameInv
<1>7. /\ "noise" \notin {"block", "EOT"} /\ "noise" \notin {"ACK", "NAK"} /\ "noise" \notin {"NAK"}
      /\ "noise" \notin {"ACK"} /\ "noise" \notin {"block"} /\ "noise" \notin {"EOT"}
  OBVIOUS
<1>8. TokenInv'
  BY <1>2, <1>3, <1>4, <1>5, <1>7 DEF TokenInv, Receiving
<1>. QED
  BY <1>6, <1>8

\* After a step of the server no NAK is under way: it was the only frame.
LEMMA NakRead ==
    ASSUME FrameInv, TokenInv, HostReads
    PROVE  /\ ~Has(toHost', {"NAK"})
           /\ Has(toHost', {"ACK"}) => Has(toHost, {"ACK"})
           /\ Has(toHost', {"ACK", "NAK"}) <=> Has(toHost', {"ACK"})
           /\ AtMostOne(toHost', {"ACK", "NAK"})
           /\ Head(toHost).type \in {"ACK", "NAK"} =>
                 ~Has(toHost', {"ACK", "NAK"}) /\ ~Has(toTarget, {"block", "EOT"})
<1>1. ASSUME Has(toHost', {"NAK"}) PROVE FALSE
  <2>1. Has(toHost, {"NAK"})
    BY <1>1, HostGot
  <2>2. Len(toHost') = Len(toHost) - 1 /\ Len(toHost) = 1 /\ toHost' \in Seq(HostFrames)
    BY <2>1, HostGot DEF TokenInv
  <2>3. toHost' = <<>>
    BY <2>2, OnlyEmpty
  <2>. QED
    BY <1>1, <2>3, NoFrames
<1>2. Has(toHost', {"ACK"}) => Has(toHost, {"ACK"})
  BY HostGot
<1>3. AtMostOne(toHost, {"ACK", "NAK"})
  BY DEF TokenInv
<1>4. AtMostOne(toHost', {"ACK", "NAK"})
  BY <1>3, HostGot
<1>5. ASSUME Head(toHost).type \in {"ACK", "NAK"}
      PROVE  ~Has(toHost', {"ACK", "NAK"}) /\ ~Has(toTarget, {"block", "EOT"})
  <2>1. Has(toHost, {"ACK", "NAK"}) /\ ~Has(toHost', {"ACK", "NAK"})
    BY <1>3, <1>5, HostGot
  <2>. QED
    BY <2>1 DEF TokenInv
<1>. QED
  BY <1>1, <1>2, <1>4, <1>5, HasEither

\* The server answers a request, or nothing; it starts, continues or ends a
\* transfer.
LEMMA TokenAnswer ==
    ASSUME FrameInv, TokenInv, HostReads, UNCHANGED <<drv, taken>>,
           srv \in {"command", "partial"}, srv' \in {"command", "partial"},
           toTarget' = toTarget \/ \E f \in {Ack, Can} : toTarget' = Append(toTarget, f)
    PROVE  TokenInv'
<1>1. ~Has(toTarget, {"block", "EOT"}) /\ ~Has(toHost, {"ACK"}) /\ (Receiving => taken = <<>>)
  BY DEF TokenInv
<1>2. ~Has(toTarget', {"block", "EOT"}) /\ AtMostOne(toTarget', {"block", "EOT"})
  <2>1. CASE toTarget' = toTarget
    BY <1>1, <2>1 DEF TokenInv
  <2>2. CASE \E f \in {Ack, Can} : toTarget' = Append(toTarget, f)
    <3>1. PICK f \in TargetFrames : /\ f.type \notin {"block", "EOT"}
                                    /\ toTarget' = Append(toTarget, f)
      BY <2>2, Bytes
    <3>2. AtMostOne(toTarget, {"block", "EOT"})
      BY DEF TokenInv
    <3>. QED
      BY <1>1, <3>1, <3>2, TargetSent
  <2>. QED
    BY <2>1, <2>2
<1>3. ~Has(toTarget', {"EOT"})
  BY <1>2, HasEither
<1>. QED
  BY <1>1, <1>2, <1>3, NakRead DEF TokenInv, Receiving

LEMMA TokenSent ==
    ASSUME FrameInv, TokenInv, HostReads, UNCHANGED <<drv, taken>>,
           ~Has(toTarget, {"block", "EOT"}), ~Has(toHost', {"ACK"}),
           NEW f \in TargetFrames, toTarget' = Append(toTarget, f),
           \/ f.type = "block" /\ srv' = "block"
           \/ f.type = "EOT" /\ srv' = "eot"
    PROVE  TokenInv'
<1>1. AtMostOne(toTarget, {"block", "EOT"}) /\ ~Has(toTarget, {"block"}) /\ ~Has(toTarget, {"EOT"})
  BY HasEither DEF TokenInv
<1>2. /\ AtMostOne(toTarget', {"block", "EOT"})
      /\ Has(toTarget', {"block"}) <=> f.type = "block"
      /\ Has(toTarget', {"EOT"}) <=> f.type = "EOT"
  BY <1>1, TargetSent
<1>. QED
  BY <1>2, NakRead DEF TokenInv

LEMMA TokenDead ==
    ASSUME FrameInv, TokenInv, HostReads, UNCHANGED <<drv, taken, toTarget>>, srv' = "dead"
    PROVE  TokenInv'
<1>1. Has(toHost', {"ACK", "NAK"}) => Has(toHost, {"ACK", "NAK"})
  BY HostGot
<1>. QED
  BY <1>1, NakRead DEF TokenInv

LEMMA TokenServer == ASSUME FrameInv, TokenInv, Server PROVE TokenInv'
<1>1. HostReads /\ UNCHANGED <<drv, taken>>
  <2>1. HostReads
    BY DEF Server, ServerStep, Open, Read, Partial, BlockReply, EotReply, ReadLegacy, PacketReply,
           Space, Close, Ignore, Gone, command
  <2>. QED
    BY <2>1 DEF Server, driverState
<1>2. ASSUME srv = "command", UNCHANGED srv,
             toTarget' = toTarget \/ \E f \in {Ack, Can} : toTarget' = Append(toTarget, f)
      PROVE  TokenInv'
  BY <1>1, <1>2, TokenAnswer
<1>3. CASE Open \/ Space \/ Close \/ Ignore
  BY <1>2, <1>3 DEF Open, Space, Close, Ignore, command, Refuse, SendToTarget, serverState
<1>4. CASE Read
  <2>1. srv = "command"
    BY <1>4 DEF Read, command
  <2>2. CASE UNCHANGED serverState /\ toTarget' = Append(toTarget, Can)
    BY <1>2, <2>1, <2>2 DEF serverState
  <2>3. CASE srv' = "partial" /\ UNCHANGED toTarget
    BY <1>1, <2>1, <2>3, TokenAnswer
  <2>4. CASE ReadStarts
    <3>1. PICK p \in Nat, len \in Nat : startTransfer(p, len)
      BY <2>4 DEF ReadStarts
    <3>2. ~Has(toTarget, {"block", "EOT"}) /\ ~Has(toHost', {"ACK"})
      BY <1>1, <2>1, NakRead DEF TokenInv
    <3>3. blockAt(p, 0) \in TargetFrames /\ blockAt(p, 0).type = "block"
      BY BlockType
    <3>4. CASE srv' = "dead" /\ UNCHANGED toTarget
      BY <1>1, <3>4, TokenDead
    <3>5. CASE srv' = "eot" /\ toTarget' = Append(toTarget, Eot)
      BY <1>1, <3>2, <3>5, TokenSent, Bytes
    <3>6. CASE srv' = "block" /\ toTarget' = Append(toTarget, blockAt(p, 0))
      BY <1>1, <3>2, <3>3, <3>6, TokenSent
    <3>. QED
      BY <3>1, <3>4, <3>5, <3>6, Starts
  <2>. QED
    BY <1>4, <2>2, <2>3, <2>4, ReadKinds
<1>5. CASE Partial
  BY <1>1, <1>5, TokenAnswer DEF Partial, SendToTarget
<1>6. CASE BlockReply
  <2>1. ASSUME Head(toHost).type \in {"ACK", "NAK"}
        PROVE  ~Has(toTarget, {"block", "EOT"}) /\ ~Has(toHost', {"ACK"})
    BY <1>1, <2>1, NakRead
  <2>2. CASE die
    BY <1>1, <2>2, TokenDead DEF die
  <2>3. CASE Head(toHost).type \in {"ACK", "NAK"}
             /\ \E i \in {index, index + BlockSize} :
                    SendToTarget(blockAt(position, i)) /\ UNCHANGED srv
    <3>1. PICK i \in {index, index + BlockSize} :
              toTarget' = Append(toTarget, blockAt(position, i)) /\ UNCHANGED srv
      BY <2>3 DEF SendToTarget
    <3>2. i \in Nat
      BY LineAssumption DEF FrameInv
    <3>3. blockAt(position, i) \in TargetFrames /\ blockAt(position, i).type = "block"
      BY <3>2, BlockType DEF FrameInv
    <3>. QED
      BY <1>1, <1>6, <2>1, <2>3, <3>1, <3>3, TokenSent DEF BlockReply
  <2>4. CASE Head(toHost).type = "ACK" /\ srv' = "eot" /\ SendToTarget(Eot)
    BY <1>1, <2>1, <2>4, TokenSent, Bytes DEF SendToTarget
  <2>. QED
    BY <1>6, <2>2, <2>3, <2>4 DEF BlockReply
<1>7. CASE EotReply
  <2>1. ASSUME Head(toHost).type \in {"ACK", "NAK"}
        PROVE  ~Has(toTarget, {"block", "EOT"}) /\ ~Has(toHost', {"ACK", "NAK"})
    BY <1>1, <2>1, NakRead
  <2>2. CASE die
    BY <1>1, <2>2, TokenDead DEF die
  <2>3. CASE Head(toHost).type = "NAK" /\ SendToTarget(Eot) /\ UNCHANGED srv
    BY <1>1, <1>7, <2>1, <2>3, TokenSent, NakRead, Bytes DEF SendToTarget, EotReply
  <2>4. CASE Head(toHost).type = "ACK" /\ srv' = "command" /\ UNCHANGED toTarget
    <3>1. Has(toHost, {"ACK"})
      BY <1>1, <2>4, HostGot
    <3>2. Receiving => taken = <<>>
      BY <1>7, <3>1 DEF TokenInv, EotReply
    <3>3. ~Has(toTarget, {"EOT"})
      BY <2>1, <2>4, HasEither
    <3>. QED
      BY <1>1, <2>1, <2>4, <3>2, <3>3, NakRead DEF TokenInv, Receiving
  <2>. QED
    BY <1>7, <2>2, <2>3, <2>4 DEF EotReply
<1>8. CASE Gone
  BY <1>1, <1>8, TokenDead DEF Gone, serverState
<1>9. ~ReadLegacy /\ ~PacketReply
  BY <1>1, HostGot DEF ReadLegacy, command, HostFrames, PacketReply, TokenInv
<1>. QED
  BY <1>3, <1>4, <1>5, <1>6, <1>7, <1>8, <1>9 DEF Server, ServerStep

-----------------------------------------------------------------------------
(* Block numbers.                                                          *)

LEMMA WholeBlocks ==
    \A b \in Nat \ {0}, n \in Nat : n = b * (n \div b) + (n % b) /\ n \div b \in Nat
  OBVIOUS

LEMMA Remainder == \A b \in Nat \ {0}, n \in Nat : n % b \in 0 .. b - 1
  OBVIOUS

LEMMA MoreBlocks == \A b \in Nat \ {0}, j, k \in Nat : j * b < k * b => j < k
<1>. SUFFICES ASSUME NEW b \in Nat \ {0}, NEW j \in Nat, NEW k \in Nat, k <= j
              PROVE  k * b <= j * b
  OBVIOUS
<1>1. PICK d \in Nat : j = k + d
  <2>1. j - k \in Nat /\ j = k + (j - k)
    OBVIOUS
  <2>. QED
    BY <2>1
<1>2. d * b >= 0
  OBVIOUS
<1>3. j * b = k * b + d * b
  BY <1>1
<1>4. k * b \in Int /\ d * b \in Int
  OBVIOUS
<1>. QED
  BY <1>2, <1>3, <1>4

LEMMA NextBlock ==
    \A b \in Nat \ {0}, i \in Nat : i % b = 0 => (i + b) % b = 0
<1>. SUFFICES ASSUME NEW b \in Nat \ {0}, NEW i \in Nat, i % b = 0
              PROVE  (i + b) % b = 0
  OBVIOUS
<1>. DEFINE p == i \div b
            q == (i + b) \div b
            r == (i + b) % b
<1>1. i = p * b /\ p \in Nat
  BY WholeBlocks
<1>a. i + b \in Nat
  OBVIOUS
<1>b. i + b = b * q + r /\ q \in Nat
  BY <1>a, WholeBlocks
<1>c. r \in 0 .. b - 1
  BY <1>a, Remainder
<1>. HIDE DEF p, q, r
<1>2. i + b = q * b + r /\ q \in Nat /\ r \in 0 .. b - 1
  BY <1>b, <1>c
<1>3. r = (p + 1 - q) * b
  BY <1>1, <1>2
<1>4. p + 1 - q \in Int
  BY <1>1, <1>2
<1>. DEFINE d == p + 1 - q
<1>5. d \in Int /\ r = d * b
  BY <1>3, <1>4
<1>. HIDE DEF d
<1>6. d >= 1 => d * b >= b
  BY <1>5
<1>7. d <= -1 => d * b <= 0 - b
  BY <1>5
<1>8. d = 0
  BY <1>2, <1>5, <1>6, <1>7
<1>9. r = 0
  BY <1>5, <1>8
<1>. QED
  BY <1>9 DEF r

\* Block numbers below BlockMod do not wrap.
LEMMA BlockNumber ==
    ASSUME NEW i \in Nat, NEW len \in Nat, i % BlockSize = 0, len % BlockSize = 0,
           i < len, len < BlockMod * BlockSize
    PROVE  /\ (i \div BlockSize + 1) % BlockMod \in 1 .. BlockMod - 1
           /\ i = (((i \div BlockSize + 1) % BlockMod) - 1) * BlockSize
<1>. DEFINE q == i \div BlockSize
            m == len \div BlockSize
<1>0. BlockSize \in Nat \ {0} /\ BlockMod \in Nat \ {0, 1}
  BY LineAssumption
<1>1. q \in Nat /\ i = q * BlockSize
  BY <1>0, WholeBlocks
<1>2. m \in Nat /\ len = m * BlockSize
  BY <1>0, WholeBlocks
<1>. HIDE DEF q, m
<1>3. q < m
  BY <1>0, <1>1, <1>2, MoreBlocks
<1>4. m < BlockMod
  BY <1>0, <1>2, MoreBlocks
<1>5. (q + 1) % BlockMod = q + 1
  BY <1>0, <1>1, <1>2, <1>3, <1>4
<1>6. q + 1 \in 1 .. BlockMod - 1
  BY <1>0, <1>1, <1>2, <1>3, <1>4
<1>7. (q + 1) - 1 = q
  BY <1>1
<1>. QED
  BY <1>1, <1>5, <1>6, <1>7 DEF q

-----------------------------------------------------------------------------
(* A call takes the blocks of the pending payload, one after the other.    *)

TransferInv ==
    /\ Blocks(toTarget, file, position)
    /\ pendLen < BlockMod * BlockSize
    /\ srv = "block" => pendLen % BlockSize = 0 /\ index % BlockSize = 0 /\ index < pendLen
    /\ Receiving => /\ cc \in Counts /\ r4 = cc - Len(taken) * BlockSize /\ r4 >= 0
                    /\ expected = (Len(taken) + 1) % BlockMod
    /\ InOrder

\* No read asks for BlockMod blocks, so that no two blocks of a payload have
\* the same number.
ShortReads == \A n \in Counts : n < BlockMod * BlockSize

\* The driver accepts a block, or it counts nothing as received.
Accepts ==
    /\ drv = "response" /\ drv' = "response" /\ TargetReads
    /\ Head(toTarget).type = "block" /\ Head(toTarget).num = expected /\ Head(toTarget).ok
    /\ r4 >= BlockSize /\ r4' = r4 - BlockSize
    /\ expected' = (expected + 1) % BlockMod
    /\ taken' = Append(taken, [file |-> Head(toTarget).file, from |-> Head(toTarget).from])
    /\ store(Head(toTarget), BlockSize)
    /\ UNCHANGED <<cc, result>>

LEMMA AcceptsOrNot ==
    ASSUME Driver, Receiving => r4 \in Int
    PROVE  \/ Accepts
           \/ UNCHANGED <<cc, r4, expected, taken>> /\ (Receiving' => Receiving)
<1>1. CASE Receive
  <2>1. CASE SimpleReply
    BY <2>1 DEF SimpleReply, Driver, accept, returns, Receiving
  <2>2. CASE ResponseEot \/ ResponseCan
    BY <2>2 DEF ResponseEot, ResponseCan, response, Driver, accept, returns, Receiving
  <2>3. CASE ResponseWrong
    BY <2>3 DEF ResponseWrong, response, Driver, accept, Receiving
  <2>4. CASE ResponseDuplicate
    BY <2>4 DEF ResponseDuplicate, response, Driver, accept, Receiving
  <2>5. CASE ResponseNew
    <3>1. r4 \in Int /\ BlockSize \in Nat \ {0}
      BY <2>5, LineAssumption DEF ResponseNew, response, Receiving
    <3>2. CASE r4' = r4
      BY <2>5, <3>1, <3>2 DEF ResponseNew, response, Driver, accept, Receiving
    <3>3. CASE r4' # r4
      BY <2>5, <3>3 DEF ResponseNew, response, blockIs, Driver, accept, Accepts
    <3>. QED
      BY <3>2, <3>3
  <2>6. CASE Drain
    BY <2>6 DEF Drain, Driver, accept, driverState, Receiving
  <2>. QED
    BY <1>1, <2>1, <2>2, <2>3, <2>4, <2>5, <2>6 DEF Receive
<1>2. CASE Timeout
  BY <1>2 DEF Timeout, SimpleTimeout, ResponseTimeout, DrainTimeout, returns, Driver, accept,
              Receiving
<1>. QED
  BY <1>1, <1>2 DEF Driver, TimedOut

LEMMA TransferCaller == ASSUME FrameInv, TransferInv, Caller PROVE TransferInv'
<1>1. UNCHANGED <<toTarget, file, position, pendLen, srv, index>>
  BY CallerLine DEF serverState
<1>2. CASE drv' = "response" /\ taken' = <<>> /\ cc' \in Counts /\ r4' = cc' /\ expected' = 1
  <2>1. cc' \in Nat /\ Len(taken') = 0 /\ 1 % BlockMod = 1 /\ BlockSize \in Nat
    BY <1>2, LineAssumption, CallerAssumption
  <2>2. r4' = cc' - Len(taken') * BlockSize /\ r4' >= 0 /\ expected' = (Len(taken') + 1) % BlockMod
    <3>. DEFINE k == Len(taken') * BlockSize
                x == (Len(taken') + 1) % BlockMod
    <3>1. k = 0 /\ x = 1
      BY <2>1
    <3>2. PICK c \in Nat : cc' = c /\ r4' = c /\ expected' = 1
      BY <1>2, <2>1
    <3>. HIDE DEF k, x
    <3>4. c = c - k /\ c >= 0
      BY <3>1
    <3>3. r4' = cc' - k /\ r4' >= 0 /\ expected' = x
      BY <3>1, <3>2, <3>4
    <3>. QED
      BY <3>3 DEF k, x
  <2>3. InOrder'
    BY <2>1 DEF InOrder
  <2>. QED
    BY <1>1, <1>2, <2>2, <2>3 DEF TransferInv
<1>3. CASE drv' \in {"idle", "open", "ioctl"}
  BY <1>1, <1>3 DEF TransferInv, InOrder, Receiving
<1>. QED
  BY <1>2, <1>3, CallerLine

LEMMA TransferDriver ==
    ASSUME FrameInv, TransferInv, Driver, ShortReads
    PROVE  TransferInv'
<1>0. UNCHANGED <<file, position, pendLen, srv, index>>
  BY DEF Driver, serverState
<1>1. Blocks(toTarget', file', position')
  <2>1. toTarget \in Seq(TargetFrames) /\ Blocks(toTarget, file, position)
    BY DEF FrameInv, TransferInv
  <2>2. CASE toTarget' = toTarget
    BY <1>0, <2>1, <2>2
  <2>3. CASE TargetReads
    BY <1>0, <2>1, <2>3, BlocksTail DEF TargetReads
  <2>. QED
    BY <2>2, <2>3, DriverLine
<1>2. Receiving => r4 \in Int /\ Len(taken) \in Nat /\ cc \in Nat
  <2>1. Len(taken) \in Nat /\ BlockSize \in Nat
    BY LenProperties, LineAssumption DEF FrameInv
  <2>2. Len(taken) * BlockSize \in Nat
    BY <2>1
  <2>3. cc \in Counts => cc \in Nat
    BY CallerAssumption
  <2>. QED
    BY <2>1, <2>2, <2>3 DEF TransferInv
<1>3. CASE UNCHANGED <<cc, r4, expected, taken>> /\ (Receiving' => Receiving)
  <2>1. InOrder'
    BY <1>0, <1>3 DEF TransferInv, InOrder, Receiving
  <2>. QED
    BY <1>0, <1>1, <1>3, <2>1 DEF TransferInv
<1>4. CASE Accepts
  <2>. DEFINE n == Len(taken)
              h == Head(toTarget)
              e == [file |-> h.file, from |-> h.from]
  <2>1. /\ n \in Nat /\ cc \in Nat /\ cc \in Counts /\ r4 = cc - n * BlockSize
        /\ expected = (n + 1) % BlockMod
        /\ BlockSize \in Nat \ {0} /\ BlockMod \in Nat \ {0, 1} /\ Receiving
    BY <1>2, <1>4, LineAssumption DEF Accepts, Receiving, TransferInv
  <2>2. /\ h.type = "block" /\ h.num = expected /\ r4 >= BlockSize /\ r4' = r4 - BlockSize
        /\ expected' = (expected + 1) % BlockMod /\ cc' = cc /\ drv' = "response"
        /\ taken' = Append(taken, e)
    BY <1>4 DEF Accepts
  <2>3. h.num \in 1 .. BlockMod - 1 /\ h.file = file /\ h.from = position + (h.num - 1) * BlockSize
    <3>1. /\ toTarget \in Seq(TargetFrames) /\ Blocks(toTarget, file, position)
          /\ toTarget # <<>>
      BY <1>4 DEF FrameInv, TransferInv, Accepts, TargetReads
    <3>. QED
      BY <2>2, <3>1, BlocksTail
  <2>4. e \in [file : Int, from : Int]
    <3>1. h \in TargetFrames
      BY <1>4, TargetGot DEF Accepts
    <3>. QED
      BY <2>2, <3>1 DEF TargetFrames
  <2>5. /\ Len(taken') = n + 1 /\ taken'[n + 1] = e
        /\ \A i \in 1 .. n : taken'[i] = taken[i]
    <3>. DEFINE S == [file : Int, from : Int]
    <3>1. taken \in Seq(S) /\ e \in S
      BY <2>4 DEF FrameInv
    <3>. HIDE DEF S, e
    <3>. QED
      BY <2>2, <3>1, AppendProperties
  <2>6. n + 1 < BlockMod
    <3>1. cc < BlockMod * BlockSize
      BY <2>1 DEF ShortReads
    <3>2. (n + 1) * BlockSize = n * BlockSize + BlockSize /\ n * BlockSize \in Nat
      BY <2>1
    <3>3. BlockMod * BlockSize \in Nat /\ (n + 1) * BlockSize \in Nat
      BY <2>1
    <3>. HIDE DEF n, h
    <3>4. (n + 1) * BlockSize < BlockMod * BlockSize
      BY <2>1, <2>2, <3>1, <3>2, <3>3, SMTT(60)
    <3>5. n + 1 \in Nat /\ BlockMod \in Nat
      BY <2>1
    <3>. QED
      BY <2>1, <3>4, <3>5, MoreBlocks
  <2>7. expected = n + 1 /\ expected' = ((n + 1) + 1) % BlockMod
    <3>. HIDE DEF n, h
    <3>1. (n + 1) % BlockMod = n + 1
      BY <2>1, <2>6
    <3>. QED
      BY <2>1, <2>2, <3>1
  <2>8. e = [file |-> file, from |-> position + ((n + 1) - 1) * BlockSize]
    BY <2>1, <2>2, <2>3, <2>7
  <2>. HIDE DEF e, h
  <2>9. InOrder'
    <3>1. \A i \in 1 .. n : taken[i] = [file |-> file, from |-> position + (i - 1) * BlockSize]
      BY <2>1 DEF TransferInv, InOrder, Receiving
    <3>2. ASSUME NEW i \in 1 .. n + 1
          PROVE  taken'[i] = [file |-> file, from |-> position + (i - 1) * BlockSize]
      <4>1. CASE i \in 1 .. n
        BY <2>5, <3>1, <4>1
      <4>2. CASE i = n + 1
        BY <2>5, <2>8, <4>2
      <4>. QED
        BY <2>1, <4>1, <4>2, SMTT(60)
    <3>. QED
      BY <1>0, <2>5, <3>2 DEF InOrder
  <2>10. r4' = cc' - Len(taken') * BlockSize /\ r4' >= 0
    <3>1. (n + 1) * BlockSize = n * BlockSize + BlockSize /\ n * BlockSize \in Nat
      BY <2>1
    <3>. HIDE DEF n
    <3>. QED
      BY <2>1, <2>2, <2>5, <3>1, SMTT(60)
  <2>. QED
    BY <1>0, <1>1, <2>1, <2>2, <2>5, <2>7, <2>9, <2>10 DEF TransferInv
<1>. QED
  BY <1>2, <1>3, <1>4, AcceptsOrNot

\* The server sends no block.
LEMMA TransferQuiet ==
    ASSUME FrameInv, TransferInv, UNCHANGED <<driverState, taken>>, srv' # "block",
           pendLen' < BlockMod * BlockSize,
           toTarget' = toTarget \/ \E f \in {Ack, Can, Eot} : toTarget' = Append(toTarget, f),
           \/ UNCHANGED <<file, position>>
           \/ ~Has(toTarget, {"block"}) /\ (Receiving => taken = <<>>)
    PROVE  TransferInv'
<1>1. Blocks(toTarget', file', position')
  <2>1. PICK g, p : g = file' /\ p = position'
    OBVIOUS
  <2>2. Blocks(toTarget, g, p)
    <3>1. CASE UNCHANGED <<file, position>>
      BY <2>1, <3>1 DEF TransferInv
    <3>2. CASE ~Has(toTarget, {"block"})
      BY <3>2, BlocksNone
    <3>. QED
      BY <3>1, <3>2
  <2>3. CASE toTarget' = toTarget
    BY <2>1, <2>2, <2>3
  <2>4. CASE \E f \in {Ack, Can, Eot} : toTarget' = Append(toTarget, f)
    <3>1. PICK f \in TargetFrames : f.type # "block" /\ toTarget' = Append(toTarget, f)
      BY <2>4, Bytes
    <3>2. toTarget \in Seq(TargetFrames)
      BY DEF FrameInv
    <3>3. Blocks(Append(toTarget, f), g, p)
      BY <2>2, <3>1, <3>2, BlocksAppend
    <3>. QED
      BY <2>1, <3>1, <3>3
  <2>. QED
    BY <2>3, <2>4
<1>2. InOrder'
  <2>1. CASE UNCHANGED <<file, position>>
    BY <2>1 DEF TransferInv, InOrder, driverState
  <2>2. CASE Receiving => taken = <<>>
    BY <2>2, SMTT(60) DEF InOrder, Receiving, driverState
  <2>. QED
    BY <2>1, <2>2
<1>. QED
  BY <1>1, <1>2 DEF TransferInv, Receiving, driverState

\* The server sends the block at byte i of its payload.
LEMMA TransferBlock ==
    ASSUME FrameInv, TransferInv, UNCHANGED <<driverState, taken, file>>,
           NEW p \in Nat, NEW len \in Nat, NEW i \in Nat,
           position' = p, pendLen' = len, index' = i,
           toTarget' = Append(toTarget, blockAt(p, i)),
           len < BlockMod * BlockSize, len % BlockSize = 0, i % BlockSize = 0, i < len,
           \/ UNCHANGED position
           \/ ~Has(toTarget, {"block"}) /\ (Receiving => taken = <<>>)
    PROVE  TransferInv'
<1>1. Blocks(toTarget, file, p)
  <2>1. CASE UNCHANGED position
    BY <2>1 DEF TransferInv
  <2>2. CASE ~Has(toTarget, {"block"})
    BY <2>2, BlocksNone
  <2>. QED
    BY <2>1, <2>2
<1>2. PICK f \in TargetFrames : /\ f = blockAt(p, i)
                                /\ f.num \in 1 .. BlockMod - 1 /\ f.file = file
                                /\ f.from = p + (f.num - 1) * BlockSize
  <2>1. /\ (i \div BlockSize + 1) % BlockMod \in 1 .. BlockMod - 1
        /\ i = (((i \div BlockSize + 1) % BlockMod) - 1) * BlockSize
    BY BlockNumber
  <2>. DEFINE n == (i \div BlockSize + 1) % BlockMod
  <2>2. n \in 1 .. BlockMod - 1 /\ i = (n - 1) * BlockSize
    BY <2>1
  <2>3. /\ blockAt(p, i) \in TargetFrames /\ blockAt(p, i).num = n
        /\ blockAt(p, i).file = file /\ blockAt(p, i).from = p + i
    BY BlockType
  <2>. HIDE DEF n
  <2>. QED
    BY <2>2, <2>3
<1>3. Blocks(toTarget', file', position')
  <2>1. toTarget \in Seq(TargetFrames)
    BY DEF FrameInv
  <2>2. Blocks(Append(toTarget, f), file, p)
    BY <1>1, <1>2, <2>1, BlocksAppend
  <2>. QED
    BY <1>2, <2>2
<1>4. InOrder'
  <2>1. CASE UNCHANGED position
    BY <2>1 DEF TransferInv, InOrder, driverState
  <2>2. CASE Receiving => taken = <<>>
    BY <2>2, SMTT(60) DEF InOrder, Receiving, driverState
  <2>. QED
    BY <2>1, <2>2
<1>. QED
  BY <1>3, <1>4 DEF TransferInv, Receiving, driverState

LEMMA TransferServer ==
    ASSUME FrameInv, TokenInv, TransferInv, Server, ShortReads
    PROVE  TransferInv'
<1>1. UNCHANGED <<driverState, taken>>
  BY DEF Server
<1>2. BlockSize \in Nat \ {0} /\ 0 < BlockMod * BlockSize /\ 0 % BlockSize = 0
  BY LineAssumption
<1>3. pendLen < BlockMod * BlockSize
  BY DEF TransferInv
<1>4. srv = "command" => ~Has(toTarget, {"block"}) /\ (Receiving => taken = <<>>)
  BY HasEither DEF TokenInv
<1>5. CASE Open \/ Space \/ Close \/ Ignore
  <2>1. /\ srv = "command" /\ srv' = "command"
        /\ pendLen' = 0 \/ pendLen' = pendLen
        /\ toTarget' = toTarget \/ \E f \in {Ack, Can, Eot} : toTarget' = Append(toTarget, f)
    BY <1>5 DEF Open, Space, Close, Ignore, command, Refuse, SendToTarget, serverState, forgetPending
  <2>. QED
    BY <1>1, <1>2, <1>3, <1>4, <2>1, TransferQuiet
<1>6. CASE Read
  <2>1. srv = "command"
    BY <1>6 DEF Read, command
  <2>2. CASE UNCHANGED serverState /\ toTarget' = Append(toTarget, Can)
    BY <1>1, <1>3, <2>1, <2>2, TransferQuiet DEF serverState
  <2>3. CASE srv' = "partial" /\ UNCHANGED <<toTarget, file, position, pendLen>>
    BY <1>1, <1>3, <2>1, <2>3, TransferQuiet
  <2>4. CASE ReadStarts
    <3>1. PICK p \in Nat, len \in Nat :
            position' = p /\ pendLen' = len /\ startTransfer(p, len) /\ UNCHANGED file
      BY <2>4 DEF ReadStarts
    <3>2. len < BlockMod * BlockSize
      <4>1. CASE pendLen' = pendLen
        BY <1>3, <3>1, <4>1
      <4>2. CASE \E n \in Counts : pendLen' <= n
        <5>1. PICK n \in Counts : len <= n
          BY <3>1, <4>2
        <5>2. n \in Nat /\ n < BlockMod * BlockSize /\ BlockMod * BlockSize \in Nat
          BY CallerAssumption, LineAssumption DEF ShortReads
        <5>. QED
          BY <5>1, <5>2
      <4>. QED
        BY <2>4, <4>1, <4>2 DEF ReadStarts
    <3>3. CASE srv' = "dead" /\ UNCHANGED toTarget
      BY <1>1, <1>4, <2>1, <3>1, <3>2, <3>3, TransferQuiet
    <3>4. CASE srv' = "eot" /\ toTarget' = Append(toTarget, Eot)
      BY <1>1, <1>4, <2>1, <3>1, <3>2, <3>4, TransferQuiet
    <3>5. CASE /\ srv' = "block" /\ toTarget' = Append(toTarget, blockAt(p, 0)) /\ index' = 0
               /\ len > 0 /\ len % BlockSize = 0
      BY <1>1, <1>2, <1>4, <2>1, <3>1, <3>2, <3>5, TransferBlock
    <3>. QED
      BY <3>1, <3>3, <3>4, <3>5, Starts
  <2>. QED
    BY <1>6, <2>2, <2>3, <2>4, ReadKinds
<1>7. CASE Partial
  BY <1>1, <1>3, <1>7, TransferQuiet DEF Partial, SendToTarget
<1>8. CASE BlockReply
  <2>1. /\ UNCHANGED <<file, position, pendLen>> /\ srv = "block"
        /\ position \in Nat /\ pendLen \in Nat /\ index \in Nat
        /\ pendLen % BlockSize = 0 /\ index % BlockSize = 0 /\ index < pendLen
    BY <1>8 DEF BlockReply, TransferInv, FrameInv
  <2>2. CASE srv' = "eot" /\ SendToTarget(Eot)
    BY <1>1, <1>3, <2>1, <2>2, TransferQuiet DEF SendToTarget
  <2>3. CASE die
    BY <1>1, <1>3, <2>1, <2>3, TransferQuiet DEF die
  <2>4. CASE index' = index /\ SendToTarget(blockAt(position, index))
    BY <1>1, <1>3, <2>1, <2>4, TransferBlock DEF SendToTarget
  <2>5. CASE /\ index' = index + BlockSize /\ ~lastBlock
             /\ SendToTarget(blockAt(position, index + BlockSize))
    <3>1. /\ index + BlockSize \in Nat /\ (index + BlockSize) % BlockSize = 0
          /\ index + BlockSize < pendLen
      <4>1. index + BlockSize \in Nat /\ index + BlockSize < pendLen
        BY <1>2, <2>1, <2>5 DEF lastBlock
      <4>2. (index + BlockSize) % BlockSize = 0
        BY <1>2, <2>1, NextBlock
      <4>. QED
        BY <4>1, <4>2
    <3>. QED
      <4>1. PICK i \in Nat : i = index + BlockSize
        BY <3>1
      <4>. QED
        BY <1>1, <1>3, <2>1, <2>5, <3>1, <4>1, TransferBlock DEF SendToTarget
  <2>. QED
    BY <1>8, <2>2, <2>3, <2>4, <2>5 DEF BlockReply
<1>9. CASE EotReply
  <2>1. /\ UNCHANGED <<file, position, pendLen>> /\ srv' # "block"
        /\ toTarget' = toTarget \/ toTarget' = Append(toTarget, Eot)
    BY <1>9 DEF EotReply, die, SendToTarget
  <2>. QED
    BY <1>1, <1>3, <2>1, TransferQuiet
<1>10. CASE Gone
  BY <1>1, <1>3, <1>10, TransferQuiet DEF Gone, serverState
<1>11. ~ReadLegacy /\ ~PacketReply
  <2>1. CASE HostReads
    BY <2>1, HostGot DEF ReadLegacy, command, HostFrames, PacketReply, TokenInv
  <2>2. CASE ~HostReads
    BY <2>2 DEF ReadLegacy, command, PacketReply
  <2>. QED
    BY <2>1, <2>2
<1>. QED
  BY <1>5, <1>6, <1>7, <1>8, <1>9, <1>10, <1>11 DEF Server, ServerStep

LEMMA TransferLine == ASSUME FrameInv, TransferInv, Line PROVE TransferInv'
<1>1. UNCHANGED <<srv, file, position, index, pendLen, taken, drv, cc, r4, expected>>
  BY DEF Line, serverState, driverState
<1>2. Damaged(toTarget', toTarget)
  BY FaultStep DEF FrameInv, Line
<1>3. Blocks(toTarget', file, position)
  BY <1>2, BlocksDamaged DEF TransferInv
<1>. QED
  BY <1>1, <1>3 DEF TransferInv, InOrder, Receiving

TapeInv == FrameInv /\ TokenInv /\ TransferInv

LEMMA TapeInit == Init => TapeInv
<1>. SUFFICES ASSUME Init PROVE TapeInv
  OBVIOUS
<1>1. /\ toHost = <<>> /\ toTarget = <<>> /\ taken = <<>> /\ drv = "idle" /\ srv = "command"
      /\ file = None /\ position = 0 /\ index = 0 /\ pendLen = 0 /\ sequence = None /\ iOffset = 0
  BY DEF Init, LineInit, ServerInit, DriverInit
<1>2. FrameInv
  BY <1>1, EmptySeq DEF FrameInv
<1>3. TokenInv
  BY <1>1, NoFrames DEF TokenInv, Receiving
<1>4. TransferInv
  <2>1. Blocks(toTarget, file, position)
    BY <1>1, NoFrames, BlocksNone
  <2>2. 0 < BlockMod * BlockSize
    BY LineAssumption
  <2>. QED
    BY <1>1, <2>1, <2>2 DEF TransferInv, InOrder, Receiving
<1>. QED
  BY <1>2, <1>3, <1>4 DEF TapeInv

LEMMA TapeStep ==
    ASSUME "late" \notin FaultKinds, ShortReads, TapeInv, [Next]_vars
    PROVE  TapeInv'
<1>0. FrameInv /\ TokenInv /\ TransferInv
  BY DEF TapeInv
<1>1. CASE Caller
  BY <1>0, <1>1, FrameCaller, TokenCaller, TransferCaller DEF TapeInv
<1>2. CASE Driver
  BY <1>0, <1>2, FrameDriver, TokenDriver, TransferDriver DEF TapeInv
<1>3. CASE Server
  <2>1. srv # "packet"
    BY <1>0 DEF TokenInv
  <2>. QED
    BY <1>0, <1>3, <2>1, FrameServer, TokenServer, TransferServer DEF TapeInv
<1>4. CASE Line
  BY <1>0, <1>4, TokenLine, TransferLine DEF TapeInv
<1>5. CASE UNCHANGED vars
  <2>1. FrameInv'
    BY <1>0, <1>5 DEF TapeInv, FrameInv, vars, lineVars, serverState, callerVars, history
  <2>2. TokenInv'
    BY <1>0, <1>5 DEF TapeInv, TokenInv, Receiving, vars, lineVars, serverState, driverState,
                      history
  <2>3. TransferInv'
    BY <1>0, <1>5 DEF TapeInv, TransferInv, InOrder, Receiving, Blocks, vars, lineVars,
                      serverState, driverState, history
  <2>. QED
    BY <2>1, <2>2, <2>3 DEF TapeInv
<1>. QED
  BY <1>1, <1>2, <1>3, <1>4, <1>5 DEF Next

\* However many frames the line loses or damages, the blocks a strategy call
\* accepts are consecutive blocks of the selected file from the server's
\* pending payload on, whatever the files, the counts and the number of calls.
\* A time-out must mean that something was lost, and a read ask for less than
\* BlockMod (256) blocks: with several NAKs under way, or block numbers that
\* come round, a block of an abandoned call can be taken for one of this call.
THEOREM InOrderHolds ==
    ASSUME "late" \notin FaultKinds, ShortReads
    PROVE  Spec => []InOrder
<1>1. TapeInv => InOrder
  BY DEF TapeInv, TransferInv
<1>2. TapeInv /\ [Next]_vars => TapeInv'
  BY TapeStep
<1>. QED
  BY <1>1, <1>2, TapeInit, PTL DEF Spec
=============================================================================
