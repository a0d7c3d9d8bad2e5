------------------------ MODULE SerialTapeCommitProofs ------------------------
(***************************************************************************)
(* What a read of the serial tape leaves in the caller's buffer, and that  *)
(* the host only moves its file on by bytes a read has returned.           *)
(***************************************************************************)
EXTENDS SerialTapeProofs

-----------------------------------------------------------------------------
(* The buffer of a read, under all faults, late answers included.          *)

\* The place of byte a in the blocks
LEMMA ByteOfBlock ==
    ASSUME NEW b \in Nat \ {0}, NEW n \in Nat, NEW a \in Nat
    PROVE  /\ a < n * b => a \div b \in Nat /\ a \div b < n
           /\ n * b <= a /\ a < n * b + b => a \div b = n /\ a % b = a - n * b
<1>. DEFINE q == a \div b
            r == a % b
<1>1. a = b * q + r /\ q \in Nat
  BY WholeBlocks
<1>2. r \in 0 .. b - 1
  BY Remainder
<1>. HIDE DEF q, r
<1>3. /\ a = q * b + r /\ q * b \in Nat /\ n * b \in Nat
      /\ (n + 1) * b = n * b + b /\ (q + 1) * b = q * b + b
  BY <1>1, <1>2
<1>4. a < n * b => q < n
  <2>1. a < n * b => q * b < n * b
    BY <1>2, <1>3
  <2>. QED
    BY <1>1, <2>1, MoreBlocks
<1>5. ASSUME n * b <= a, a < n * b + b PROVE q = n /\ r = a - n * b
  <2>1. q * b < (n + 1) * b
    BY <1>2, <1>3, <1>5
  <2>2. n * b < (q + 1) * b
    BY <1>2, <1>3, <1>5
  <2>3. q < n + 1 /\ n < q + 1
    BY <1>1, <2>1, <2>2, MoreBlocks
  <2>4. q = n
    BY <1>1, <2>3
  <2>. QED
    BY <1>2, <1>3, <2>4
<1>. QED
  BY <1>1, <1>4, <1>5 DEF q, r

\* Every block on the line still has its payload.
Intact(s) == \A i \in 1 .. Len(s) : s[i].type = "block" => s[i].ok = TRUE

\* The buffer holds the blocks taken so far.
Stored ==
    \A a \in 0 .. (Len(taken) * BlockSize - 1) :
        LET b == taken[a \div BlockSize + 1] IN
        mem[a] = <<b.file, b.from + (a % BlockSize)>>

MemInv ==
    /\ ~spoiled => Intact(toTarget)
    /\ Receiving /\ ~spoiled =>
          /\ cc \in Counts /\ r4 = cc - Len(taken) * BlockSize /\ r4 >= 0
          /\ r5 = Len(taken) * BlockSize
          /\ Stored
    /\ BufferExact

\* The program's buffer lies in the memory that is modelled.
BufferFits == \A n \in Counts : n <= MemTop + 1

LEMMA IntactAppend ==
    ASSUME NEW S, NEW s \in Seq(S), NEW f \in S, Intact(s), f.type = "block" => f.ok = TRUE
    PROVE  Intact(Append(s, f))
<1>. DEFINE t == Append(s, f)
            n == Len(s)
<1>1. n \in Nat /\ Len(t) = n + 1 /\ t[n + 1] = f /\ \A i \in 1 .. n : t[i] = s[i]
  BY AppendProperties, LenProperties
<1>. HIDE DEF t, n
<1>2. ASSUME NEW i \in 1 .. n + 1, t[i].type = "block" PROVE t[i].ok = TRUE
  <2>1. CASE i = n + 1
    BY <1>1, <1>2, <2>1
  <2>2. CASE i \in 1 .. n
    BY <1>1, <1>2, <2>2 DEF Intact, n
  <2>3. i = n + 1 \/ i \in 1 .. n
    BY <1>1
  <2>. QED
    BY <2>1, <2>2, <2>3
<1>. QED
  BY <1>1, <1>2 DEF Intact, t

LEMMA IntactTail ==
    ASSUME NEW S, NEW s \in Seq(S), s # <<>>, Intact(s)
    PROVE  Intact(Tail(s)) /\ (Head(s).type = "block" => Head(s).ok = TRUE)
<1>. DEFINE t == Tail(s)
            n == Len(s)
<1>1. /\ n \in Nat \ {0} /\ Len(t) = n - 1 /\ Head(s) = s[1]
      /\ \A i \in 1 .. n - 1 : t[i] = s[i + 1]
  BY HeadTailProperties, LenProperties
<1>. HIDE DEF t
<1>2. ASSUME NEW i \in 1 .. n - 1, t[i].type = "block" PROVE t[i].ok = TRUE
  <2>1. i + 1 \in 1 .. n /\ t[i] = s[i + 1]
    BY <1>1
  <2>. QED
    BY <1>2, <2>1 DEF Intact
<1>3. 1 \in 1 .. n
  BY <1>1
<1>. QED
  BY <1>1, <1>2, <1>3 DEF Intact, t

\* The server sends blocks with their payload.
LEMMA ServerSends ==
    ASSUME FrameInv, srv # "packet", Server
    PROVE  /\ srv' # "packet"
           /\ \/ toTarget' = toTarget
              \/ \E f \in TargetFrames : /\ toTarget' = Append(toTarget, f)
                                         /\ f.type = "block" => f.ok = TRUE
<1>1. ASSUME NEW p \in Nat, NEW i \in Nat
      PROVE  blockAt(p, i) \in TargetFrames /\ blockAt(p, i).ok = TRUE
  BY BlockType DEF blockAt, BlockFrame
<1>2. \A f \in {Ack, Can, Eot} : f \in TargetFrames /\ f.type # "block"
  BY Bytes
<1>3. CASE Open \/ Space \/ Close \/ Ignore \/ Gone
  BY <1>2, <1>3 DEF Open, Space, Close, Ignore, Gone, command, Refuse, SendToTarget, serverState
<1>4. CASE Read
  <2>1. CASE ReadStarts
    <3>1. PICK p \in Nat, len \in Nat : startTransfer(p, len)
      BY <2>1 DEF ReadStarts
    <3>. QED
      BY <1>1, <1>2, <3>1, Starts
  <2>2. CASE ~ReadStarts
    BY <1>2, <1>4, <2>2, ReadKinds DEF serverState
  <2>. QED
    BY <2>1, <2>2
<1>5. CASE Partial
  BY <1>2, <1>5 DEF Partial, SendToTarget
<1>6. CASE BlockReply
  <2>1. position \in Nat /\ index \in Nat /\ index + BlockSize \in Nat
    BY LineAssumption DEF FrameInv
  <2>2. /\ srv' # "packet"
        /\ \/ toTarget' = toTarget
           \/ toTarget' = Append(toTarget, Eot)
           \/ toTarget' = Append(toTarget, blockAt(position, index))
           \/ toTarget' = Append(toTarget, blockAt(position, index + BlockSize))
    BY <1>6 DEF BlockReply, SendToTarget, die
  <2>. QED
    BY <1>1, <1>2, <2>1, <2>2
<1>7. CASE EotReply
  BY <1>2, <1>7 DEF EotReply, SendToTarget, die
<1>8. ~ReadLegacy /\ ~PacketReply
  <2>1. CASE HostReads
    BY <2>1, HostGot DEF ReadLegacy, command, HostFrames, PacketReply
  <2>2. CASE ~HostReads
    BY <2>2 DEF ReadLegacy, command, PacketReply
  <2>. QED
    BY <2>1, <2>2
<1>. QED
  BY <1>3, <1>4, <1>5, <1>6, <1>7, <1>8 DEF Server, ServerStep

LEMMA MemServer ==
    ASSUME FrameInv, MemInv, srv # "packet", Server
    PROVE  MemInv'
<1>1. UNCHANGED <<drv, cc, r4, r5, mem, result, taken, spoiled>>
  BY DEF Server, driverState
<1>2. Intact(toTarget) => Intact(toTarget')
  <2>1. toTarget \in Seq(TargetFrames)
    BY DEF FrameInv
  <2>. QED
    BY <2>1, ServerSends, IntactAppend
<1>. QED
  BY <1>1, <1>2 DEF MemInv, BufferExact, bufferIsRight, readReturned, Stored, Receiving

LEMMA MemLine == ASSUME FrameInv, MemInv, Line PROVE MemInv'
<1>1. UNCHANGED <<drv, cc, r4, r5, mem, result, taken>>
  BY DEF Line, driverState
<1>2. ASSUME ~spoiled' PROVE ~spoiled /\ Intact(toTarget')
  <2>1. ~spoiled /\ \A i \in 1..Len(toTarget') :
                        ~(toTarget'[i].type = "block" /\ ~toTarget'[i].ok)
    BY <1>2 DEF Line
  <2>2. toTarget' \in Seq(TargetFrames)
    BY FaultStep DEF FrameInv, Line
  <2>3. ASSUME NEW i \in 1 .. Len(toTarget'), toTarget'[i].type = "block"
        PROVE  toTarget'[i].ok = TRUE
    <3>1. toTarget'[i] \in TargetFrames
      BY <2>2, ElementOfSeq
    <3>2. toTarget'[i].ok \in BOOLEAN
      BY <2>3, <3>1 DEF TargetFrames
    <3>. QED
      BY <2>1, <2>3, <3>2
  <2>. QED
    BY <2>1, <2>3 DEF Intact
<1>3. CASE ~spoiled'
  BY <1>1, <1>2, <1>3 DEF MemInv, BufferExact, bufferIsRight, readReturned, Stored, Receiving
<1>4. CASE spoiled'
  BY <1>4 DEF MemInv, BufferExact
<1>. QED
  BY <1>3, <1>4

LEMMA MemCaller == ASSUME FrameInv, MemInv, Caller PROVE MemInv'
<1>1. UNCHANGED <<toTarget, spoiled>> /\ drv = "idle"
  BY CallerLine
<1>2. CASE /\ drv' = "response" /\ taken' = <<>> /\ cc' \in Counts /\ r4' = cc' /\ r5' = 0
  <2>1. PICK c \in Nat, b \in Nat : cc' = c /\ r4' = c /\ BlockSize = b /\ c \in Counts
    BY <1>2, CallerAssumption, LineAssumption
  <2>2. Len(taken') * BlockSize = 0
    BY <1>2, <2>1
  <2>3. c = c - 0 /\ c >= 0 /\ 0 .. (0 - 1) = {}
    OBVIOUS
  <2>4. Stored'
    BY <2>2, <2>3 DEF Stored
  <2>5. cc' \in Counts /\ r4' = cc' - Len(taken') * BlockSize /\ r4' >= 0
    BY <2>1, <2>2, <2>3
  <2>. QED
    BY <1>1, <1>2, <2>2, <2>4, <2>5 DEF MemInv, BufferExact, readReturned
<1>3. CASE /\ drv' \in {"idle", "open", "ioctl"}
           /\ UNCHANGED <<taken, mem>>
           /\ drv' = "idle" => result'.value \in {0, -1}
           /\ drv' # "idle" => UNCHANGED result
  <2>1. BufferExact'
    BY <1>3 DEF BufferExact, readReturned
  <2>. QED
    BY <1>1, <1>3, <2>1 DEF MemInv, Receiving
<1>. QED
  BY <1>2, <1>3, CallerLine

\* A driver step that meets no damaged payload accepts a block, returns at EOT,
\* or leaves the buffer alone.
LEMMA DriverMem ==
    ASSUME Driver, Receiving => r4 \in Int,
           toTarget # <<>> /\ Head(toTarget).type = "block" => Head(toTarget).ok = TRUE
    PROVE  \/ Accepts
           \/ /\ drv = "response" /\ drv' = "idle" /\ result'.value = cc - r4
              /\ UNCHANGED <<mem, taken>>
           \/ /\ UNCHANGED <<cc, r4, r5, mem, taken>>
              /\ Receiving' => Receiving
              /\ drv' = "idle" => result'.value \in {0, -1}
<1>1. CASE Receive
  <2>1. CASE SimpleReply
    BY <2>1 DEF SimpleReply, Driver, accept, returns, Receiving
  <2>2. CASE ResponseEot
    BY <2>2, SMTT(60) DEF ResponseEot, response, Driver, accept, returns
  <2>3. CASE ResponseCan
    BY <2>3, SMTT(60) DEF ResponseCan, response, Driver, accept, returns, Receiving
  <2>4. CASE ResponseWrong
    BY <2>4, SMTT(60) DEF ResponseWrong, response, Driver, accept, Receiving, bad, returns
  <2>5. CASE ResponseDuplicate
    BY <2>5, SMTT(60) DEF ResponseDuplicate, response, Driver, accept, Receiving, bad, returns
  <2>6. CASE ResponseNew
    <3>1. r4 \in Int /\ BlockSize \in Nat \ {0} /\ drv = "response"
      BY <2>6, LineAssumption DEF ResponseNew, response, Receiving
    <3>2. Head(toTarget).ok = TRUE
      BY <2>6 DEF ResponseNew, response, TargetReads, blockIs
    <3>3. CASE r4' = r4
      <4>1. r4 < BlockSize \/ r4 >= BlockSize
        BY <3>1
      <4>2. bad /\ UNCHANGED <<r4, r5, mem, cc>>
        BY <2>6, <3>1, <3>2, <3>3 DEF ResponseNew
      <4>. QED
        BY <3>1, <3>3, <4>2, SMTT(60) DEF Driver, accept, Receiving, bad, returns
    <3>4. CASE r4' # r4
      BY <2>6, <3>4, SMTT(60) DEF ResponseNew, response, blockIs, Driver, accept, Accepts
    <3>. QED
      BY <3>3, <3>4
  <2>7. CASE Drain
    BY <2>7 DEF Drain, Driver, accept, driverState, Receiving
  <2>. QED
    BY <1>1, <2>1, <2>2, <2>3, <2>4, <2>5, <2>6, <2>7 DEF Receive
<1>2. CASE Timeout
  BY <1>2, SMTT(60) DEF Timeout, SimpleTimeout, ResponseTimeout, DrainTimeout, returns, bad,
                        Driver, accept, Receiving
<1>. QED
  BY <1>1, <1>2 DEF Driver, TimedOut

\* An accepted block lands behind the ones before it.
LEMMA AcceptStores ==
    ASSUME FrameInv, Accepts, Stored, Head(toTarget).ok = TRUE,
           r5 = Len(taken) * BlockSize, r5 + BlockSize <= MemTop + 1
    PROVE  /\ Len(taken') = Len(taken) + 1 /\ Len(taken) \in Nat
           /\ r5' = (Len(taken) + 1) * BlockSize
           /\ Stored'
<1>. DEFINE n == Len(taken)
            h == Head(toTarget)
            e == [file |-> h.file, from |-> h.from]
            S == [file : Int, from : Int]
<1>0. BlockSize \in Nat \ {0} /\ MemTop \in Nat
  BY LineAssumption, DriverAssumption
<1>1. taken \in Seq(S) /\ e \in S
  <2>1. h \in TargetFrames /\ h.type = "block"
    BY TargetGot DEF Accepts
  <2>. QED
    BY <2>1 DEF TargetFrames, FrameInv
<1>2. taken' = Append(taken, e)
  BY DEF Accepts
<1>3. r5' = r5 + BlockSize
  BY DEF Accepts, store
<1>4. \A a \in 0 .. MemTop :
          mem'[a] = IF a \in r5 .. (r5 + BlockSize - 1)
                    THEN <<h.file, h.from + (a - r5)>> ELSE mem[a]
  BY DEF Accepts, store
<1>a. e.file = h.file /\ e.from = h.from
  OBVIOUS
<1>. HIDE DEF S, e, h
<1>5. /\ n \in Nat /\ Len(taken') = n + 1 /\ taken'[n + 1] = e
      /\ \A i \in 1 .. n : taken'[i] = taken[i]
  BY <1>1, <1>2, AppendProperties, LenProperties
<1>6. r5 = n * BlockSize
  OBVIOUS
<1>. HIDE DEF n
<1>7. n * BlockSize \in Nat /\ (n + 1) * BlockSize = n * BlockSize + BlockSize
  BY <1>0, <1>5
<1>8. ASSUME NEW a \in 0 .. ((n * BlockSize + BlockSize) - 1)
      PROVE  mem'[a] = <<taken'[a \div BlockSize + 1].file,
                         taken'[a \div BlockSize + 1].from + (a % BlockSize)>>
  <2>1. a \in Nat /\ a \in 0 .. MemTop
    BY <1>0, <1>6, <1>7
  <2>2. CASE a < n * BlockSize
    <3>1. a \div BlockSize \in Nat /\ a \div BlockSize < n
      BY <1>0, <1>5, <2>1, <2>2, ByteOfBlock
    <3>. DEFINE q == a \div BlockSize
                r == a % BlockSize
    <3>2. mem[a] = <<taken[q + 1].file, taken[q + 1].from + r>>
      <4>1. a \in 0 .. (n * BlockSize - 1)
        BY <1>7, <2>1, <2>2
      <4>. QED
        BY <4>1 DEF Stored, n
    <3>3. q \in Nat /\ q < n
      BY <3>1
    <3>. HIDE DEF q, r
    <3>4. taken'[q + 1] = taken[q + 1]
      <4>1. q + 1 \in 1 .. n
        BY <1>5, <3>3
      <4>. QED
        BY <1>5, <4>1
    <3>5. mem'[a] = mem[a]
      <4>1. a \notin r5 .. (r5 + BlockSize - 1)
        BY <1>0, <1>6, <1>7, <2>1, <2>2
      <4>. QED
        BY <1>4, <2>1, <4>1
    <3>. QED
      BY <3>2, <3>4, <3>5 DEF q, r
  <2>3. CASE n * BlockSize <= a
    <3>1. a < n * BlockSize + BlockSize
      BY <1>0, <1>7
    <3>2. a \div BlockSize = n /\ a % BlockSize = a - n * BlockSize
      BY <1>0, <1>5, <2>1, <2>3, <3>1, ByteOfBlock
    <3>3. mem'[a] = <<h.file, h.from + (a - r5)>>
      <4>1. a \in r5 .. (r5 + BlockSize - 1)
        BY <1>0, <1>6, <1>7, <2>1, <2>3, <3>1
      <4>. QED
        BY <1>4, <2>1, <4>1
    <3>. QED
      BY <1>a, <1>5, <1>6, <3>2, <3>3, SMTT(60)
  <2>. QED
    BY <1>7, <2>1, <2>2, <2>3
<1>9. Stored'
  <2>1. Len(taken') * BlockSize = n * BlockSize + BlockSize
    BY <1>5, <1>7
  <2>2. ASSUME NEW a \in 0 .. (Len(taken') * BlockSize - 1)
        PROVE  mem'[a] = <<taken'[a \div BlockSize + 1].file,
                           taken'[a \div BlockSize + 1].from + (a % BlockSize)>>
    <3>1. a \in 0 .. ((n * BlockSize + BlockSize) - 1)
      BY <2>1, Zenon
    <3>. QED
      BY <1>8, <3>1, Zenon
  <2>. QED
    BY <2>2 DEF Stored
<1>. QED
  <2>1. r5' = (n + 1) * BlockSize
    BY <1>0, <1>3, <1>6, <1>7
  <2>. QED
    BY <1>5, <1>9, <2>1 DEF n

LEMMA MemDriver == ASSUME FrameInv, MemInv, Driver, BufferFits PROVE MemInv'
<1>0. spoiled' = spoiled
  BY DEF Driver
<1>1. CASE spoiled
  BY <1>0, <1>1 DEF MemInv, BufferExact
<1>2. CASE ~spoiled
  <2>1. toTarget \in Seq(TargetFrames) /\ Intact(toTarget)
    BY <1>2 DEF FrameInv, MemInv
  <2>2. toTarget # <<>> /\ Head(toTarget).type = "block" => Head(toTarget).ok = TRUE
    BY <2>1, IntactTail
  <2>3. Intact(toTarget')
    <3>1. CASE toTarget' = toTarget
      BY <2>1, <3>1
    <3>2. CASE TargetReads
      BY <2>1, <3>2, IntactTail DEF TargetReads
    <3>. QED
      BY <3>1, <3>2, DriverLine
  <2>4. /\ Len(taken) \in Nat /\ BlockSize \in Nat \ {0} /\ Len(taken) * BlockSize \in Nat
    BY LenProperties, LineAssumption DEF FrameInv
  <2>5. Receiving => /\ cc \in Counts /\ cc \in Nat /\ r4 = cc - Len(taken) * BlockSize
                     /\ r4 >= 0 /\ r5 = Len(taken) * BlockSize /\ Stored
    BY <1>2, CallerAssumption DEF MemInv
  <2>6. Receiving => r4 \in Int
    BY <2>4, <2>5
  <2>7. CASE /\ UNCHANGED <<cc, r4, r5, mem, taken>>
             /\ Receiving' => Receiving
             /\ drv' = "idle" => result'.value \in {0, -1}
    <3>1. BufferExact'
      BY <2>7 DEF BufferExact, readReturned
    <3>2. Stored => Stored'
      BY <2>7 DEF Stored
    <3>. QED
      BY <1>0, <2>3, <2>5, <2>7, <3>1, <3>2 DEF MemInv
  <2>8. CASE /\ drv = "response" /\ drv' = "idle" /\ result'.value = cc - r4
             /\ UNCHANGED <<mem, taken>>
    <3>1. Receiving /\ ~Receiving'
      BY <2>8 DEF Receiving
    <3>2. result'.value = Len(taken') * BlockSize
      <4>. DEFINE k == Len(taken) * BlockSize
      <4>1. k \in Nat /\ cc \in Nat /\ r4 = cc - k
        BY <2>4, <2>5, <3>1
      <4>. HIDE DEF k
      <4>2. cc - r4 = k
        BY <4>1
      <4>. QED
        BY <2>8, <4>2 DEF k
    <3>3. Stored'
      BY <2>5, <2>8, <3>1 DEF Stored
    <3>4. bufferIsRight'
      BY <3>2, <3>3 DEF bufferIsRight, Stored
    <3>. QED
      BY <1>0, <2>3, <3>1, <3>4 DEF MemInv, BufferExact
  <2>9. CASE Accepts
    <3>1. /\ Receiving /\ drv' = "response" /\ r4 >= BlockSize /\ r4' = r4 - BlockSize /\ cc' = cc
          /\ Head(toTarget).ok = TRUE
      <4>1. toTarget # <<>>
        BY <2>9 DEF Accepts, TargetReads
      <4>. QED
        BY <2>2, <2>9, <4>1 DEF Accepts, Receiving
    <3>. DEFINE n == Len(taken)
                k == n * BlockSize
    <3>2. /\ k \in Nat /\ r4 = cc - k /\ r5 = k /\ cc \in Nat /\ cc <= MemTop + 1 /\ MemTop \in Nat
          /\ cc \in Counts
      BY <2>4, <2>5, <3>1, DriverAssumption DEF BufferFits
    <3>. HIDE DEF k
    <3>3. r5 + BlockSize <= MemTop + 1
      BY <2>4, <3>1, <3>2
    <3>4. /\ Len(taken') = n + 1 /\ r5' = (n + 1) * BlockSize /\ Stored'
      BY <2>5, <2>9, <3>1, <3>3, AcceptStores
    <3>5. (n + 1) * BlockSize = k + BlockSize
      BY <2>4 DEF k
    <3>6. r4' = cc' - Len(taken') * BlockSize /\ r4' >= 0
      BY <2>4, <3>1, <3>2, <3>4, <3>5
    <3>. QED
      BY <1>0, <2>3, <3>1, <3>2, <3>4, <3>6 DEF MemInv, BufferExact, readReturned
  <2>. QED
    BY <2>2, <2>6, <2>7, <2>8, <2>9, DriverMem
<1>. QED
  BY <1>1, <1>2

MemAll == FrameInv /\ srv # "packet" /\ MemInv

LEMMA MemInit == Init => MemAll
<1>. SUFFICES ASSUME Init PROVE MemAll
  OBVIOUS
<1>1. FrameInv
  BY TapeInit DEF TapeInv
<1>2. /\ srv = "command" /\ drv = "idle" /\ toTarget = <<>>
      /\ result = [entry |-> "none", value |-> 0]
  BY DEF Init, ServerInit, DriverInit, LineInit
<1>. QED
  BY <1>1, <1>2 DEF MemAll, MemInv, Intact, Receiving, BufferExact, readReturned

LEMMA MemStep == ASSUME BufferFits, MemAll, [Next]_vars PROVE MemAll'
<1>0. FrameInv /\ srv # "packet" /\ MemInv
  BY DEF MemAll
<1>1. CASE Caller
  <2>1. UNCHANGED srv
    BY <1>1 DEF Caller, serverState
  <2>. QED
    BY <1>0, <1>1, <2>1, FrameCaller, MemCaller DEF MemAll
<1>2. CASE Driver
  <2>1. UNCHANGED srv
    BY <1>2 DEF Driver, serverState
  <2>. QED
    BY <1>0, <1>2, <2>1, FrameDriver, MemDriver DEF MemAll
<1>3. CASE Server
  BY <1>0, <1>3, FrameServer, ServerSends, MemServer DEF MemAll
<1>4. CASE Line
  <2>1. UNCHANGED <<srv, file, position, index, pendLen, sequence, iOffset, taken>>
    BY <1>4 DEF Line, serverState, callerVars
  <2>2. toHost' \in Seq(HostFrames) /\ toTarget' \in Seq(TargetFrames)
    BY <1>0, <1>4, FaultStep DEF FrameInv, Line
  <2>3. FrameInv'
    BY <1>0, <2>1, <2>2 DEF FrameInv
  <2>. QED
    BY <1>0, <1>4, <2>1, <2>3, MemLine DEF MemAll
<1>5. CASE UNCHANGED vars
  BY <1>0, <1>5 DEF MemAll, FrameInv, MemInv, Intact, Stored, Receiving, BufferExact,
                    bufferIsRight, readReturned, vars, lineVars, serverState, driverState,
                    callerVars, history
<1>. QED
  BY <1>1, <1>2, <1>3, <1>4, <1>5 DEF Next

\* When a read returns n > 0 bytes, the first n bytes of the program's buffer
\* are the bytes of the blocks it accepted, in order: whatever frames the line
\* loses, garbles or delays, and however often, as long as no payload is
\* damaged.  The buffer must lie within the memory that is modelled.
THEOREM BufferExactHolds ==
    ASSUME BufferFits
    PROVE  Spec => []BufferExact
<1>1. MemAll => BufferExact
  BY DEF MemAll, MemInv
<1>2. MemAll /\ [Next]_vars => MemAll'
  BY MemStep
<1>. QED
  BY <1>1, <1>2, MemInit, PTL DEF Spec

-----------------------------------------------------------------------------
(* What is committed was delivered, while the line has no more faults than *)
(* a call tolerates.                                                       *)

\* A block or EOT is the last frame on its way to the driver.
TokenLast(s) == \A i \in 1 .. Len(s) : s[i].type \in {"block", "EOT"} => i = Len(s)

BlockFrom(s, p) == \A i \in 1 .. Len(s) : s[i].type = "block" => s[i].from = p

LEMMA LastAppend ==
    ASSUME NEW S, NEW s \in Seq(S), NEW f \in S, ~Has(s, {"block", "EOT"})
    PROVE  /\ TokenLast(Append(s, f))
           /\ \A p : (f.type = "block" => f.from = p) => BlockFrom(Append(s, f), p)
<1>. DEFINE t == Append(s, f)
<1>1. /\ Len(s) \in Nat /\ Len(t) = Len(s) + 1 /\ t[Len(s) + 1] = f
      /\ \A i \in 1 .. Len(s) : t[i] = s[i]
  BY LenProperties, AppendProperties
<1>. HIDE DEF t
<1>2. \A i \in 1 .. Len(t) : t[i].type \in {"block", "EOT"} => i = Len(t) /\ t[i] = f
  <2>. SUFFICES ASSUME NEW i \in 1 .. Len(t), t[i].type \in {"block", "EOT"}
                PROVE  i = Len(t) /\ t[i] = f
    OBVIOUS
  <2>1. i \in 1 .. Len(s) \/ i = Len(s) + 1
    BY <1>1
  <2>2. i \notin 1 .. Len(s)
    BY <1>1 DEF Has
  <2>. QED
    BY <1>1, <2>1, <2>2
<1>. QED
  BY <1>2 DEF TokenLast, BlockFrom, t

LEMMA LastTail ==
    ASSUME NEW S, NEW s \in Seq(S), s # <<>>, TokenLast(s)
    PROVE  /\ TokenLast(Tail(s))
           /\ Head(s).type \in {"block", "EOT"} => Tail(s) = <<>>
           /\ \A p : BlockFrom(s, p) => /\ BlockFrom(Tail(s), p)
                                        /\ Head(s).type = "block" => Head(s).from = p
<1>. DEFINE t == Tail(s)
<1>1. /\ Len(s) \in Nat \ {0} /\ t \in Seq(S) /\ Len(t) = Len(s) - 1
      /\ \A i \in 1 .. Len(t) : t[i] = s[i + 1]
      /\ Head(s) = s[1]
  BY HeadTailProperties, EmptySeq
<1>. HIDE DEF t
<1>2. \A i \in 1 .. Len(t) : i + 1 \in 1 .. Len(s)
  BY <1>1
<1>3. TokenLast(t)
  BY <1>1, <1>2 DEF TokenLast
<1>4. Head(s).type \in {"block", "EOT"} => t = <<>>
  <2>. SUFFICES ASSUME Head(s).type \in {"block", "EOT"} PROVE t = <<>>
    OBVIOUS
  <2>1. Len(s) = 1
    BY <1>1 DEF TokenLast
  <2>2. Len(t) = 0
    BY <1>1, <2>1
  <2>. QED
    BY <1>1, <2>2, OnlyEmpty
<1>5. \A p : BlockFrom(s, p) => BlockFrom(t, p) /\ (Head(s).type = "block" => Head(s).from = p)
  BY <1>1, <1>2 DEF BlockFrom
<1>. QED
  BY <1>3, <1>4, <1>5 DEF t

LEMMA LastDamaged ==
    ASSUME NEW s, NEW t, Damaged(t, s), Len(s) \in Nat, Len(t) \in Nat
    PROVE  /\ TokenLast(s) => TokenLast(t)
           /\ \A p : BlockFrom(s, p) => BlockFrom(t, p)
<1>1. PICK g \in [1 .. Len(t) -> 1 .. Len(s)] :
        /\ \A i, j \in 1 .. Len(t) : i < j => g[i] < g[j]
        /\ \A i \in 1 .. Len(t) :
             \/ t[i].type = "noise"
             \/ /\ t[i].type = s[g[i]].type
                /\ t[i].type = "block" => t[i].from = s[g[i]].from
  BY DEF Damaged
<1>2. ASSUME TokenLast(s), NEW i \in 1 .. Len(t), t[i].type \in {"block", "EOT"}
      PROVE  i = Len(t)
  <2>1. g[i] \in 1 .. Len(s) /\ s[g[i]].type \in {"block", "EOT"}
    BY <1>1, <1>2
  <2>2. g[i] = Len(s)
    BY <1>2, <2>1 DEF TokenLast
  <2>3. i < Len(t) => g[i] < g[Len(t)] /\ g[Len(t)] \in 1 .. Len(s)
    BY <1>1
  <2>. QED
    BY <2>1, <2>2, <2>3
<1>3. ASSUME NEW p, BlockFrom(s, p), NEW i \in 1 .. Len(t), t[i].type = "block"
      PROVE  t[i].from = p
  <2>1. g[i] \in 1 .. Len(s) /\ s[g[i]].type = "block" /\ t[i].from = s[g[i]].from
    BY <1>1, <1>3
  <2>. QED
    BY <1>3, <2>1 DEF BlockFrom
<1>. QED
  BY <1>2, <1>3 DEF TokenLast, BlockFrom

\* In a call that has all blocks of the payload: neither EOT nor NAK is left,
\* and the driver has yet to notice.
Missing == IF drv = "response" /\ ~Has(toTarget, {"EOT"}) /\ ~Has(toHost, {"NAK"})
           THEN 1 ELSE 0

\* The call in progress has accepted blocks.
Started == Receiving /\ taken # <<>>

CommitInv ==
    /\ delivered \in Nat /\ errors \in Nat /\ faults \in Nat /\ faults <= MaxFaults
    /\ sequence = None => position = 0 /\ pendLen = 0 /\ srv # "eot"
    /\ TokenLast(toTarget)
    /\ position <= delivered
    /\ srv = "block" => BlockFrom(toTarget, position + index)
    /\ srv = "block" /\ Has(toHost, {"ACK"}) =>
          /\ drv = "response" /\ toTarget = <<>> /\ errors = 0
          /\ Len(taken) * BlockSize = index + BlockSize
    /\ srv \in {"command", "partial"} => position + pendLen <= delivered
    /\ srv = "eot" /\ ~Started => position + pendLen <= delivered
    /\ srv = "eot" /\ Started =>
          /\ Len(taken) * BlockSize = pendLen
          /\ Len(toTarget) <= 1 /\ ~Has(toTarget, {"ACK", "CAN"})
          /\ errors + Missing <= faults

LEMMA CommitCaller == ASSUME FrameInv, CommitInv, Caller PROVE CommitInv'
<1>1. /\ drv = "idle" /\ UNCHANGED <<toTarget, delivered, faults>>
      /\ UNCHANGED <<srv, file, position, sequence, pendLen, index>>
      /\ ~Started /\ ~Started'
      /\ errors' = 0 \/ errors' = errors
  BY CallerLine DEF serverState, Receiving, Started
<1>2. Has(toHost', {"ACK"}) => Has(toHost, {"ACK"})
  <2>1. CASE toHost' = toHost
    BY <2>1
  <2>2. CASE \E f \in HostFrames : /\ f.type \in {"open", "read", "space", "CAN"}
                                   /\ toHost' = Append(toHost, f)
    BY <2>2, HostSent
  <2>. QED
    BY <2>1, <2>2, CallerLine
<1>3. ~(srv' = "block" /\ Has(toHost', {"ACK"}))
  BY <1>1, <1>2 DEF CommitInv
<1>. QED
  BY <1>1, <1>3 DEF CommitInv

LEMMA CommitLine == ASSUME FrameInv, CommitInv, Line PROVE CommitInv'
<1>1. /\ toHost' \in Seq(HostFrames) /\ Damaged(toHost', toHost)
      /\ toTarget' \in Seq(TargetFrames) /\ Damaged(toTarget', toTarget)
      /\ Len(toTarget') <= Len(toTarget)
  BY FaultStep DEF FrameInv, Line
<1>2. /\ UNCHANGED <<srv, file, position, index, pendLen, sequence, taken, drv, errors, delivered>>
      /\ faults < MaxFaults /\ faults' = faults + 1
  BY DEF Line, serverState, driverState, Fault
<1>3. Len(toTarget) \in Nat /\ Len(toTarget') \in Nat
  BY <1>1, LenProperties DEF FrameInv
<1>4. /\ TokenLast(toTarget) => TokenLast(toTarget')
      /\ \A p : BlockFrom(toTarget, p) => BlockFrom(toTarget', p)
  <2>1. PICK t : t = toTarget'
    OBVIOUS
  <2>2. Damaged(t, toTarget) /\ Len(t) \in Nat
    BY <1>1, <1>3, <2>1
  <2>. QED
    BY <1>3, <2>1, <2>2, LastDamaged
<1>5. Has(toHost', {"ACK"}) => Has(toHost, {"ACK"})
  BY <1>1, OnDamage
<1>6. Has(toTarget', {"ACK", "CAN"}) => Has(toTarget, {"ACK", "CAN"})
  BY <1>1, OnDamage
<1>7. toTarget = <<>> => toTarget' = <<>>
  <2>1. toTarget = <<>> => Len(toTarget) = 0
    OBVIOUS
  <2>2. toTarget = <<>> => Len(toTarget') = 0
    BY <1>1, <1>3, <2>1
  <2>. QED
    BY <1>1, <2>2, OnlyEmpty
<1>8. errors + Missing <= faults => errors' + Missing' <= faults'
  <2>1. Missing \in {0, 1} /\ Missing' \in {0, 1}
    BY DEF Missing
  <2>2. errors \in Nat /\ faults \in Nat
    BY DEF CommitInv
  <2>3. PICK x \in {0, 1} : x = Missing
    BY <2>1
  <2>4. PICK y \in {0, 1} : y = Missing'
    BY <2>1
  <2>5. errors + x <= faults => errors + y <= faults + 1
    BY <2>2
  <2>. QED
    BY <1>2, <2>3, <2>4, <2>5
<1>9. Started' <=> Started
  BY <1>2 DEF Started, Receiving
<1>10. faults' \in Nat /\ faults' <= MaxFaults
  BY <1>2, LineAssumption DEF CommitInv
<1>11. Len(toTarget) <= 1 => Len(toTarget') <= 1
  BY <1>1, <1>3
<1>12. srv = "block" => BlockFrom(toTarget', position' + index')
  BY <1>2, <1>4 DEF CommitInv
<1>. QED
  BY <1>2, <1>4, <1>5, <1>6, <1>7, <1>8, <1>9, <1>10, <1>11, <1>12 DEF CommitInv

\* What a server step has to establish for the frames and for the history
LEMMA CommitQuiet ==
    ASSUME FrameInv, CommitInv, UNCHANGED <<drv, errors, taken, faults>>,
           delivered' = IF sequence' = None THEN 0 ELSE delivered,
           UNCHANGED <<sequence, position, pendLen>>,
           toTarget' = toTarget \/ \E f \in {Ack, Can} : toTarget' = Append(toTarget, f),
           toTarget' # toTarget => ~Has(toTarget, {"block", "EOT"}),
           srv' \notin {"block", "eot"},
           srv' \in {"command", "partial"} => position + pendLen <= delivered
    PROVE  CommitInv'
<1>1. TokenLast(toTarget')
  <2>1. CASE toTarget' = toTarget
    BY <2>1 DEF CommitInv
  <2>2. CASE toTarget' # toTarget
    <3>1. PICK f \in TargetFrames : toTarget' = Append(toTarget, f)
      BY <2>2, Bytes
    <3>. QED
      BY <2>2, <3>1, LastAppend DEF FrameInv
  <2>. QED
    BY <2>1, <2>2
<1>2. /\ delivered' \in Nat /\ position <= delivered'
      /\ position + pendLen <= delivered => position + pendLen <= delivered'
  BY DEF CommitInv
<1>. QED
  BY <1>1, <1>2 DEF CommitInv

\* The server selects another file, or none.
LEMMA CommitSelect ==
    ASSUME FrameInv, CommitInv, UNCHANGED <<drv, errors, taken, faults>>,
           delivered' = IF sequence' = None THEN 0 ELSE delivered,
           forgetPending, ~Has(toTarget, {"block", "EOT"}),
           toTarget' = toTarget \/ \E f \in {Ack, Can} : toTarget' = Append(toTarget, f),
           srv' = "command"
    PROVE  CommitInv'
<1>1. TokenLast(toTarget')
  <2>1. CASE toTarget' = toTarget
    BY <2>1 DEF CommitInv
  <2>2. CASE toTarget' # toTarget
    <3>1. PICK f \in TargetFrames : toTarget' = Append(toTarget, f)
      BY <2>2, Bytes
    <3>. QED
      BY <3>1, LastAppend DEF FrameInv
  <2>. QED
    BY <2>1, <2>2
<1>2. delivered' = 0 /\ position' = 0 /\ pendLen' = 0
  BY DEF forgetPending
<1>. QED
  BY <1>1, <1>2, SMTT(60) DEF CommitInv

\* The server sends a block or EOT.
LEMMA CommitSent ==
    ASSUME FrameInv, CommitInv, UNCHANGED <<drv, errors, taken, faults>>,
           UNCHANGED delivered, sequence' # None,
           NEW p \in Nat, position' = p, p <= delivered,
           NEW f \in TargetFrames, toTarget' = Append(toTarget, f),
           ~Has(toTarget, {"block", "EOT"}),
           \/ /\ srv' = "block" /\ f.type = "block" /\ ~Has(toHost', {"ACK"})
              /\ f.from = p + index'
           \/ /\ srv' = "eot" /\ f.type = "EOT"
              /\ ~Started => p + pendLen' <= delivered
              /\ Started => /\ Len(taken) * BlockSize = pendLen'
                            /\ toTarget = <<>> /\ errors <= faults
    PROVE  CommitInv'
<1>1. TokenLast(toTarget') /\ (srv' = "block" => BlockFrom(toTarget', p + index'))
  <2>1. /\ TokenLast(Append(toTarget, f))
        /\ \A q : (f.type = "block" => f.from = q) => BlockFrom(Append(toTarget, f), q)
    BY LastAppend DEF FrameInv
  <2>. QED
    BY <2>1
<1>2. Started' <=> Started
  BY DEF Started, Receiving
<1>3. f.type = "EOT" => Has(toTarget', {"EOT"})
  BY TargetSent
<1>4. f.type = "EOT" => errors' + Missing' = errors
  BY <1>3 DEF Missing, CommitInv
<1>5. toTarget = <<>> /\ f.type = "EOT" => Len(toTarget') <= 1 /\ ~Has(toTarget', {"ACK", "CAN"})
  <2>. SUFFICES ASSUME toTarget = <<>>, f.type = "EOT"
                PROVE  Len(toTarget') <= 1 /\ ~Has(toTarget', {"ACK", "CAN"})
    OBVIOUS
  <2>1. Len(toTarget') = 1
    BY AppendProperties DEF FrameInv
  <2>2. ~Has(toTarget, {"ACK", "CAN"})
    BY NoFrames
  <2>3. ~Has(toTarget', {"ACK", "CAN"})
    BY <2>2, TargetSent
  <2>. QED
    BY <2>1, <2>3
<1>. QED
  BY <1>1, <1>2, <1>4, <1>5 DEF CommitInv

LEMMA CommitServer ==
    ASSUME FrameInv, TokenInv, TransferInv, CommitInv, Server
    PROVE  CommitInv'
<1>1. /\ UNCHANGED <<drv, errors, taken, faults>>
      /\ delivered' = IF sequence' = None THEN 0 ELSE delivered
  BY DEF Server, driverState
<1>2. HostReads
  BY DEF Server, ServerStep, Open, Read, Partial, BlockReply, EotReply, ReadLegacy, PacketReply,
         Space, Close, Ignore, Gone, command
<1>3. srv \in {"command", "partial"} =>
         /\ ~Has(toTarget, {"block", "EOT"}) /\ ~Has(toHost', {"ACK"}) /\ ~Started
         /\ position + pendLen <= delivered
  BY <1>2, NakRead DEF TokenInv, CommitInv, Started
<1>4. CASE Open \/ Space \/ Close \/ Ignore
  <2>1. /\ srv = "command" /\ srv' = "command"
        /\ toTarget' = toTarget \/ \E f \in {Ack, Can} : toTarget' = Append(toTarget, f)
        /\ forgetPending \/ UNCHANGED <<sequence, position, pendLen>>
    BY <1>4 DEF Open, Space, Close, Ignore, command, Refuse, SendToTarget, serverState
  <2>. QED
    BY <1>1, <1>3, <2>1, CommitQuiet, CommitSelect
<1>5. CASE Read
  <2>1. srv = "command"
    BY <1>5 DEF Read, command
  <2>2. CASE UNCHANGED serverState /\ toTarget' = Append(toTarget, Can)
    BY <1>1, <1>3, <2>1, <2>2, CommitQuiet DEF serverState
  <2>3. CASE srv' = "partial" /\ UNCHANGED <<toTarget, position, sequence, pendLen>>
    BY <1>1, <1>3, <2>1, <2>3, CommitQuiet
  <2>4. CASE ReadStarts
    <3>1. PICK p \in Nat, len \in Nat :
            /\ position' = p /\ pendLen' = len /\ startTransfer(p, len)
            /\ p \in {position, position + pendLen}
      BY <2>4 DEF ReadStarts
    <3>2. sequence' # None /\ delivered' = delivered
      BY <1>1, <2>4 DEF ReadStarts, None
    <3>3. p <= delivered
      BY <1>3, <2>1, <3>1 DEF CommitInv
    <3>4. CASE srv' = "dead" /\ UNCHANGED toTarget
      BY <1>1, <3>1, <3>2, <3>3, <3>4 DEF CommitInv
    <3>5. CASE srv' = "eot" /\ toTarget' = Append(toTarget, Eot) /\ len = 0
      <4>1. p + pendLen' <= delivered
        BY <3>1, <3>3, <3>5
      <4>. QED
        BY <1>1, <1>3, <2>1, <3>1, <3>2, <3>3, <3>5, <4>1, Bytes, CommitSent
    <3>6. CASE srv' = "block" /\ toTarget' = Append(toTarget, blockAt(p, 0)) /\ index' = 0
      <4>1. /\ blockAt(p, 0) \in TargetFrames /\ blockAt(p, 0).type = "block"
            /\ blockAt(p, 0).from = p + 0
        BY BlockType
      <4>. QED
        BY <1>1, <1>3, <2>1, <3>1, <3>2, <3>3, <3>6, <4>1, CommitSent
    <3>. QED
      BY <3>1, <3>4, <3>5, <3>6, Starts
  <2>. QED
    BY <1>5, <2>2, <2>3, <2>4, ReadKinds
<1>6. CASE Partial
  BY <1>1, <1>3, <1>6, CommitQuiet DEF Partial, SendToTarget
<1>7. CASE die /\ UNCHANGED <<position, sequence, pendLen>>
  BY <1>1, <1>7, CommitQuiet DEF die
<1>8. CASE BlockReply
  <2>1. /\ UNCHANGED <<position, sequence, pendLen>> /\ srv = "block"
        /\ position \in Nat /\ pendLen \in Nat /\ index \in Nat /\ position <= delivered
        /\ pendLen % BlockSize = 0 /\ index % BlockSize = 0 /\ index < pendLen
    BY <1>8 DEF BlockReply, TransferInv, FrameInv, CommitInv
  <2>2. sequence' # None /\ delivered' = delivered
    BY <1>1, <2>1 DEF CommitInv
  <2>3. Head(toHost).type \in {"ACK", "NAK"} =>
           ~Has(toTarget, {"block", "EOT"}) /\ ~Has(toHost', {"ACK"})
    BY <1>2, NakRead
  <2>4. CASE /\ Head(toHost).type \in {"ACK", "NAK"} /\ srv' = "block"
             /\ \E i \in Nat : index' = i /\ SendToTarget(blockAt(position, i))
    <3>1. PICK i \in Nat : index' = i /\ toTarget' = Append(toTarget, blockAt(position, i))
      BY <2>4 DEF SendToTarget
    <3>2. /\ blockAt(position, i) \in TargetFrames /\ blockAt(position, i).type = "block"
          /\ blockAt(position, i).from = position + i
      BY <2>1, BlockType
    <3>. QED
      BY <1>1, <2>1, <2>2, <2>3, <2>4, <3>1, <3>2, CommitSent
  <2>5. CASE Head(toHost).type = "ACK" /\ srv' = "eot" /\ SendToTarget(Eot) /\ lastBlock
    <3>1. Has(toHost, {"ACK"})
      BY <1>2, <2>5, HostGot
    <3>2. /\ drv = "response" /\ toTarget = <<>> /\ errors = 0
          /\ Len(taken) * BlockSize = index + BlockSize
      BY <2>1, <3>1 DEF CommitInv
    <3>3. index + BlockSize = pendLen
      <4>0. BlockSize \in Nat \ {0}
        BY LineAssumption
      <4>. DEFINE j == index \div BlockSize
                  k == pendLen \div BlockSize
      <4>1. j \in Nat /\ k \in Nat /\ index = j * BlockSize /\ pendLen = k * BlockSize
        BY <2>1, <4>0, WholeBlocks
      <4>. HIDE DEF j, k
      <4>2. j < k
        BY <2>1, <4>0, <4>1, MoreBlocks
      <4>3. index + BlockSize >= pendLen /\ (j + 1) * BlockSize = index + BlockSize
        BY <2>5, <4>0, <4>1 DEF lastBlock
      <4>4. ~(j + 1 < k)
        <5>. SUFFICES ASSUME j + 1 < k PROVE FALSE
          OBVIOUS
        <5>1. PICK d \in Nat : k = (j + 1) + d /\ d >= 1
          <6>1. k - (j + 1) \in Nat /\ k = (j + 1) + (k - (j + 1)) /\ k - (j + 1) >= 1
            BY <4>1
          <6>. QED
            BY <6>1
        <5>2. pendLen = (j + 1) * BlockSize + d * BlockSize
          BY <4>0, <4>1, <5>1
        <5>3. d * BlockSize >= 1 /\ d * BlockSize \in Nat
          BY <4>0, <5>1
        <5>. QED
          BY <2>1, <4>0, <4>3, <5>2, <5>3
      <4>5. k = j + 1
        BY <4>1, <4>2, <4>4
      <4>. QED
        BY <4>1, <4>3, <4>5
    <3>4. Started
      <4>1. Len(taken) * BlockSize # 0
        BY <2>1, <3>2, LineAssumption
      <4>2. taken # <<>>
        BY <4>1, LineAssumption
      <4>. QED
        BY <3>2, <4>2 DEF Started, Receiving
    <3>5. errors <= faults /\ Len(taken) * BlockSize = pendLen'
      BY <2>1, <3>2, <3>3 DEF CommitInv
    <3>. QED
      BY <1>1, <2>1, <2>2, <2>3, <2>5, <3>2, <3>4, <3>5, Bytes, CommitSent DEF SendToTarget
  <2>6. index + BlockSize \in Nat
    BY <2>1, LineAssumption
  <2>. QED
    BY <1>7, <1>8, <2>1, <2>4, <2>5, <2>6 DEF BlockReply
<1>9. CASE EotReply
  <2>1. /\ UNCHANGED <<position, sequence, pendLen>> /\ srv = "eot"
        /\ position \in Nat /\ pendLen \in Nat /\ position <= delivered
    BY <1>9 DEF EotReply, FrameInv, CommitInv
  <2>2. CASE Head(toHost).type = "ACK" /\ srv' = "command" /\ UNCHANGED toTarget
    <3>1. Has(toHost, {"ACK"})
      BY <1>2, <2>2, HostGot
    <3>2. ~Started
      BY <2>1, <3>1 DEF TokenInv, Started
    <3>. QED
      BY <1>1, <2>1, <2>2, <3>2, CommitQuiet DEF CommitInv
  <2>3. CASE Head(toHost).type = "NAK" /\ SendToTarget(Eot) /\ UNCHANGED srv
    <3>1. Has(toHost, {"NAK"})
      BY <1>2, <2>3, HostGot
    <3>2. toTarget = <<>>
      BY <3>1 DEF TokenInv
    <3>3. ~Has(toTarget, {"block", "EOT"})
      BY <1>2, <2>3, NakRead
    <3>4. Started => Len(taken) * BlockSize = pendLen' /\ errors <= faults
      <4>. SUFFICES ASSUME Started PROVE Len(taken) * BlockSize = pendLen' /\ errors <= faults
        OBVIOUS
      <4>1. Len(taken) * BlockSize = pendLen /\ errors + Missing <= faults
        BY <2>1 DEF CommitInv
      <4>2. Missing \in {0, 1} /\ errors \in Nat /\ faults \in Nat
        BY DEF Missing, CommitInv
      <4>3. errors <= faults
        BY <4>1, <4>2
      <4>. QED
        BY <2>1, <4>1, <4>3
    <3>5. ~Started => position + pendLen' <= delivered
      BY <2>1 DEF CommitInv
    <3>6. sequence' # None
      BY <2>1 DEF CommitInv
    <3>. QED
      BY <1>1, <2>1, <2>3, <3>2, <3>3, <3>4, <3>5, <3>6, Bytes, CommitSent DEF SendToTarget
  <2>. QED
    BY <1>7, <1>9, <2>1, <2>2, <2>3 DEF EotReply
<1>10. CASE Gone
  BY <1>1, <1>10, CommitQuiet DEF Gone, serverState
<1>11. ~ReadLegacy /\ ~PacketReply
  BY <1>2, HostGot DEF ReadLegacy, command, HostFrames, PacketReply, TokenInv
<1>. QED
  BY <1>4, <1>5, <1>6, <1>8, <1>9, <1>10, <1>11 DEF Server, ServerStep

\* The steps of the driver, by what they do to the count of errors and to what
\* is delivered
TakesEot ==
    /\ drv = "response" /\ drv' = "idle" /\ TargetReads /\ Head(toTarget).type = "EOT"
    /\ toHost' = Append(toHost, Ack) /\ UNCHANGED <<taken, errors>>
    /\ \/ delivered' = delivered
       \/ taken # <<>> /\ cc - r4 > 0 /\ delivered' = taken[1].from + (cc - r4)
    /\ taken # <<>> /\ cc - r4 > 0 => delivered' = taken[1].from + (cc - r4)

TakesBlock ==
    /\ drv = "response" /\ drv' = "response" /\ TargetReads /\ Head(toTarget).type = "block"
    /\ toHost' = Append(toHost, Ack) /\ errors' = 0 /\ UNCHANGED delivered
    /\ Accepts \/ (UNCHANGED taken /\ Head(toTarget).num = previous(expected))

CountsError ==
    /\ drv = "response" /\ UNCHANGED <<toHost, taken, delivered>> /\ errors' = errors + 1
    /\ \/ TargetReads /\ Head(toTarget).type # "EOT"
       \/ toTarget = <<>> /\ toHost = <<>> /\ UNCHANGED toTarget
    /\ drv' = "drain" \/ (drv' = "idle" /\ errors + 1 > MaxErrors)

TakesCan ==
    /\ drv = "response" /\ drv' = "idle" /\ TargetReads /\ Head(toTarget).type = "CAN"
    /\ UNCHANGED <<toHost, taken, delivered, errors>>

Drains ==
    /\ drv = "drain" /\ drv' = "drain" /\ TargetReads
    /\ UNCHANGED <<toHost, taken, delivered, errors>>

SendsNak ==
    /\ drv = "drain" /\ drv' = "response" /\ toTarget = <<>> /\ toHost = <<>>
    /\ toHost' = Append(toHost, Nak)
    /\ UNCHANGED <<toTarget, taken, delivered, errors>>

EndsSimple ==
    /\ drv \in {"open", "ioctl"} /\ drv' = "idle"
    /\ TargetReads \/ UNCHANGED toTarget
    /\ UNCHANGED <<toHost, taken, delivered, errors>>

\* A step that stores nothing and returns no data takes and delivers nothing.
LEMMA TakesNothing ==
    ASSUME Driver, drv = "response" => r4' = r4,
           drv = "response" /\ drv' = "idle" => ~(result'.value > 0)
    PROVE  UNCHANGED <<taken, delivered>>
<1>1. accept /\ handOver
  BY DEF Driver
<1>2. taken' = taken
  BY <1>1 DEF accept
<1>3. delivered' = delivered
  BY <1>1 DEF handOver
<1>. QED
  BY <1>2, <1>3

LEMMA BadTakesNothing ==
    ASSUME Driver, bad, r4' = r4
    PROVE  /\ UNCHANGED <<taken, delivered>>
           /\ errors' = errors + 1
           /\ \/ drv' = "drain"
              \/ drv' = "idle" /\ errors + 1 > MaxErrors
<1>1. drv' = "idle" => ~(result'.value > 0)
  BY DEF bad, returns
<1>2. UNCHANGED <<taken, delivered>>
  BY <1>1, TakesNothing
<1>. QED
  BY <1>2 DEF bad, returns

LEMMA DriverSteps ==
    ASSUME Driver, "late" \notin FaultKinds, Receiving => r4 \in Int
    PROVE  /\ UNCHANGED faults
           /\ \/ TakesEot \/ TakesBlock \/ CountsError \/ TakesCan \/ Drains \/ SendsNak
              \/ EndsSimple
<1>1. CASE Receive /\ UNCHANGED faults
  <2>1. CASE SimpleReply
    <3>1. drv \in {"open", "ioctl"} /\ drv' = "idle" /\ TargetReads
          /\ UNCHANGED <<toHost, errors>>
      BY <2>1 DEF SimpleReply, returns
    <3>2. UNCHANGED <<taken, delivered>>
      BY <3>1, TakesNothing
    <3>3. EndsSimple
      BY <3>1, <3>2 DEF EndsSimple
    <3>. QED
      BY <1>1, <3>3
  <2>2. CASE ResponseEot
    <3>1. /\ drv = "response" /\ drv' = "idle" /\ TargetReads /\ Head(toTarget).type = "EOT"
          /\ toHost' = Append(toHost, Ack) /\ UNCHANGED <<errors, r4>>
          /\ result'.value = cc - r4
      BY <2>2 DEF ResponseEot, response, SendToHost, returns
    <3>2. accept /\ handOver
      BY DEF Driver
    <3>3. UNCHANGED taken
      BY <3>1, <3>2 DEF accept
    <3>4. IF cc - r4 > 0 /\ taken # <<>> THEN delivered' = taken[1].from + (cc - r4)
                                          ELSE delivered' = delivered
      BY <3>1, <3>2 DEF handOver
    <3>5. TakesEot
      BY <3>1, <3>3, <3>4 DEF TakesEot
    <3>. QED
      BY <1>1, <3>5
  <2>3. CASE ResponseCan
    <3>1. drv = "response" /\ drv' = "idle" /\ TargetReads /\ Head(toTarget).type = "CAN"
          /\ UNCHANGED <<toHost, errors, r4>>
      BY <2>3 DEF ResponseCan, response, returns
    <3>2. ~(result'.value > 0)
      BY <2>3 DEF ResponseCan, returns
    <3>3. UNCHANGED <<taken, delivered>>
      BY <3>1, <3>2, TakesNothing
    <3>4. TakesCan
      BY <3>1, <3>3 DEF TakesCan
    <3>. QED
      BY <1>1, <3>4
  <2>4. CASE ResponseWrong
    <3>1. Head(toTarget).type # "EOT"
      BY <2>4 DEF ResponseWrong
    <3>2. UNCHANGED <<taken, delivered>>
      BY <2>4, BadTakesNothing DEF ResponseWrong
    <3>3. CountsError
      <4>1. drv = "response" /\ TargetReads /\ bad /\ UNCHANGED <<toHost, r4>>
        BY <2>4 DEF ResponseWrong, response
      <4>. QED
        BY <3>1, <3>2, <4>1, BadTakesNothing DEF CountsError
    <3>. QED
      BY <1>1, <3>3
  <2>5. CASE ResponseDuplicate
    <3>1. Head(toTarget).type = "block" /\ Head(toTarget).num = previous(expected)
      BY <2>5 DEF ResponseDuplicate, blockIs
    <3>2. drv = "response" /\ TargetReads /\ UNCHANGED r4
      BY <2>5 DEF ResponseDuplicate, response
    <3>3. CASE SendToHost(Ack) /\ errors' = 0 /\ UNCHANGED drv
      <4>1. TakesBlock
        <5>1. drv' = "response" /\ UNCHANGED <<taken, delivered>>
          BY <3>2, <3>3, TakesNothing
        <5>. QED
          BY <3>1, <3>2, <3>3, <5>1 DEF SendToHost, TakesBlock
      <4>. QED
        BY <1>1, <4>1
    <3>4. CASE bad /\ UNCHANGED toHost
      <4>1. CountsError
        BY <3>1, <3>2, <3>4, BadTakesNothing DEF CountsError
      <4>. QED
        BY <1>1, <4>1
    <3>. QED
      BY <2>5, <3>3, <3>4 DEF ResponseDuplicate
  <2>6. CASE ResponseNew
    <3>1. Head(toTarget).type = "block" /\ drv = "response" /\ TargetReads /\ r4 \in Int
      BY <2>6 DEF ResponseNew, response, blockIs, Receiving
    <3>2. CASE bad /\ UNCHANGED <<toHost, r4>>
      <4>1. CountsError
        BY <3>1, <3>2, BadTakesNothing DEF CountsError
      <4>. QED
        BY <1>1, <4>1
    <3>3. CASE Head(toTarget).ok /\ r4' = r4 - BlockSize /\ SendToHost(Ack) /\ errors' = 0
               /\ UNCHANGED <<drv, result>>
      <4>1. r4' # r4
        BY <3>1, <3>3, LineAssumption
      <4>2. Accepts
        <5>1. ~(UNCHANGED <<cc, r4, expected, taken>> /\ (Receiving' => Receiving))
          BY <4>1
        <5>. QED
          BY <5>1, AcceptsOrNot
      <4>3. UNCHANGED delivered
        BY <3>1, <3>3 DEF Driver, handOver
      <4>4. TakesBlock
        BY <3>1, <3>3, <4>2, <4>3, SMTT(60) DEF SendToHost, TargetReads, TakesBlock
      <4>. QED
        BY <1>1, <4>4
    <3>. QED
      BY <2>6, <3>2, <3>3 DEF ResponseNew
  <2>7. CASE Drain
    <3>1. drv = "drain" /\ drv' = "drain" /\ TargetReads /\ UNCHANGED <<toHost, errors>>
      BY <2>7 DEF Drain, driverState
    <3>2. UNCHANGED <<taken, delivered>>
      BY <3>1, TakesNothing
    <3>3. Drains
      BY <3>1, <3>2 DEF Drains
    <3>. QED
      BY <1>1, <3>3
  <2>. QED
    BY <1>1, <2>1, <2>2, <2>3, <2>4, <2>5, <2>6, <2>7 DEF Receive
<1>2. CASE TimedOut
  <2>1. toHost = <<>> /\ UNCHANGED faults
    BY <1>2 DEF TimedOut, ServerWaits
  <2>2. CASE SimpleTimeout
    <3>1. drv \in {"open", "ioctl"} /\ drv' = "idle" /\ UNCHANGED <<toHost, toTarget, errors>>
      BY <2>2 DEF SimpleTimeout, returns
    <3>2. UNCHANGED <<taken, delivered>>
      BY <3>1, TakesNothing
    <3>3. EndsSimple
      BY <3>1, <3>2 DEF EndsSimple
    <3>. QED
      BY <2>1, <3>3
  <2>3. CASE ResponseTimeout
    <3>1. drv = "response" /\ toTarget = <<>> /\ bad /\ UNCHANGED <<toHost, toTarget, r4>>
      BY <2>3 DEF ResponseTimeout
    <3>2. CountsError
      BY <2>1, <3>1, BadTakesNothing DEF CountsError
    <3>. QED
      BY <2>1, <3>2
  <2>4. CASE DrainTimeout
    <3>1. drv = "drain" /\ drv' = "response" /\ toTarget = <<>> /\ SendToHost(Nak)
          /\ UNCHANGED <<toTarget, errors>>
      BY <2>4 DEF DrainTimeout
    <3>2. UNCHANGED <<taken, delivered>>
      BY <3>1, TakesNothing
    <3>3. SendsNak
      BY <2>1, <3>1, <3>2 DEF SendToHost, SendsNak
    <3>. QED
      BY <2>1, <3>3
  <2>. QED
    BY <1>2, <2>1, <2>2, <2>3, <2>4 DEF TimedOut, Timeout
<1>. QED
  BY <1>1, <1>2 DEF Driver

\* A block that is acknowledged is the last one that was taken.
LEMMA AcknowledgedLast ==
    ASSUME FrameInv, TransferInv, ShortReads, TakesBlock,
           Head(toTarget).from = position + index
    PROVE  Len(taken') * BlockSize = index + BlockSize
<1>. DEFINE n == Len(taken)
            h == Head(toTarget).num
<1>1. /\ BlockSize \in Nat \ {0} /\ BlockMod \in Nat \ {0, 1} /\ n \in Nat
      /\ position \in Nat /\ index \in Nat
  BY LenProperties, LineAssumption DEF FrameInv
<1>2. /\ cc \in Counts /\ cc \in Nat /\ r4 = cc - n * BlockSize /\ r4 >= 0
      /\ expected = (n + 1) % BlockMod
  BY CallerAssumption, ZenonT(60) DEF TakesBlock, Receiving, TransferInv
<1>3. h \in 1 .. BlockMod - 1 /\ Head(toTarget).from = position + (h - 1) * BlockSize
  <2>1. /\ toTarget \in Seq(TargetFrames) /\ Blocks(toTarget, file, position)
        /\ toTarget # <<>> /\ Head(toTarget).type = "block"
    <3>1. TargetReads /\ Head(toTarget).type = "block"
      BY DEF TakesBlock
    <3>. QED
      BY <3>1 DEF FrameInv, TransferInv, TargetReads
  <2>. QED
    BY <2>1, BlocksTail
<1>4. /\ Accepts => h = expected /\ r4 >= BlockSize /\ Len(taken') = n + 1
      /\ ~Accepts => h = (expected - 1) % BlockMod /\ Len(taken') = n
  <2>1. ASSUME Accepts PROVE h = expected /\ r4 >= BlockSize /\ Len(taken') = n + 1
    <3>. DEFINE e == [file |-> Head(toTarget).file, from |-> Head(toTarget).from]
                S == [file : Int, from : Int]
    <3>1. e \in S
      <4>1. Head(toTarget) \in TargetFrames /\ Head(toTarget).type = "block"
        BY <2>1, TargetGot DEF Accepts
      <4>. QED
        BY <4>1 DEF TargetFrames
    <3>2. taken \in Seq(S) /\ taken' = Append(taken, e)
      BY <2>1 DEF FrameInv, Accepts
    <3>. HIDE DEF e, S
    <3>3. Len(taken') = n + 1
      BY <3>1, <3>2, AppendProperties
    <3>. QED
      BY <2>1, <3>3 DEF Accepts
  <2>2. ASSUME ~Accepts PROVE h = (expected - 1) % BlockMod /\ Len(taken') = n
    BY <2>2 DEF TakesBlock, previous
  <2>. QED
    BY <2>1, <2>2
<1>. HIDE DEF n, h
<1>5. cc < BlockMod * BlockSize /\ n * BlockSize \in Nat /\ BlockMod * BlockSize \in Nat
  BY <1>1, <1>2 DEF ShortReads
<1>6. n < BlockMod
  <2>1. n * BlockSize < BlockMod * BlockSize
    BY <1>2, <1>5
  <2>. QED
    BY <1>1, <2>1, MoreBlocks
<1>7. h = Len(taken')
  <2>1. CASE Accepts
    <3>1. (n + 1) * BlockSize = n * BlockSize + BlockSize
      BY <1>1
    <3>2. (n + 1) * BlockSize < BlockMod * BlockSize
      BY <1>1, <1>2, <1>4, <1>5, <2>1, <3>1
    <3>3. n + 1 < BlockMod
      BY <1>1, <3>2, MoreBlocks
    <3>4. (n + 1) % BlockMod = n + 1
      BY <1>1, <3>3
    <3>. QED
      BY <1>2, <1>4, <2>1, <3>4
  <2>2. CASE ~Accepts
    <3>1. CASE n + 1 < BlockMod
      <4>1. expected = n + 1
        BY <1>1, <1>2, <3>1
      <4>2. (expected - 1) % BlockMod = n
        BY <1>1, <1>6, <4>1
      <4>. QED
        BY <1>4, <2>2, <4>2
    <3>2. CASE n + 1 = BlockMod
      <4>1. expected = 0
        BY <1>1, <1>2, <3>2
      <4>2. (-1) % BlockMod = BlockMod - 1
        BY <1>1
      <4>3. (expected - 1) % BlockMod = n
        BY <1>1, <3>2, <4>1, <4>2
      <4>. QED
        BY <1>4, <2>2, <4>3
    <3>. QED
      BY <1>1, <1>6, <3>1, <3>2
  <2>. QED
    BY <2>1, <2>2
<1>8. index = (h - 1) * BlockSize
  <2>1. (h - 1) * BlockSize \in Int
    BY <1>1, <1>3
  <2>. QED
    BY <1>1, <1>3, <2>1
<1>9. (h - 1) * BlockSize + BlockSize = h * BlockSize
  BY <1>1, <1>3
<1>. QED
  BY <1>7, <1>8, <1>9

\* The driver counts no error in a call that has the whole payload but for a
\* fault of its own.
LEMMA ErrorHasFault ==
    ASSUME FrameInv, TokenInv, CommitInv, srv = "eot", Started, CountsError
    PROVE  errors + 1 <= faults
<1>1. Len(toTarget) <= 1 /\ errors + Missing <= faults /\ errors \in Nat /\ faults \in Nat
  BY DEF CommitInv
<1>2. ~Has(toTarget, {"EOT"}) /\ ~Has(toHost, {"NAK"})
  <2>1. CASE toTarget = <<>> /\ toHost = <<>>
    BY <2>1, NoFrames
  <2>2. CASE TargetReads /\ Head(toTarget).type # "EOT"
    <3>1. toTarget \in Seq(TargetFrames) /\ toTarget # <<>>
      BY <2>2 DEF FrameInv, TargetReads
    <3>2. Len(toTarget) = 1 /\ Head(toTarget) = toTarget[1]
      <4>1. Len(toTarget) \in Nat \ {0}
        BY <3>1, EmptySeq
      <4>2. Len(toTarget) = 1
        BY <1>1, <4>1
      <4>3. Head(toTarget) = toTarget[1]
        BY <3>1
      <4>. QED
        BY <4>2, <4>3
    <3>3. ~Has(toTarget, {"EOT"})
      BY <2>2, <3>2 DEF Has
    <3>. QED
      BY <3>1, <3>3 DEF TokenInv
  <2>. QED
    BY <2>1, <2>2 DEF CountsError
<1>3. Missing = 1
  BY <1>2, SMTT(60) DEF Missing, CountsError
<1>. QED
  BY <1>1, <1>3

\* A call that ends with EOT delivers the blocks it took.
LEMMA EotDelivers ==
    ASSUME FrameInv, TransferInv, TakesEot, taken # <<>>
    PROVE  delivered' = position + Len(taken) * BlockSize
<1>1. Receiving
  BY DEF TakesEot, Receiving
<1>2. Len(taken) \in Nat \ {0} /\ BlockSize \in Nat \ {0} /\ cc \in Nat /\ position \in Nat
  BY <1>1, EmptySeq, LineAssumption, CallerAssumption DEF FrameInv, TransferInv
<1>. DEFINE k == Len(taken) * BlockSize
<1>3. k \in Nat /\ k > 0
  BY <1>2
<1>4. r4 = cc - k
  BY <1>1 DEF TransferInv
<1>5. taken[1].from = position
  <2>a. \A i \in 1 .. Len(taken) :
           taken[i] = [file |-> file, from |-> position + (i - 1) * BlockSize]
    BY <1>1 DEF TransferInv, InOrder, Receiving
  <2>b. 1 \in 1 .. Len(taken)
    BY <1>2
  <2>1. taken[1] = [file |-> file, from |-> position + (1 - 1) * BlockSize]
    BY <2>a, <2>b
  <2>2. position + (1 - 1) * BlockSize = position
    BY <1>2
  <2>. QED
    BY <2>1, <2>2, SMTT(60)
<1>. HIDE DEF k
<1>6. cc - r4 = k /\ cc - r4 > 0
  BY <1>2, <1>3, <1>4
<1>7. delivered' = position + k
  BY <1>5, <1>6 DEF TakesEot
<1>. QED
  BY <1>7 DEF k

LEMMA CommitDriver ==
    ASSUME FrameInv, TokenInv, TransferInv, CommitInv, Driver,
           "late" \notin FaultKinds, ShortReads, MaxFaults <= MaxErrors
    PROVE  CommitInv'
<1>0. UNCHANGED <<srv, position, sequence, pendLen, index>>
  BY DEF Driver, serverState
<1>1. /\ UNCHANGED faults
      /\ \/ TakesEot \/ TakesBlock \/ CountsError \/ TakesCan \/ Drains \/ SendsNak \/ EndsSimple
  <2>1. Receiving => r4 \in Int
    <3>1. Len(taken) \in Nat /\ BlockSize \in Nat
      BY LenProperties, LineAssumption DEF FrameInv
    <3>2. Len(taken) * BlockSize \in Nat
      BY <3>1
    <3>3. cc \in Counts => cc \in Nat
      BY CallerAssumption
    <3>. QED
      BY <3>2, <3>3 DEF TransferInv
  <2>. QED
    BY <2>1, DriverSteps
<1>2. toTarget \in Seq(TargetFrames) /\ position \in Nat /\ pendLen \in Nat /\ index \in Nat
      /\ BlockSize \in Nat \ {0} /\ Len(taken) \in Nat /\ delivered \in Nat /\ position <= delivered
  BY LenProperties, LineAssumption DEF FrameInv, CommitInv
<1>3. TokenLast(toTarget') /\ (srv = "block" => BlockFrom(toTarget', position + index))
  <2>1. CASE toTarget' = toTarget
    BY <2>1 DEF CommitInv
  <2>2. CASE TargetReads
    BY <1>2, <2>2, LastTail DEF TargetReads, CommitInv
  <2>. QED
    BY <2>1, <2>2, DriverLine
<1>4. Has(toTarget, {"EOT"}) => srv \in {"eot", "dead"}
  BY DEF TokenInv
<1>5. TakesEot => srv \in {"eot", "dead"} /\ Receiving
  <2>1. TakesEot => TargetReads /\ Head(toTarget).type \in {"EOT"}
    BY DEF TakesEot
  <2>2. TakesEot => Has(toTarget, {"EOT"})
    BY <2>1, TargetGot
  <2>. QED
    BY <1>4, <2>2 DEF TakesEot, Receiving
<1>6. TakesBlock => srv # "eot"
  <2>1. TakesBlock => TargetReads /\ Head(toTarget).type \in {"block"}
    BY DEF TakesBlock
  <2>2. TakesBlock => Has(toTarget, {"block"})
    BY <2>1, TargetGot
  <2>. QED
    BY <2>2 DEF TokenInv
<1>7. \/ delivered' = delivered
      \/ TakesEot /\ taken # <<>> /\ delivered' = position + Len(taken) * BlockSize
  <2>1. TakesBlock \/ CountsError \/ TakesCan \/ Drains \/ SendsNak \/ EndsSimple =>
           delivered' = delivered
    BY DEF TakesBlock, CountsError, TakesCan, Drains, SendsNak, EndsSimple
  <2>2. ASSUME TakesEot, delivered' # delivered
        PROVE  taken # <<>> /\ delivered' = position + Len(taken) * BlockSize
    BY <2>2, EotDelivers DEF TakesEot
  <2>. QED
    BY <1>1, <2>1, <2>2
<1>8. delivered' \in Nat /\ position <= delivered' /\ errors' \in Nat
  <2>1. Len(taken) * BlockSize \in Nat
    BY <1>2
  <2>2. errors' \in Nat
    <3>1. TakesEot \/ TakesCan \/ Drains \/ SendsNak \/ EndsSimple => errors' = errors
      BY DEF TakesEot, TakesCan, Drains, SendsNak, EndsSimple
    <3>2. TakesBlock => errors' = 0
      BY DEF TakesBlock
    <3>3. CountsError => errors' = errors + 1
      BY DEF CountsError
    <3>4. errors \in Nat
      BY DEF CommitInv
    <3>. QED
      BY <1>1, <3>1, <3>2, <3>3, <3>4
  <2>. QED
    BY <1>2, <1>7, <2>1, <2>2
<1>9. ASSUME srv = "block", Has(toHost', {"ACK"})
      PROVE  /\ drv' = "response" /\ toTarget' = <<>> /\ errors' = 0
             /\ Len(taken') * BlockSize = index + BlockSize
  <2>1. ~TakesEot
    BY <1>5, <1>9
  <2>2. CASE TakesBlock
    <3>1. /\ toTarget # <<>> /\ toTarget' = Tail(toTarget) /\ Head(toTarget).type = "block"
          /\ drv' = "response" /\ errors' = 0
      BY <2>2 DEF TakesBlock, TargetReads
    <3>2. TokenLast(toTarget) /\ BlockFrom(toTarget, position + index)
      BY <1>9 DEF CommitInv
    <3>3. Tail(toTarget) = <<>> /\ Head(toTarget).from = position + index
      BY <1>2, <3>1, <3>2, LastTail
    <3>. QED
      BY <2>2, <3>1, <3>3, AcknowledgedLast
  <2>3. CASE ~TakesBlock
    <3>1. Has(toHost, {"ACK"})
      <4>1. CASE toHost' = toHost
        BY <1>9, <4>1
      <4>2. CASE SendsNak
        <5>1. Nak.type \notin {"ACK"} /\ Nak \in HostFrames
          BY Bytes
        <5>. QED
          BY <1>9, <4>2, <5>1, HostSent DEF SendsNak
      <4>3. CountsError \/ TakesCan \/ Drains \/ EndsSimple => toHost' = toHost
        BY DEF CountsError, TakesCan, Drains, EndsSimple
      <4>. QED
        BY <1>1, <2>1, <2>3, <4>1, <4>2, <4>3
    <3>2. drv = "response" /\ toTarget = <<>>
      BY <1>9, <3>1 DEF CommitInv
    <3>3. toHost # <<>>
      BY <3>1, NoFrames
    <3>4. ~(TakesCan \/ Drains \/ SendsNak \/ EndsSimple \/ CountsError)
      BY <3>2, <3>3 DEF CountsError, TakesCan, Drains, SendsNak, EndsSimple, TargetReads
    <3>. QED
      BY <1>1, <2>1, <2>3, <3>4
  <2>. QED
    BY <2>2, <2>3
<1>10. ASSUME srv \in {"command", "partial"} PROVE position + pendLen <= delivered'
  BY <1>5, <1>7, <1>10 DEF CommitInv
<1>11. ASSUME srv = "eot", ~Started PROVE ~Started' /\ position + pendLen <= delivered'
  <2>1. delivered' = delivered
    BY <1>5, <1>7, <1>11 DEF Started
  <2>2. ~Started'
    <3>1. TakesEot \/ TakesCan \/ EndsSimple => taken' = taken /\ drv' = "idle"
      BY DEF TakesEot, TakesCan, EndsSimple
    <3>2. CountsError \/ Drains \/ SendsNak => taken' = taken /\ Receiving
      BY DEF CountsError, Drains, SendsNak, Receiving
    <3>3. taken' = taken /\ (drv' = "idle" \/ Receiving)
      BY <1>1, <1>6, <1>11, <3>1, <3>2
    <3>. QED
      BY <1>11, <3>3 DEF Started, Receiving
  <2>. QED
    BY <1>11, <2>1, <2>2 DEF CommitInv
<1>12. ASSUME srv = "eot", Started
       PROVE  /\ ~Started' => position + pendLen <= delivered'
              /\ Started' => /\ Len(taken') * BlockSize = pendLen
                             /\ Len(toTarget') <= 1 /\ ~Has(toTarget', {"ACK", "CAN"})
                             /\ errors' + Missing' <= faults
  <2>1. /\ Len(taken) * BlockSize = pendLen /\ Len(toTarget) <= 1
        /\ ~Has(toTarget, {"ACK", "CAN"}) /\ errors + Missing <= faults
        /\ errors \in Nat /\ faults \in Nat /\ faults <= MaxFaults
    BY <1>12 DEF CommitInv
  <2>2. errors <= faults
    <3>1. Missing \in {0, 1}
      BY DEF Missing
    <3>. QED
      BY <2>1, <3>1
  <2>3. ~TakesCan
    <3>1. TakesCan => TargetReads /\ Head(toTarget).type \in {"ACK", "CAN"}
      BY DEF TakesCan
    <3>. QED
      BY <2>1, <3>1, TargetGot
  <2>4. ~EndsSimple /\ ~TakesBlock
    BY <1>6, <1>12 DEF EndsSimple, Started, Receiving
  <2>5. Len(toTarget') <= 1 /\ ~Has(toTarget', {"ACK", "CAN"})
    <3>1. CASE toTarget' = toTarget
      BY <2>1, <3>1
    <3>2. CASE TargetReads
      <4>1. Len(toTarget') = Len(toTarget) - 1 /\ Len(toTarget) \in Nat
        BY <1>2, <3>2, HeadTailProperties, LenProperties DEF TargetReads
      <4>2. Len(toTarget') <= 1
        BY <2>1, <4>1
      <4>. QED
        BY <2>1, <3>2, <4>2, TargetGot
    <3>. QED
      BY <3>1, <3>2, DriverLine
  <2>6. CASE TakesEot
    <3>1. ~Started'
      BY <2>6 DEF TakesEot, Started, Receiving
    <3>2. delivered' = position + pendLen
      BY <1>12, <2>1, <2>6, EotDelivers DEF Started
    <3>. QED
      BY <1>2, <3>1, <3>2
  <2>7. CASE CountsError
    <3>1. errors + 1 <= faults
      BY <1>12, <2>7, ErrorHasFault
    <3>2. errors + 1 <= MaxErrors
      BY <2>1, <3>1, LineAssumption, DriverAssumption
    <3>3. drv' = "drain" /\ errors' = errors + 1 /\ taken' = taken
      BY <2>1, <2>7, <3>2, DriverAssumption DEF CountsError
    <3>4. Started'
      BY <1>12, <3>3 DEF Started, Receiving
    <3>5. Missing' = 0
      BY <3>3 DEF Missing
    <3>6. errors' + Missing' <= faults
      BY <2>1, <3>1, <3>3, <3>5
    <3>. QED
      BY <2>1, <2>5, <3>3, <3>4, <3>6
  <2>8. CASE Drains \/ SendsNak
    <3>1. taken' = taken /\ errors' = errors /\ Receiving'
      BY <2>8 DEF Drains, SendsNak, Receiving
    <3>2. Started'
      BY <1>12, <3>1 DEF Started
    <3>3. Missing' = 0
      <4>1. CASE Drains
        BY <4>1 DEF Drains, Missing
      <4>2. CASE SendsNak
        <5>1. Has(toHost', {"NAK"})
          BY <4>2, HostSent, Bytes DEF SendsNak
        <5>. QED
          BY <5>1 DEF Missing
      <4>. QED
        BY <2>8, <4>1, <4>2
    <3>4. errors' + Missing' <= faults
      BY <2>1, <2>2, <3>1, <3>3
    <3>. QED
      BY <2>1, <2>5, <3>1, <3>2, <3>4
  <2>. QED
    BY <1>1, <2>3, <2>4, <2>6, <2>7, <2>8
<1>13. sequence = None => position = 0 /\ pendLen = 0 /\ srv # "eot"
  BY DEF CommitInv
<1>14. faults \in Nat /\ faults <= MaxFaults
  BY DEF CommitInv
<1>. QED
  BY <1>0, <1>1, <1>3, <1>8, <1>9, <1>10, <1>11, <1>12, <1>13, <1>14 DEF CommitInv

CommitAll == TapeInv /\ CommitInv

LEMMA CommitInit == Init => CommitAll
<1>. SUFFICES ASSUME Init PROVE CommitAll
  OBVIOUS
<1>1. TapeInv
  BY TapeInit
<1>2. /\ srv = "command" /\ drv = "idle" /\ toTarget = <<>> /\ errors = 0 /\ faults = 0
      /\ delivered = 0 /\ position = 0 /\ pendLen = 0
  BY DEF Init, ServerInit, DriverInit, LineInit
<1>3. TokenLast(toTarget)
  BY <1>2 DEF TokenLast
<1>. QED
  BY <1>1, <1>2, <1>3, LineAssumption, SMTT(60) DEF CommitAll, CommitInv

LEMMA CommitStep ==
    ASSUME "late" \notin FaultKinds, ShortReads, MaxFaults <= MaxErrors, CommitAll, [Next]_vars
    PROVE  CommitAll'
<1>0. FrameInv /\ TokenInv /\ TransferInv /\ CommitInv /\ TapeInv
  BY DEF CommitAll, TapeInv
<1>1. TapeInv'
  BY <1>0, TapeStep
<1>2. CASE Caller
  BY <1>0, <1>1, <1>2, CommitCaller DEF CommitAll
<1>3. CASE Driver
  BY <1>0, <1>1, <1>3, CommitDriver DEF CommitAll
<1>4. CASE Server
  BY <1>0, <1>1, <1>4, CommitServer DEF CommitAll
<1>5. CASE Line
  BY <1>0, <1>1, <1>5, CommitLine DEF CommitAll
<1>6. CASE UNCHANGED vars
  <2>1. CommitInv'
    BY <1>0, <1>6 DEF CommitInv, Started, Missing, Receiving, TokenLast, BlockFrom, vars,
                      lineVars, serverState, driverState, callerVars, history
  <2>. QED
    BY <1>1, <2>1 DEF CommitAll
<1>. QED
  BY <1>2, <1>3, <1>4, <1>5, <1>6 DEF Next

\* serve() moves position past a payload only after a strategy call returned
\* that payload, for every tape, every count and any number of calls.  The
\* line must not have more faults than the driver tolerates in a row: a call
\* given up after its last block leaves the server at EOT, and if the next
\* request is lost as well, its NAK brings an EOT that completes the payload
\* for nobody.
THEOREM CommittedWasDeliveredHolds ==
    ASSUME "late" \notin FaultKinds, ShortReads, MaxFaults <= MaxErrors
    PROVE  Spec => []CommittedWasDelivered
<1>1. CommitAll => CommittedWasDelivered
  BY DEF CommitAll, CommitInv, CommittedWasDelivered
<1>2. CommitAll /\ [Next]_vars => CommitAll'
  BY CommitStep
<1>. QED
  BY <1>1, <1>2, CommitInit, PTL DEF Spec
=============================================================================
