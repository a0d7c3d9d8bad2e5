------------------------------ MODULE CtDriver ------------------------------
(***************************************************************************)
(* The System 8000 side of the serial installer: the replacement ct.o,     *)
(* src/serial_installer/serial_ct.s with xmodem_receive.inc.  The driver   *)
(* runs with the processor to itself; drv says in which GETBYTE it is      *)
(* polling the UART, or that no call is in progress.                       *)
(***************************************************************************)
EXTENDS SerialLine

CONSTANTS
    MaxErrors,      \* the limit rh3 is compared with (10)
    MemTop          \* bound: highest address of the memory around the buffer

ASSUME DriverAssumption ==
    /\ MaxErrors \in Nat \ {0}
    /\ MemTop \in Nat

VARIABLES
    drv,            \* "idle" or the wait the call is in
    cc,             \* I_CC: the byte count of the strategy call
    r4,             \* bytes still to be received
    r5,             \* where the next byte is stored; the buffer (I_MA) is at 0
    expected,       \* rh2: expected block number
    errors,         \* rh3: consecutive damaged packets
    mem,            \* memory from the buffer upwards
    result          \* r2 of the last call, with the entry point that returned it

driverState == <<drv, cc, r4, r5, expected, errors, mem, result>>
driverVars == <<toHost, toTarget, drv, cc, r4, r5, expected, errors, mem, result>>

\* A byte of memory is <<file, offset>>: where on the tape it came from.
Untouched == <<-2, 0>>
Garbage == <<-3, 0>>

DriverInit ==
    /\ drv = "idle"
    /\ cc = 0 /\ r4 = 0 /\ r5 = 0
    /\ expected = 1 /\ errors = 0
    /\ mem = [a \in 0..MemTop |-> Untouched]
    /\ result = [entry |-> "none", value |-> 0]

returns(entry, value) ==
    /\ drv' = "idle"
    /\ result' = [entry |-> entry, value |-> value]

(***************************************************************************)
(* _ctopen, _ctclose, _ctioctl and the entry of _ctstrategy.               *)
(***************************************************************************)
CtOpen(f) ==
    /\ drv = "idle"
    /\ drv' = "open"
    /\ SendToHost(OpenFrame(3, f))
    /\ UNCHANGED <<toTarget, cc, r4, r5, expected, errors, mem, result>>

CtClose ==
    /\ drv = "idle"
    /\ SendToHost(Can)
    /\ returns("close", 0)
    /\ UNCHANGED <<toTarget, cc, r4, r5, expected, errors, mem>>

CtIoctl(cmd, count) ==
    /\ drv = "idle"
    /\ \/ cmd # 6 /\ returns("ioctl", -1) /\ UNCHANGED toHost
       \/ /\ cmd = 6
          /\ drv' = "ioctl"
          /\ SendToHost(SpaceFrame(count))
          /\ UNCHANGED result
    /\ UNCHANGED <<toTarget, cc, r4, r5, expected, errors, mem>>

CtStrategy(mode, offset, count) ==
    /\ drv = "idle"
    /\ \/ /\ mode # "READ" /\ returns("strategy", -1)
          /\ UNCHANGED <<toHost, cc, r4, r5, expected, errors, mem>>
       \/ /\ mode = "READ"
          /\ drv' = "response"
          /\ cc' = count
          /\ r4' = count
          /\ r5' = 0
          /\ expected' = 1
          /\ errors' = 0
          /\ mem' = [a \in 0..MemTop |-> Untouched]
          /\ SendToHost(ReadFrame(offset, count))
          /\ UNCHANGED result
    /\ UNCHANGED toTarget

(***************************************************************************)
(* One GETBYTE answers an open or an ioctl: ACK is success, a time-out or  *)
(* any other byte is failure.                                              *)
(***************************************************************************)
SimpleReply ==
    /\ drv \in {"open", "ioctl"}
    /\ TargetReads
    /\ returns(drv, IF Head(toTarget) = Ack THEN 0 ELSE -1)
    /\ UNCHANGED <<toHost, cc, r4, r5, expected, errors, mem>>

SimpleTimeout ==
    /\ drv \in {"open", "ioctl"}
    /\ toTarget = <<>>
    /\ returns(drv, -1)
    /\ UNCHANGED <<toHost, toTarget, cc, r4, r5, expected, errors, mem>>

(***************************************************************************)
(* .Lresponse: what the first byte of a response leads to.                 *)
(***************************************************************************)
\* MUTANT: damaged packets are not counted.
bad_uncounted == drv' = "drain" /\ UNCHANGED <<errors, result>>

\* .Lbad: count the error and give up, or go and drain the line.
bad ==
    /\ errors' = errors + 1
    /\ \/ errors + 1 > MaxErrors /\ returns("strategy", -1)
       \/ errors + 1 <= MaxErrors /\ drv' = "drain" /\ UNCHANGED result

previous(n) == (n - 1) % BlockMod

\* .Lcopy stores the payload bytes as they arrive, before the CRC is seen.
store(frame, n) ==
    /\ mem' = [a \in 0..MemTop |->
                 IF a \in r5..(r5 + n - 1)
                 THEN IF frame.ok THEN <<frame.file, frame.from + (a - r5)>> ELSE Garbage
                 ELSE mem[a]]
    /\ r5' = r5 + n

response == drv = "response" /\ TargetReads
\* MUTANT: the block number is not compared.
blockIs_anyNumber(n) == Head(toTarget).type = "block"

blockIs(n) == Head(toTarget).type = "block" /\ Head(toTarget).num = n

ResponseTimeout ==
    /\ drv = "response"
    /\ toTarget = <<>>
    /\ bad
    /\ UNCHANGED <<toHost, toTarget, cc, r4, r5, expected, mem>>

\* .Leot
ResponseEot ==
    /\ response
    /\ Head(toTarget).type = "EOT"
    /\ SendToHost(Ack)
    /\ returns("strategy", cc - r4)
    /\ UNCHANGED <<cc, r4, r5, expected, errors, mem>>

ResponseCan ==
    /\ response
    /\ Head(toTarget).type = "CAN"
    /\ returns("strategy", -1)
    /\ UNCHANGED <<toHost, cc, r4, r5, expected, errors, mem>>

\* Neither SOH, EOT nor CAN, a bad complement, or an unexpected block number.
ResponseWrong ==
    /\ response
    /\ \/ Head(toTarget).type \notin {"EOT", "CAN", "block"}
       \/ /\ Head(toTarget).type = "block"
          /\ Head(toTarget).num \notin {expected, previous(expected)}
    /\ bad
    /\ UNCHANGED <<toHost, cc, r4, r5, expected, mem>>

\* A repeat of the preceding block: .Ldiscard.
ResponseDuplicate ==
    /\ response
    /\ blockIs(previous(expected))
    /\ \/ /\ Head(toTarget).ok
          /\ SendToHost(Ack)
          /\ errors' = 0
          /\ UNCHANGED <<drv, result>>
       \/ ~Head(toTarget).ok /\ bad /\ UNCHANGED toHost
    /\ UNCHANGED <<cc, r4, r5, expected, mem>>

\* The expected block: .Lnew, .Lcopy and the CRC comparison.
ResponseNew ==
    /\ response
    /\ blockIs(expected)
    /\ LET frame == Head(toTarget) IN
         \/ /\ r4 < BlockSize
            /\ bad
            /\ UNCHANGED <<toHost, r4, r5, expected, mem>>
         \/ /\ r4 >= BlockSize /\ ~frame.ok
            /\ store(frame, frame.arrived)
            /\ bad
            /\ UNCHANGED <<toHost, r4, expected>>
         \/ /\ r4 >= BlockSize /\ frame.ok
            /\ store(frame, BlockSize)
            /\ SendToHost(Ack)
            /\ expected' = (expected + 1) % BlockMod
            /\ errors' = 0
            /\ r4' = r4 - BlockSize
            /\ UNCHANGED <<drv, result>>
    /\ UNCHANGED cc

(***************************************************************************)
(* .Ldrain: read until a whole time-out passes without a byte, then NAK.   *)
(***************************************************************************)
Drain ==
    /\ drv = "drain"
    /\ TargetReads
    /\ UNCHANGED <<toHost, driverState>>

DrainTimeout ==
    /\ drv = "drain"
    /\ toTarget = <<>>
    /\ drv' = "response"
    /\ SendToHost(Nak)
    /\ UNCHANGED <<toTarget, cc, r4, r5, expected, errors, mem, result>>

Timeout == SimpleTimeout \/ ResponseTimeout \/ DrainTimeout

Receive ==
    \/ SimpleReply \/ ResponseEot \/ ResponseCan \/ ResponseWrong
    \/ ResponseDuplicate \/ ResponseNew \/ Drain
=============================================================================
