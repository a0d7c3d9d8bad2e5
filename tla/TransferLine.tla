---------------------------- MODULE TransferLine ----------------------------
(***************************************************************************)
(* The terminal line between two ZEUS systems over which files are         *)
(* transferred: characters of the protocol and of the files, one queue in  *)
(* each direction, and a bounded number of characters lost or damaged.     *)
(* A block of a file is one character here, so that its checksum (the      *)
(* exclusive or of its characters) is that character.                      *)
(***************************************************************************)
EXTENDS Integers, Sequences, SequencesExt

CONSTANTS
    Files,        \* the files asked for: [name, text, bin, query]
    Jobs,         \* what the distant system runs: "put" or "get"
    Retries,      \* RETRIES
    RecSiz,       \* RECSIZ, the disk record of the program remote
    MaxFaults,    \* bound: characters lost or damaged, failures of the system
    MaxAborts     \* bound: times the user asks for the end of a transfer

VARIABLES
    up, down,     \* characters on their way to, and from, the local system
    faults,       \* what remains of MaxFaults
    hung          \* a character that is waited for without a clock did not come

lineVars == <<up, down, faults, hung>>

Names == {Files[k].name : k \in DOMAIN Files}

Noise == "?"

Chars == UNION {Range(Files[k].text) : k \in DOMAIN Files} \cup Names \cup
    {"SOH", "ESC", "L", "S", "Q", "K", "STX", "ETX", "EOT", "ACK", "NAK", "CAN",
     "EXEC", "q0", "q1", "1", "cr", "msg", Noise}

\* The number of characters that a count stands for: what is no count stands
\* for more characters than follow, noise for none.
Count(c) == CASE c = "1" -> 1 [] c = Noise -> 0 [] OTHER -> 4

\* A record: start of text, count, data, end of text and checksum.
Record(d) == <<"STX", "1", d, "ETX", d>>

\* A file name, with its checksum
Name(n) == <<"STX", n, "ETX", n>>

Damaged(s) ==
    {RemoveAt(s, i) : i \in DOMAIN s}
      \cup {[s EXCEPT ![i] = Noise] : i \in DOMAIN s}

InitLine ==
    /\ up = <<>>
    /\ down = <<>>
    /\ faults = MaxFaults
    /\ hung = FALSE

Fault == faults > 0 /\ faults' = faults - 1

\* Send s.  timed: whoever waits for s, or for the answer to it, has set an
\* alarm clock.
ToLocal(s, timed) ==
    \/ up' = up \o s /\ UNCHANGED <<faults, hung>>
    \/ Fault /\ hung' = (hung \/ ~timed) /\ \E d \in Damaged(s) : up' = up \o d

ToDistant(s, timed) ==
    \/ down' = down \o s /\ UNCHANGED <<faults, hung>>
    \/ Fault /\ hung' = (hung \/ ~timed) /\ \E d \in Damaged(s) : down' = down \o d

=============================================================================
