------------------------------- MODULE Varint -------------------------------
(***************************************************************************)
(* Variable byte integers (src/src/mqtt_proto.rs).  A byte carries one     *)
(* digit in base Radix, least significant first, and Radix itself is the   *)
(* continuation bit: Radix = 128 and MaxVarint = 4 in the code.            *)
(***************************************************************************)
EXTENDS Integers, SequencesExt

CONSTANTS
    Radix,              \* what one byte counts
    MaxVarint           \* DEFAULT_REMAINING_LENGTH_FIELD_MAX_LENGTH

ASSUME VarintAssumption == Radix \in Nat \ {0, 1} /\ MaxVarint \in Nat \ {0}

Bytes == 0 .. (2 * Radix - 1)
Continues(byte) == byte >= Radix

\* The loop of encode_varint, without its limit.
encode_varint[n \in Nat] ==
    IF n < Radix THEN <<n>> ELSE <<(n % Radix) + Radix>> \o encode_varint[n \div Radix]

\* EncodeError::VarintTooHigh otherwise.
Encodable(n) == Len(encode_varint[n]) <= MaxVarint

\* Where decode_varint stops in s, of which it looks at no more than MaxVarint bytes.
Ends(s) == {i \in DOMAIN s : i <= MaxVarint /\ ~Continues(s[i])}
TooHigh(s) == Len(s) >= MaxVarint /\ Ends(s) = {}
Complete(s) == Ends(s) # {}
VarintLen(s) == Min(Ends(s))

\* Fault: the digits are read most significant first.
decode_varintBigEndian(s) ==
    FoldLeft(LAMBDA acc, byte : acc * Radix + (byte % Radix), 0, SubSeq(s, 1, VarintLen(s)))

\* The value of decode_varint for a complete s.
decode_varint(s) ==
    FoldRight(LAMBDA byte, acc : acc * Radix + (byte % Radix), SubSeq(s, 1, VarintLen(s)), 0)
=============================================================================
