---------------------------- MODULE CommandCodec ----------------------------
(***************************************************************************)
(* Commands as bytes (src/src/kvstore/Command.cpp).  A buffer is the       *)
(* sequence of what the helpers write into it: one element per integer and *)
(* one per character.  An integer that is cut off in the middle reads as   *)
(* one that is missing, as each helper checks its whole width.             *)
(***************************************************************************)
EXTENDS Integers, Sequences

\* CommandType
TypeByte == [PUT |-> 1, APPEND |-> 2, GET |-> 3]

write_meta(command) == <<command.client, command.seq>>

write_string(str) == <<Len(str)>> \o str

\* Mutant: the value of an APPEND is forgotten, as it is for a GET.
HasValueIfPut(op) == op = "PUT"

\* PUT and APPEND carry a value.
HasValue(op) == op # "GET"

serialize(command) ==
    <<TypeByte[command.op]>>
        \o write_meta(command)
        \o write_string(command.key)
        \o (IF HasValue(command.op) THEN write_string(command.value) ELSE <<>>)

----------------------------------------------------------------------------
\* Mutant: the length that is read is not compared with what is left.
LengthIsThere(in, offset) == offset <= Len(in)

\* read_string throws on a buffer without a string at this offset.
HasString(in, offset) == offset <= Len(in) /\ offset + in[offset] <= Len(in)

read_string(in, offset) == SubSeq(in, offset + 1, offset + in[offset])

AfterString(in, offset) == offset + in[offset] + 1

\* The offset of the key, after the type and the two integers of the meta data.
KeyOffset == 4

\* deserialize throws on any other buffer; what follows the command is ignored.
CanDeserialize(bytes) ==
    /\ KeyOffset - 1 <= Len(bytes)
    /\ HasString(bytes, KeyOffset)
    /\ \E op \in DOMAIN TypeByte :
          /\ bytes[1] = TypeByte[op]
          /\ HasValue(op) => HasString(bytes, AfterString(bytes, KeyOffset))

deserialize(bytes) ==
    LET op  == CHOOSE o \in DOMAIN TypeByte : TypeByte[o] = bytes[1]
        key == read_string(bytes, KeyOffset)
    IN  IF HasValue(op)
        THEN [op |-> op, client |-> bytes[2], seq |-> bytes[3], key |-> key,
              value |-> read_string(bytes, AfterString(bytes, KeyOffset))]
        ELSE [op |-> op, client |-> bytes[2], seq |-> bytes[3], key |-> key]
=============================================================================
