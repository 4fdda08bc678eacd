-------------------------------- MODULE Wire --------------------------------
(***************************************************************************)
(* The protocol buffer wire format, as the generated codecs read and write *)
(* it.  A message's bytes are a sequence of fields.  A field has a number, *)
(* a wire type, a value (a number for a varint, bytes or a message's       *)
(* fields for a length-delimited one) and the number of bytes it takes.    *)
(* The field Cut stands for bytes no decoder can read: they end in the     *)
(* middle of a field, or a number or a length in them overflows.           *)
(*                                                                         *)
(* The codecs differ in what they do with a field.  What they share, and   *)
(* what is generated anew for each message, is Unmarshal.                  *)
(***************************************************************************)
EXTENDS Integers, SequencesExt

CONSTANTS
  VarintBase,  \* what a byte of a varint can tell apart: 128 in the code
  Uint32,      \* what a uint32 can tell apart: 2^32 in the code
  Nil          \* a nil slice, number or message

ASSUME WireAssumptions ==
  /\ VarintBase \in Nat \ {0, 1}
  /\ Uint32 \in Nat \ {0}

\* The wire types.
VARINT == 0
FIXED64 == 1
BYTES == 2
SGROUP == 3
EGROUP == 4
FIXED32 == 5
NONE == 8

-----------------------------------------------------------------------------
(* Writing *)

\* sovTx: the bytes of a varint.
sov[x \in Nat] == IF x < VarintBase THEN 1 ELSE 1 + sov[x \div VarintBase]

\* len: a nil slice is as long as an empty one.
ByteLen(b) == IF b = Nil THEN 0 ELSE Len(b)

\* A length-delimited field of n bytes: a key of one byte, the length, the bytes.
DelimitedSize(n) == 1 + sov[n] + n

\* The bytes a sequence of fields takes.
WireLen(w) == FoldLeft(LAMBDA n, f : n + f.len, 0, w)

Varint(num, v) == [num |-> num, wt |-> VARINT, val |-> v, len |-> 1 + sov[v]]
Delimited(num, b) == [num |-> num, wt |-> BYTES, val |-> b, len |-> DelimitedSize(Len(b))]
Embedded(num, w) == [num |-> num, wt |-> BYTES, val |-> w, len |-> DelimitedSize(WireLen(w))]
Bare(num, wt) == [num |-> num, wt |-> wt, val |-> 0, len |-> 1]
Cut == Bare(0, NONE)

\* A field that is written only if the condition holds.
Optional(written, field) == IF written THEN <<field>> ELSE <<>>

-----------------------------------------------------------------------------
(* Reading.  A decoder's state: whether no error was met, how many unknown   *)
(* groups are open, the message so far, and the fields that were skipped.    *)

\* skipTx, one field at a time.  The number that ends a group is not compared with
\* the one that started it.
skip(s, f) ==
  [s EXCEPT !.ok = f.wt \in VARINT .. FIXED32,
            !.depth = CASE f.wt = SGROUP -> @ + 1 [] f.wt = EGROUP -> @ - 1 [] OTHER -> @,
            !.unknown = Append(@, f)]

\* The loop of every generated Unmarshal.  The numbers are the message's, and Field
\* decodes a field that has one of them into the message.
Unmarshal(m, w, numbers, Field(_, _)) ==
  LET step(s, f) ==
        IF ~s.ok \/ f.wt = NONE \/ (s.depth = 0 /\ (f.wt = EGROUP \/ f.num <= 0))
        THEN [s EXCEPT !.ok = FALSE]
        ELSE IF s.depth = 0 /\ f.num \in numbers
        THEN LET r == Field(s.msg, f) IN [s EXCEPT !.ok = r.ok, !.msg = r.msg]
        ELSE skip(s, f)
      end == FoldLeft(step, [ok |-> TRUE, depth |-> 0, msg |-> m, unknown |-> <<>>], w)
  IN  [end EXCEPT !.ok = @ /\ end.depth = 0]

\* The cases of a field's switch.  Each starts with the test of the wire type.
SetField(x, name, f, wt, v) ==
  IF f.wt # wt THEN [ok |-> FALSE, msg |-> x]
  ELSE [ok |-> TRUE, msg |-> [x EXCEPT ![name] = v]]

AppendField(x, name, f) ==
  IF f.wt # BYTES THEN [ok |-> FALSE, msg |-> x]
  ELSE [ok |-> TRUE, msg |-> [x EXCEPT ![name] = Append(@, f.val)]]

\* A field that has a codec of its own, which reads into the value there is.
DecodeField(x, name, f, Decode(_, _)) ==
  IF f.wt # BYTES THEN [ok |-> FALSE, msg |-> x]
  ELSE LET r == Decode(x[name], f.val) IN [ok |-> r.ok, msg |-> [x EXCEPT ![name] = r.msg]]

-----------------------------------------------------------------------------
(* Numbers as text, cosmossdk.io/math (external).  A digit's byte is the     *)
(* digit, and no other byte is part of a number.                             *)

IntText(i) == IF i = Nil THEN <<0>> ELSE IF i < 10 THEN <<i>> ELSE <<i \div 10, i % 10>>

IsText(b) == \A k \in DOMAIN b : b[k] \in 0 .. 9

TextValue(b) == FoldLeft(LAMBDA n, d : 10 * n + d, 0, b)

\* Int.Unmarshal and LegacyDec.Unmarshal leave the number alone if there is no text.
IntUnmarshal(i, b) ==
  [ok |-> IsText(b), msg |-> IF b = <<>> \/ ~IsText(b) THEN i ELSE TextValue(b)]
=============================================================================
