----------------------------- MODULE ByteFormats -----------------------------
(***************************************************************************)
(* The encodings of WAP-230 and WAP-209 as MmsOutputBuffer writes them and *)
(* MmsInputBuffer reads them, over sequences of bytes.                     *)
(*                                                                         *)
(* A text is a sequence of bytes without 0.  An unsigned long, which TLC's *)
(* integers are too small for, is the sequence of its bytes without leading *)
(* zeros; lengths and charsets are numbers.  Put... gives the bytes that   *)
(* are appended; Get... reads the bytes w from offset at, where the limit  *)
(* is end, and gives the value and the offset behind it.                   *)
(***************************************************************************)
EXTENDS Integers, Sequences, FiniteSets, SequencesExt

Null == <<0>>   \* The NULL pointer: no text has a 0.

(* The number whose digits, to a base, are d; and the last digits of n.     *)
Number(d, base) ==
  LET upTo[i \in 0 .. Len(d)] == IF i = 0 THEN 0 ELSE upTo[i - 1] * base + d[i]
  IN  upTo[Len(d)]

Digits(n, base, count) ==
  LET shifted[k \in 0 .. count] == IF k = 0 THEN n ELSE shifted[k - 1] \div base
  IN  [i \in 1 .. count |-> shifted[count - i] % base]

Low(d) == IF d = <<>> THEN 0 ELSE Last(d)     \* (unsigned char) of a long.
AsLong(byte) == IF byte = 0 THEN <<>> ELSE <<byte>>

-----------------------------------------------------------------------------
(* Writing.                                                                *)

PutString(text) == Append(text, 0)

(* mms_get_int_bytes: 0xfffff, not 0xffffff, is the last of three bytes.    *)
IntBytes(n) == 1 + Cardinality({bound \in {255, 65535, 1048575} : n > bound})

PutMultiBytes(n) == Digits(n, 256, IntBytes(n))

(* Up to 35 bits; the code has room for 56.                                *)
PutVarInt(n) ==
  LET count == 1 + Cardinality({bound \in {127, 16383, 2097151, 16384 * 16384 - 1} : n > bound})
  IN  [i \in 1 .. count |-> Digits(n, 128, count)[i] + (IF i < count THEN 128 ELSE 0)]

PutValueLength(n) == IF n <= 30 THEN <<n>> ELSE <<31>> \o PutVarInt(n)

(* The byte with its top bit set.                                          *)
PutShortInt(d) == <<128 + (Low(d) % 128)>>

PutLongInt(d) == IF d = <<>> THEN <<1, 0>> ELSE <<Len(d)>> \o d
LongIntBytes(d) == Len(PutLongInt(d))

PutInt(d) == IF Len(d) <= 1 /\ Low(d) <= 127 THEN PutShortInt(d) ELSE PutLongInt(d)

CharsetBytes(charset) == IF charset <= 128 THEN 1 ELSE IntBytes(charset) + 1

PutCharset(charset) ==
  IF charset < 128 THEN <<charset + 128>>
  ELSE PutValueLength(IntBytes(charset)) \o PutMultiBytes(charset)

(* Charset 0 is none.                                                      *)
PutEncodedString(text, charset) ==
  IF charset = 0 THEN PutString(text)
  ELSE PutValueLength(CharsetBytes(charset) + Len(text) + 1)
         \o PutCharset(charset) \o PutString(text)

-----------------------------------------------------------------------------
(* Reading.                                                                *)

(* peek_int8: 0 at the limit.                                              *)
Peek(w, at, end) == IF at < end /\ at < Len(w) THEN w[at + 1] ELSE 0

(* Where k bytes end, which stop at the limit.                             *)
Behind(at, k, end) == IF at >= end THEN at ELSE Min({at + k, end})

(* The first place from .. to that is one to stop at.                       *)
First(from, to, Stop(_)) ==
  CHOOSE k \in from .. to : Stop(k) /\ \A j \in from .. k - 1 : ~Stop(j)

(* The NUL that ends the text at; the owner of the buffer puts one behind it. *)
Nul(w, at) == First(at + 1, Len(w) + 1, LAMBDA k : k > Len(w) \/ w[k] = 0)

IsString(w, at, end)      == Peek(w, at, end) \in 32 .. 127
IsShortInt(w, at, end)    == Peek(w, at, end) >= 128
IsValueLength(w, at, end) == Peek(w, at, end) <= 31

Read(value, at) == [value |-> value, at |-> at]

(* One read behind another, and the same read for another value.           *)
Then(read, Next(_, _)) == Next(read.value, read.at)
Of(Make(_), read)      == Read(Make(read.value), read.at)

GetInt8(w, at, end) == Read(Peek(w, at, end), Behind(at, 1, end))

TextUpTo(w, at, stop) == Read(SubSeq(w, at + 1, stop - 1), stop)

(* altered: the NUL is left to be read again.                               *)
GetStringBeforeNul(w, at, end) ==
  IF at >= end THEN Read(Null, at)
  ELSE Read(SubSeq(w, at + 1, Nul(w, at) - 1), Nul(w, at) - 1)

(* Up to the NUL and past it; the limit is looked at only before.           *)
GetString(w, at, end) ==
  IF at >= end THEN Read(Null, at) ELSE TextUpTo(w, at, Nul(w, at))

(* The same up to a byte before the limit, which becomes the NUL.           *)
GetStringEndWith(w, at, end, byte) ==
  IF at >= end THEN Read(Null, at)
  ELSE TextUpTo(w, at, First(at + 1, Len(w) + 1,
                             LAMBDA k : k > Len(w) \/ w[k] = 0 \/ (w[k] = byte /\ k <= end)))

GetData(w, at, end, length) ==
  IF at < end /\ at + length <= end THEN Read(SubSeq(w, at + 1, at + length), at + length)
  ELSE Read(<<>>, at)

VarIntUpTo(w, at, end, last) ==
  Read(Number([k \in 1 .. last - at + 1 |-> Peek(w, at + k - 1, end) % 128], 128),
       Behind(at, last - at + 1, end))

GetVarInt(w, at, end) ==
  VarIntUpTo(w, at, end, First(at, at + Len(w), LAMBDA k : Peek(w, k, end) < 128))

GetMultiBytes(w, at, end, count) ==
  IF count > 8 THEN Read(0, at)
  ELSE Read(Number([k \in 1 .. count |-> Peek(w, at + k - 1, end)], 256), Behind(at, count, end))

GetShortInt(w, at, end) == Read(AsLong(Peek(w, at, end) % 128), Behind(at, 1, end))

(* A long without its leading zeros.                                       *)
Trimmed(d) ==
  LET nonzero == {i \in DOMAIN d : d[i] # 0}
  IN  IF nonzero = {} THEN <<>> ELSE SubSeq(d, Min(nonzero), Len(d))

(* The bytes are shifted as ints: with four, the top bit is the sign, which *)
(* widening to long repeats.  More than four shift an int beyond its width, *)
(* which no number written here makes it do.                               *)
LongOf(d) == IF Len(d) = 4 /\ d[1] >= 128 THEN <<255, 255, 255, 255>> \o d ELSE Trimmed(d)

GetLongInt(w, at, end) ==
  Then(GetInt8(w, at, end), LAMBDA count, from :
    Read(LongOf([k \in 1 .. count |-> Peek(w, from + k - 1, end)]), Behind(from, count, end)))

GetInt(w, at, end) ==
  IF IsShortInt(w, at, end) THEN GetShortInt(w, at, end) ELSE GetLongInt(w, at, end)

GetValueLength(w, at, end) ==
  IF Peek(w, at, end) = 31 THEN GetVarInt(w, Behind(at, 1, end), end) ELSE GetInt8(w, at, end)

(* altered: the top bit of a short charset stays.                            *)
GetCharsetTopBit(w, at, end) ==
  IF IsValueLength(w, at, end)
  THEN Then(GetValueLength(w, at, end), LAMBDA n, from : GetMultiBytes(w, from, end, n))
  ELSE IF IsShortInt(w, at, end) THEN GetInt8(w, at, end)
  ELSE Read(0, GetString(w, at, end).at)

(* A charset by name is skipped, for 0.                                    *)
GetCharset(w, at, end) ==
  IF IsValueLength(w, at, end)
  THEN Then(GetValueLength(w, at, end), LAMBDA n, from : GetMultiBytes(w, from, end, n))
  ELSE IF IsShortInt(w, at, end)
  THEN Read(Peek(w, at, end) - 128, Behind(at, 1, end))
  ELSE Read(0, GetString(w, at, end).at)

(* push_limit, which refuses what lies beyond the bytes.                    *)
Limit(w, limit, end) == IF limit <= Len(w) THEN limit ELSE end

(* A charset and the text, up to the limit; the offset goes to the limit,   *)
(* wherever that text ends.                                                *)
TextWithin(w, at, limit) ==
  Then(GetCharset(w, at, limit), LAMBDA charset, from :
    Read([text |-> GetString(w, from, limit).value, charset |-> charset], limit))

GetEncodedString(w, at, end) ==
  IF IsValueLength(w, at, end)
  THEN Then(GetValueLength(w, at, end), LAMBDA n, from : TextWithin(w, from, Limit(w, from + n, end)))
  ELSE Of(LAMBDA text : [text |-> text, charset |-> 0], GetString(w, at, end))

=============================================================================
