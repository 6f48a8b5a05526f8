---------------------------- MODULE MmsInputBuffer ----------------------------
(***************************************************************************)
(* MmsInputBuffer (mms_input_buffer.c): the cursor every unpacker reads a  *)
(* message through, with its stack of nested limits.                       *)
(*                                                                         *)
(* Bytes are left out: a read takes as many as the action's parameter      *)
(* says.  An integer is read byte by byte and stops at the limit; a C      *)
(* string stops at the next NUL, wherever that is.  Offsets and limits are  *)
(* size_t and wrap.                                                        *)
(***************************************************************************)
EXTENDS Integers, Sequences

CONSTANTS
  Word,         (* Values of a size_t.                                       *)
  Messages,     (* Lengths of the messages.                                  *)
  Beyond,       (* Bytes from the end of a message to a NUL in memory: 0 when
                   the owner put a terminator, as resp_buffer has.           *)
  MAX_LIMITS

ASSUME InputBufferAssumption ==
  /\ Word \in Nat \ {0} /\ Beyond \in Nat /\ MAX_LIMITS \in Nat \ {0}
  /\ \A n \in Messages : n \in Nat \ {0} /\ n + Beyond + 1 < Word

VARIABLES
  live,       (* Between create and destroy.                                 *)
  offset,
  limit,
  length,
  limits      (* limits[0 .. limit_nr - 1].                                  *)

bufferVars == <<live, offset, limit, length, limits>>

SizeT == 0 .. Word - 1

(* a + b of two size_t.                                                    *)
Plus(a, b) == IF a + b < Word THEN a + b ELSE a + b - Word

BufferInit ==
  /\ live = FALSE /\ offset = 0 /\ limit = 0 /\ length = 0 /\ limits = <<>>

CreateInput(n) ==
  /\ ~live /\ live' = TRUE
  /\ offset' = 0 /\ limit' = n /\ length' = n /\ limits' = <<>>

DestroyInput ==
  /\ live /\ live' = FALSE
  /\ offset' = 0 /\ limit' = 0 /\ length' = 0 /\ limits' = <<>>

-----------------------------------------------------------------------------
(* Reading.  These say what becomes of the offset.                         *)

Eof == offset >= limit

(* get_int8, int16, int32, short_int, long_int, var_int, value_length: one  *)
(* byte at least, none beyond the limit; nothing at the end.               *)
GetBytes(k) ==
  IF Eof THEN k = 0 /\ offset' = offset
  ELSE k > 0 /\ offset + k <= limit /\ offset' = offset + k

(* get_string, get_string_end_with: up to the next NUL and past it, whatever *)
(* the limit.                                                               *)
GetString(k) ==
  IF Eof THEN k = 0 /\ offset' = offset
  ELSE k > 0 /\ offset + k <= length + Beyond + 1 /\ offset' = offset + k

(* altered: the length is not compared with the limit.                      *)
HasDataUnchecked(n) == ~Eof

(* The check of get_data.                                                  *)
HasData(n) == ~Eof /\ Plus(offset, n) <= limit

GetData(n) == offset' = IF HasData(n) THEN Plus(offset, n) ELSE offset

(* seek computes in int: the sum does not wrap for offsets a message has.  *)
Seek(d) ==
  offset' = IF offset + d >= 0 /\ offset + d <= limit THEN offset + d ELSE offset

SkipToLimit == offset' = limit

-----------------------------------------------------------------------------
(* Limits.  These say what becomes of the limit and the stack.             *)

(* altered: any limit will do.                                              *)
AcceptsAnyLimit(l) == Len(limits) < MAX_LIMITS

(* push_limit: the new limit need not lie within the one in force.         *)
AcceptsLimit(l) == l <= length /\ Len(limits) < MAX_LIMITS

PushLimit(l) ==
  /\ limit'  = IF AcceptsLimit(l) THEN l ELSE limit
  /\ limits' = IF AcceptsLimit(l) THEN Append(limits, l) ELSE limits

(* altered: the limit that ends stays in force.                             *)
PopLimitOfTop ==
  /\ limits' = IF limits = <<>> THEN limits ELSE SubSeq(limits, 1, Len(limits) - 1)
  /\ limit'  = limit

PopLimit ==
  IF limits = <<>> THEN UNCHANGED <<limit, limits>>
  ELSE /\ limits' = SubSeq(limits, 1, Len(limits) - 1)
       /\ limit'  = IF Len(limits) = 1 THEN length ELSE limits[Len(limits) - 1]

-----------------------------------------------------------------------------
(* Any calls in any order.                                                 *)

KeepLimits == UNCHANGED <<live, length, limit, limits>>

BufferNext ==
  \/ \E n \in Messages : CreateInput(n)
  \/ DestroyInput
  \/ live /\ KeepLimits /\ \E k \in SizeT : GetBytes(k) \/ GetString(k) \/ GetData(k)
  \/ live /\ KeepLimits /\ \E d \in -Word .. Word : Seek(d)
  \/ live /\ KeepLimits /\ SkipToLimit
  \/ live /\ UNCHANGED <<live, length, offset>> /\ \E l \in SizeT : PushLimit(l)
  \/ live /\ UNCHANGED <<live, length, offset>> /\ PopLimit

BufferSpec == BufferInit /\ [][BufferNext]_bufferVars

-----------------------------------------------------------------------------
(* Properties.                                                             *)

(* Every variable has its type.                                            *)
BufferTypeOK ==
  /\ live \in BOOLEAN
  /\ offset \in SizeT /\ limit \in SizeT /\ length \in SizeT
  /\ limits \in Seq(SizeT) /\ Len(limits) <= MAX_LIMITS

(* Whatever lengths a message claims, and whatever calls are made, no limit *)
(* lies beyond the message and no read starts beyond its memory: the        *)
(* comparisons are made after sums that may wrap, and a limit that was      *)
(* refused, or is wider than the one it nests in, is popped all the same.   *)
ReadsInMemory ==
  /\ offset <= length + Beyond + 1
  /\ limit <= length
  /\ \A i \in 1 .. Len(limits) : limits[i] <= length

=============================================================================
