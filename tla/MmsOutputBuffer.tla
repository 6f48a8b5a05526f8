--------------------------- MODULE MmsOutputBuffer ---------------------------
(***************************************************************************)
(* MmsOutputBuffer (mms_output_buffer.c): the growing byte buffer every    *)
(* packer writes into, with its nested transactions.                       *)
(*                                                                         *)
(* The memory of the buffer is a function from its offsets, so that what a *)
(* rollback uncovers is what the code left there.  The integer writers     *)
(* (put_int16, put_var_int, put_long_int, ...) are runs of PutChar, the    *)
(* string writers are PutData.  Allocations succeed.                       *)
(*                                                                         *)
(* Callers keep two rules which no check of the code enforces: they clear  *)
(* or detach a buffer only when no transaction is open on it, and destroy  *)
(* it right after a detach (http_transaction_clear, mms_save_to_buffer).   *)
(***************************************************************************)
EXTENDS Integers, Sequences

CONSTANTS
  Byte,                          (* Values of a byte.                        *)
  NUL,                           (* The byte '\0'.                           *)
  Garbage,                       (* What fresh memory holds.                 *)
  Data,                          (* What callers put with one put_data.      *)
  InitLengths,                   (* init_length of create.                   *)
  DEFAULT_OUTPUT_BUFFER_LENGTH,
  MAX_TRANSACTIONS,
  MaxData                        (* Bound: bytes in the buffer.              *)

ASSUME OutputBufferAssumption ==
  /\ NUL \in Byte /\ Garbage \notin Byte
  /\ Data \subseteq Seq(Byte) \ {<<>>}
  /\ InitLengths \subseteq Nat
  /\ DEFAULT_OUTPUT_BUFFER_LENGTH \in Nat \ {0}
  /\ MAX_TRANSACTIONS \in Nat \ {0} /\ MaxData \in Nat

VARIABLES
  phase,              (* "none" before create and after destroy, "live", or
                         "detached": the memory belongs to the caller.       *)
  buffer,
  data_length,
  length,
  transaction_begin,
  transactions        (* transactions[0 .. transaction_nr - 1].              *)

memory == <<buffer, length>>
stack  == <<transaction_begin, transactions>>
vars   == <<phase, memory, data_length, stack>>

Cell == Byte \cup {Garbage}

NoMemory == [i \in 0 .. -1 |-> Garbage]

Init ==
  /\ phase = "none"
  /\ buffer = NoMemory /\ length = 0 /\ data_length = 0
  /\ transaction_begin = 0 /\ transactions = <<>>

-----------------------------------------------------------------------------
(* Memory.                                                                 *)

Create(init_length) ==
  /\ phase = "none" /\ phase' = "live"
  /\ length' = IF init_length # 0 THEN init_length ELSE DEFAULT_OUTPUT_BUFFER_LENGTH
  /\ buffer' = [i \in 0 .. length' - 1 |-> IF i = 0 THEN NUL ELSE Garbage]
  /\ data_length' = 0
  /\ transaction_begin' = 0 /\ transactions' = <<>>

Destroy ==
  /\ phase \in {"live", "detached"} /\ phase' = "none"
  /\ buffer' = NoMemory /\ length' = 0 /\ data_length' = 0
  /\ transaction_begin' = 0 /\ transactions' = <<>>

(* altered: no room is kept for the terminator.                            *)
FitsExactly(n) == data_length + n <= length

(* The condition under which mms_output_buffer_extend changes nothing.     *)
Fits(n) == data_length + n < length

ExtendedLength(n) == IF Fits(n) THEN length ELSE length * 2 + n

(* altered: the old bytes are not carried over.                             *)
ExtendedFresh(n) ==
  IF Fits(n) THEN buffer
  ELSE [i \in 0 .. length * 2 + n - 1 |-> IF i = data_length THEN NUL ELSE Garbage]

(* The memory after mms_output_buffer_extend(n): realloc keeps what was     *)
(* there, and a terminator is written at data_length.                       *)
Extended(n) ==
  IF Fits(n) THEN buffer
  ELSE [i \in 0 .. length * 2 + n - 1 |->
          IF i = data_length THEN NUL ELSE IF i < length THEN buffer[i] ELSE Garbage]

(* memory with the bytes of s from offset "at" on.                          *)
Written(mem, at, s) ==
  [i \in DOMAIN mem |-> IF at <= i /\ i < at + Len(s) THEN s[i - at + 1] ELSE mem[i]]

Write(s, n) ==
  /\ buffer' = Written(Extended(n), data_length, s)
  /\ length' = ExtendedLength(n)

(* put_char, put_int8: no terminator.                                      *)
PutChar(b) ==
  /\ phase = "live"
  /\ data_length + 1 <= MaxData
  /\ Write(<<b>>, 1)
  /\ data_length' = data_length + 1
  /\ UNCHANGED <<phase, stack>>

(* put_data: the bytes and a terminator after them.                        *)
PutData(d) ==
  /\ phase = "live"
  /\ data_length + Len(d) <= MaxData
  /\ Write(Append(d, NUL), Len(d))
  /\ data_length' = data_length + Len(d)
  /\ UNCHANGED <<phase, stack>>

(* altered: a caller clears while a transaction is open.                    *)
ClearInTransaction ==
  /\ phase = "live"
  /\ data_length' = 0
  /\ UNCHANGED <<phase, memory, stack>>

(* clear and reset: the same assignment.                                   *)
Clear ==
  /\ phase = "live" /\ transactions = <<>>
  /\ data_length' = 0
  /\ UNCHANGED <<phase, memory, stack>>

DetachBuffer ==
  /\ phase = "live" /\ transactions = <<>>
  /\ phase' = "detached"
  /\ buffer' = NoMemory /\ length' = 0 /\ data_length' = 0
  /\ UNCHANGED stack

-----------------------------------------------------------------------------
(* Transactions.                                                           *)

(* altered: begin does not see that the stack is full.                      *)
TransactionBeginUnchecked ==
  /\ phase = "live"
  /\ Len(transactions) <= MAX_TRANSACTIONS
  /\ transaction_begin' = data_length
  /\ transactions' = Append(transactions, data_length)
  /\ UNCHANGED <<phase, memory, data_length>>

TransactionBegin ==
  /\ phase = "live"
  /\ Len(transactions) < MAX_TRANSACTIONS
  /\ transaction_begin' = data_length
  /\ transactions' = Append(transactions, data_length)
  /\ UNCHANGED <<phase, memory, data_length>>

Outer(s) == SubSeq(s, 1, Len(s) - 1)

(* The second half of mms_output_buffer_transaction_end.                   *)
EndTransaction ==
  /\ phase = "live" /\ transactions # <<>>
  /\ transactions' = Outer(transactions)
  /\ transaction_begin' = IF Len(transactions) > 1 THEN transactions[Len(transactions) - 1] ELSE 0

TransactionRollback ==
  /\ EndTransaction
  /\ data_length' = transaction_begin
  /\ UNCHANGED <<phase, memory>>

TransactionCommit ==
  /\ EndTransaction
  /\ UNCHANGED <<phase, memory, data_length>>

(* get_long_int_bytes: the bytes are put, counted, and data_length restored. *)
GetLongIntBytes(d) ==
  /\ phase = "live"
  /\ Write(d, Len(d))
  /\ UNCHANGED <<phase, data_length, stack>>

(* get_encoded_string_bytes: begin, put, rollback.  When the stack is full  *)
(* begin fails, nobody looks, and the rollback ends the caller's innermost  *)
(* transaction.                                                             *)
GetEncodedStringBytes(d) ==
  /\ phase = "live"
  /\ Write(Append(d, NUL), Len(d))
  /\ IF Len(transactions) < MAX_TRANSACTIONS
       THEN UNCHANGED <<data_length, stack>>
       ELSE EndTransaction /\ data_length' = transaction_begin
  /\ UNCHANGED phase

-----------------------------------------------------------------------------
Next ==
  \/ \E n \in InitLengths : Create(n)
  \/ Destroy
  \/ \E b \in Byte : PutChar(b)
  \/ \E d \in Data : PutData(d)
  \/ Clear
  \/ DetachBuffer
  \/ TransactionBegin
  \/ TransactionRollback
  \/ TransactionCommit
  \/ \E d \in Data : GetLongIntBytes(d)
  \/ \E d \in Data : GetEncodedStringBytes(d)

Spec == Init /\ [][Next]_vars

-----------------------------------------------------------------------------
(* Properties.                                                             *)

(* Every variable has its type, and the memory is as long as length says.   *)
TypeOK ==
  /\ phase \in {"none", "live", "detached"}
  /\ length \in Nat /\ data_length \in Nat /\ transaction_begin \in Nat
  /\ buffer \in [0 .. length - 1 -> Cell]
  /\ transactions \in Seq(Nat) /\ Len(transactions) <= MAX_TRANSACTIONS

(* A live buffer has a cell after its data: buffer[data_length] = '\0', at  *)
(* the end of put_data, and the parsers that read it as a C string, stay    *)
(* inside the allocation whatever was put, measured or rolled back before.  *)
RoomForTerminator == phase = "live" => data_length < length

(* What a reader is given, up to data_length, was written by someone: no    *)
(* growth, rollback or measuring uncovers memory fresh from realloc.        *)
NoGarbage == \A i \in 0 .. data_length - 1 : i < length /\ buffer[i] \in Byte

(* The open transactions began in stack order inside the data, and          *)
(* transaction_begin caches the innermost one: a rollback can only shorten  *)
(* the data, and never below an outer transaction.                          *)
TransactionsNested ==
  /\ \A i \in 1 .. Len(transactions) :
       /\ transactions[i] <= data_length
       /\ \A j \in 1 .. i : transactions[j] <= transactions[i]
  /\ transaction_begin = IF transactions = <<>> THEN 0 ELSE transactions[Len(transactions)]

(* The buffer is a text with savepoints: the text is the memory up to       *)
(* data_length, and each savepoint the memory up to its offset.             *)
FirstBytes(mem, n)  == [i \in 1 .. n |-> mem[i - 1]]
Fronts(mem, marks) == [k \in 1 .. Len(marks) |-> FirstBytes(mem, marks[k])]

Text  == FirstBytes(buffer, data_length)
Saved == Fronts(buffer, transactions)

Abstract == INSTANCE SavepointText WITH text <- Text, saved <- Saved

(* Writes and measurements between a begin and its rollback leave the bytes *)
(* the rollback returns to as they were: the code implements SavepointText. *)
ImplementsSavepointText == Abstract!Spec

=============================================================================
