-------------------------- MODULE MmsMessage_proofs ---------------------------
(***************************************************************************)
(* Theorems about messages: as they are unpacked (MmsUnpack, which reads    *)
(* through MmsInputBuffer), and as they are composed (MmsCompose).          *)
(*                                                                         *)
(* That no read starts beyond the memory of a message is inductive for any  *)
(* calls of the input buffer; every step of the unpackers is one of those   *)
(* calls or none, so they inherit it.  What follows is about the order of   *)
(* those calls: the tasks left to do are always a way through an automaton  *)
(* of stages (Stages, Flow), and each stage says how many limits are        *)
(* pushed, where the value being read ends and where the parts lie.  The    *)
(* properties of MmsUnpack are read off it.                                 *)
(*                                                                         *)
(* MmsCompose follows, for any names and files, any number of pars and      *)
(* parts and any received messages whose parts are named apart (Ordinary):  *)
(* the pars of a message and its parts, tied by names alone, stay           *)
(* consistent, and a call changes no slot but its own.                      *)
(***************************************************************************)
EXTENDS MmsUnpack, MmsCompose, SequenceFacts, FiniteSetTheorems

(* The offsets of a live buffer are below Word, with room for a NUL.       *)
FitsWord == live => length + Beyond + 1 < Word

BufferInv == BufferTypeOK /\ ReadsInMemory /\ FitsWord

(* An offset that moves by one of the reads stays in memory: the reads are  *)
(* the only calls of the buffer that move it.                               *)
LEMMA ReadStaysInMemory ==
  ASSUME BufferInv, live, KeepLimits,
         \/ \E k \in SizeT : GetBytes(k) \/ GetString(k) \/ GetData(k)
         \/ \E d \in -Word .. Word : Seek(d)
         \/ SkipToLimit
  PROVE  BufferInv'
<1>1. /\ offset \in Nat /\ limit \in Nat /\ length \in Nat /\ Beyond \in Nat
      /\ Word \in Nat \ {0}
      /\ limit <= length /\ length + Beyond + 1 < Word
      /\ offset <= length + Beyond + 1
  BY InputBufferAssumption
  DEF BufferInv, BufferTypeOK, ReadsInMemory, FitsWord, SizeT, InputBufferAssumption
<1>2. offset' \in Nat /\ offset' <= length + Beyond + 1
  <2>1. CASE \E k \in SizeT : GetBytes(k)
    BY <1>1, <2>1 DEF GetBytes, Eof, SizeT
  <2>2. CASE \E k \in SizeT : GetString(k)
    BY <1>1, <2>2 DEF GetString, Eof, SizeT
  <2>3. CASE \E k \in SizeT : GetData(k)
    <3>1. PICK k \in SizeT : GetData(k)
      BY <2>3
    <3>2. Plus(offset, k) \in Nat
      BY <1>1 DEF Plus, SizeT
    <3> QED
      BY <1>1, <3>1, <3>2 DEF GetData, HasData
  <2>4. CASE \E d \in -Word .. Word : Seek(d)
    BY <1>1, <2>4 DEF Seek
  <2>5. CASE SkipToLimit
    BY <1>1, <2>5 DEF SkipToLimit
  <2> QED
    BY <2>1, <2>2, <2>3, <2>4, <2>5
<1>3. UNCHANGED <<live, length, limit, limits>>
  BY DEF KeepLimits
<1>4. offset' \in SizeT
  BY <1>1, <1>2 DEF SizeT
<1>5. BufferTypeOK'
  BY <1>3, <1>4 DEF BufferInv, BufferTypeOK
<1>6. ReadsInMemory'
  BY <1>2, <1>3 DEF BufferInv, ReadsInMemory
<1> QED
  BY <1>3, <1>5, <1>6 DEF BufferInv, FitsWord

(* push_limit keeps every limit within the message.                        *)
LEMMA PushStaysInMemory ==
  ASSUME BufferInv, NEW l \in SizeT, PushLimit(l), UNCHANGED <<live, length, offset>>
  PROVE  BufferInv'
<1>1. CASE AcceptsLimit(l)
  <2>1. limit' = l /\ limits' = Append(limits, l) /\ l <= length
    BY <1>1 DEF PushLimit, AcceptsLimit
  <2>2. limits \in Seq(SizeT) /\ Len(limits) < MAX_LIMITS
    BY <1>1 DEF AcceptsLimit, BufferInv, BufferTypeOK
  <2>3. limits' \in Seq(SizeT) /\ Len(limits') = Len(limits) + 1
    BY <2>1, <2>2, AppendProperties
  <2>4. Len(limits') <= MAX_LIMITS
    BY <2>2, <2>3, InputBufferAssumption DEF InputBufferAssumption
  <2>5. \A i \in 1 .. Len(limits') : limits'[i] <= length
    BY <2>1, <2>2, <2>3, AppendProperties DEF BufferInv, ReadsInMemory
  <2> QED
    BY <2>1, <2>3, <2>4, <2>5 DEF BufferInv, BufferTypeOK, ReadsInMemory, FitsWord
<1>2. CASE ~AcceptsLimit(l)
  BY <1>2 DEF PushLimit, BufferInv, BufferTypeOK, ReadsInMemory, FitsWord
<1> QED
  BY <1>1, <1>2

(* ... and pop_limit returns to one of them, or to the end of the message.  *)
LEMMA PopStaysInMemory ==
  ASSUME BufferInv, PopLimit, UNCHANGED <<live, length, offset>>
  PROVE  BufferInv'
<1>1. CASE limits = <<>>
  BY <1>1 DEF PopLimit, BufferInv, BufferTypeOK, ReadsInMemory, FitsWord
<1>2. CASE limits # <<>>
  <2>1. limits \in Seq(SizeT) /\ Len(limits) \in Nat \ {0} /\ Len(limits) <= MAX_LIMITS
    BY <1>2, EmptySeq DEF BufferInv, BufferTypeOK
  <2>2. limits' = SubSeq(limits, 1, Len(limits) - 1)
    BY <1>2 DEF PopLimit
  <2>3. /\ limits' \in Seq(SizeT) /\ Len(limits') = Len(limits) - 1
        /\ \A i \in 1 .. Len(limits') : limits'[i] = limits[i]
    <3> DEFINE m == Len(limits)
    <3>1. m \in Nat \ {0} /\ \A i \in 1 .. m - 1 : limits[i] \in SizeT
      BY <2>1
    <3> HIDE DEF m
    <3>2. /\ SubSeq(limits, 1, m - 1) \in Seq(SizeT)
          /\ Len(SubSeq(limits, 1, m - 1)) = IF 1 <= m - 1 THEN m - 1 - 1 + 1 ELSE 0
          /\ \A i \in 1 .. m - 1 - 1 + 1 : SubSeq(limits, 1, m - 1)[i] = limits[1 + i - 1]
      BY <3>1, SubSeqProperties
    <3>3. m - 1 - 1 + 1 = m - 1 /\ \A i \in 1 .. m - 1 : 1 + i - 1 = i
      BY <3>1
    <3>4. limits' = SubSeq(limits, 1, m - 1)
      BY <2>2 DEF m
    <3>5. /\ limits' \in Seq(SizeT) /\ Len(limits') = m - 1
          /\ \A i \in 1 .. m - 1 : limits'[i] = limits[i]
      BY <3>1, <3>2, <3>3, <3>4
    <3> QED
      BY <3>5 DEF m
  <2>4. Len(limits') <= MAX_LIMITS
    BY <2>1, <2>3, InputBufferAssumption DEF InputBufferAssumption
  <2>5. \A i \in 1 .. Len(limits') : limits'[i] <= length
    BY <2>1, <2>3 DEF BufferInv, ReadsInMemory
  <2>6. limit' \in SizeT /\ limit' <= length
    <3>1. CASE Len(limits) = 1
      BY <1>2, <3>1 DEF PopLimit, BufferInv, BufferTypeOK, SizeT
    <3>2. CASE Len(limits) # 1
      <4> DEFINE m == Len(limits)
      <4>0. m \in Nat \ {0} /\ m # 1
        BY <2>1, <3>2
      <4> HIDE DEF m
      <4>1a. m - 1 \in 1 .. m
        BY <4>0
      <4>1. Len(limits) - 1 \in 1 .. Len(limits)
        BY <4>1a DEF m
      <4>2. limit' = limits[Len(limits) - 1]
        BY <1>2, <3>2 DEF PopLimit
      <4> QED
        BY <2>1, <4>1, <4>2 DEF BufferInv, ReadsInMemory
    <3> QED
      BY <3>1, <3>2
  <2> QED
    BY <2>3, <2>4, <2>5, <2>6 DEF BufferInv, BufferTypeOK, ReadsInMemory, FitsWord
<1> QED
  BY <1>1, <1>2

(* A buffer just created, or destroyed, is one of some length n.             *)
LEMMA CreatedInv ==
  ASSUME NEW n \in Nat, n < Word, offset' = 0, limit' = n, length' = n, limits' = <<>>,
         live' \in BOOLEAN, live' => n + Beyond + 1 < Word
  PROVE  BufferInv'
<1>1. Word \in Nat \ {0} /\ Beyond \in Nat /\ MAX_LIMITS \in Nat
  BY InputBufferAssumption DEF InputBufferAssumption
<1>2. limits' \in Seq(SizeT) /\ Len(limits') = 0
  BY EmptySeq
<1>3. n \in SizeT /\ 0 \in SizeT
  BY <1>1 DEF SizeT
<1>4. BufferTypeOK'
  BY <1>1, <1>2, <1>3 DEF BufferTypeOK
<1>5. ReadsInMemory'
  BY <1>1, <1>2 DEF ReadsInMemory
<1> QED
  BY <1>4, <1>5 DEF BufferInv, FitsWord

LEMMA BufferInitInv == BufferInit => BufferInv
<1> SUFFICES ASSUME BufferInit
             PROVE  BufferInv
  OBVIOUS
<1>1. Word \in Nat \ {0} /\ Beyond \in Nat /\ MAX_LIMITS \in Nat
  BY InputBufferAssumption DEF InputBufferAssumption
<1>2. limits \in Seq(SizeT) /\ Len(limits) = 0
  BY EmptySeq DEF BufferInit
<1>3. BufferTypeOK
  <2>1. offset \in SizeT /\ limit \in SizeT /\ length \in SizeT
    BY <1>1 DEF BufferInit, SizeT
  <2>2. Len(limits) <= MAX_LIMITS
    BY <1>1, <1>2
  <2>3. live \in BOOLEAN
    BY DEF BufferInit
  <2> QED
    BY <1>2, <2>1, <2>2, <2>3 DEF BufferTypeOK
<1>4. ReadsInMemory
  BY <1>1, <1>2 DEF BufferInit, ReadsInMemory
<1> QED
  BY <1>3, <1>4 DEF BufferInit, BufferInv, FitsWord

LEMMA BufferNextInv == BufferInv /\ [BufferNext]_bufferVars => BufferInv'
<1> SUFFICES ASSUME BufferInv, [BufferNext]_bufferVars
             PROVE  BufferInv'
  OBVIOUS
<1>1. ASSUME NEW n \in Messages, CreateInput(n)
      PROVE  BufferInv'
  <2>1. n \in Nat /\ Beyond \in Nat /\ Word \in Nat /\ n + Beyond + 1 < Word /\ n < Word
    BY InputBufferAssumption DEF InputBufferAssumption
  <2>2. /\ offset' = 0 /\ limit' = n /\ length' = n /\ limits' = <<>> /\ live' = TRUE
    BY <1>1 DEF CreateInput
  <2> QED
    BY <2>1, <2>2, CreatedInv
<1>2. CASE DestroyInput
  <2>1. /\ offset' = 0 /\ limit' = 0 /\ length' = 0 /\ limits' = <<>> /\ live' = FALSE
    BY <1>2 DEF DestroyInput
  <2>2. 0 \in Nat /\ 0 < Word
    BY InputBufferAssumption DEF InputBufferAssumption
  <2> QED
    BY <2>1, <2>2, CreatedInv
<1>3. CASE live /\ KeepLimits /\ \E k \in SizeT : GetBytes(k) \/ GetString(k) \/ GetData(k)
  BY <1>3, ReadStaysInMemory
<1>4. CASE live /\ KeepLimits /\ \E d \in -Word .. Word : Seek(d)
  BY <1>4, ReadStaysInMemory
<1>5. CASE live /\ KeepLimits /\ SkipToLimit
  BY <1>5, ReadStaysInMemory
<1>6. CASE live /\ UNCHANGED <<live, length, offset>> /\ \E l \in SizeT : PushLimit(l)
  BY <1>6, PushStaysInMemory
<1>7. CASE live /\ UNCHANGED <<live, length, offset>> /\ PopLimit
  BY <1>7, PopStaysInMemory
<1>8. CASE UNCHANGED bufferVars
  BY <1>8 DEF bufferVars, BufferInv, BufferTypeOK, ReadsInMemory, FitsWord
<1> QED
  BY <1>1, <1>2, <1>3, <1>4, <1>5, <1>6, <1>7, <1>8 DEF BufferNext

(* Whatever calls are made of an input buffer (mms_input_buffer.c), and      *)
(* whatever lengths they are given, wrapping ones included, its offset and  *)
(* its limits stay in the memory of the message.                            *)
THEOREM BufferInvariant == BufferSpec => []BufferInv
BY BufferInitInv, BufferNextInv, PTL DEF BufferSpec

(* In particular: no read starts beyond the memory, no limit lies beyond    *)
(* the message.                                                            *)
THEOREM InputInMemory == BufferSpec => []ReadsInMemory
BY BufferInvariant, PTL DEF BufferInv

-----------------------------------------------------------------------------
(* The unpackers make no other use of the buffer: each of their steps is a  *)
(* call of it, or none, while it is live.                                  *)

(* What there is to do before the buffer is destroyed.                     *)
Steps == Tasks \ {"destroy", "aborted"}

(* The buffer is destroyed by the last task, and lives until then.         *)
Unfinished == \E t \in Seq(Steps) : todo = Append(t, "destroy")

TasksInv ==
  \/ ~live /\ todo = <<>>
  \/ live /\ todo = <<"aborted">>
  \/ live /\ Unfinished

UnpackInv == BufferInv /\ TasksInv /\ value \in SizeT /\ body \in SizeT

(* A task other than destroy is done while the buffer lives, and leaves it *)
(* to be destroyed.                                                        *)
LEMMA StepsAreLive ==
  ASSUME TasksInv, NEW task \in Steps, Doing(task)
  PROVE  live /\ Unfinished
<1>1. todo # <<>> /\ todo # <<"aborted">>
  BY DEF Doing, Steps
<1> QED
  BY <1>1 DEF TasksInv

LEMMA StepsLeaveDestroy ==
  ASSUME TasksInv, NEW task \in Steps, Doing(task), NEW tasks \in Seq(Steps), Then(tasks)
  PROVE  Unfinished'
<1>1. PICK t \in Seq(Steps) : todo = Append(t, "destroy")
  BY StepsAreLive DEF Unfinished
<1>2. t # <<>>
  <2>1. Head(todo) # "destroy"
    BY DEF Doing, Steps
  <2> QED
    BY <1>1, <2>1, HeadTailAppend
<1>3. Tail(t) \in Seq(Steps) /\ Tail(todo) = Append(Tail(t), "destroy")
  BY <1>1, <1>2, HeadTailAppend, HeadTailProperties
<1>4. todo' = tasks \o Append(Tail(t), "destroy")
  BY <1>3 DEF Then
<1>5. tasks \o Append(Tail(t), "destroy") = Append(tasks \o Tail(t), "destroy")
  <2> DEFINE u == Tail(t)
  <2>1. "destroy" \in Tasks /\ Steps \subseteq Tasks
    BY DEF Tasks, Steps
  <2>2. u \in Seq(Tasks) /\ tasks \in Seq(Tasks) /\ <<"destroy">> \in Seq(Tasks)
    BY <1>3, <2>1, SeqMonotonic
  <2> HIDE DEF u
  <2>3. tasks \o u \in Seq(Tasks)
    BY <2>2, ConcatProperties
  <2>4. Append(u, "destroy") = u \o <<"destroy">>
    BY <2>1, <2>2, AppendIsConcat
  <2>5. Append(tasks \o u, "destroy") = (tasks \o u) \o <<"destroy">>
    BY <2>1, <2>3, AppendIsConcat
  <2>6. (tasks \o u) \o <<"destroy">> = tasks \o (u \o <<"destroy">>)
    BY <2>2, ConcatAssociative
  <2> QED
    BY <2>4, <2>5, <2>6 DEF u
<1>6. tasks \o Tail(t) \in Seq(Steps)
  BY <1>3, ConcatProperties
<1> QED
  BY <1>4, <1>5, <1>6 DEF Unfinished

(* The tasks an action puts before the rest are such steps.                *)
LEMMA StepSequences ==
  /\ <<>> \in Seq(Steps)
  /\ <<"string">> \in Seq(Steps) /\ <<"ctype">> \in Seq(Steps) /\ <<"value">> \in Seq(Steps)
  /\ EncodedString \in Seq(Steps) /\ From \in Seq(Steps)
  /\ <<"string", "items">> \in Seq(Steps) /\ <<"value", "items">> \in Seq(Steps)
  /\ <<"media", "params">> \in Seq(Steps) /\ <<"value", "params">> \in Seq(Steps)
  /\ <<"number", "number", "number", "items">> \in Seq(Steps)
  /\ \A form \in {<<"value">>, EncodedString, From} : Append(form, "items") \in Seq(Steps)
  /\ Append(Part, "parts") \in Seq(Steps)
  /\ <<"length", "push", "ctype", "items", "pop">> \in Seq(Steps)
  /\ <<"items", "nr", "parts">> \in Seq(Steps) /\ <<"number", "pdu", "content">> \in Seq(Steps)
<1>1. {"items", "value", "length", "push", "number", "address", "charset", "string", "skip",
       "pop", "ctype", "media", "params", "nr", "parts", "body", "data", "pdu", "content"}
      \subseteq Steps
  BY DEF Steps, Tasks
<1> QED
  BY <1>1 DEF EncodedString, From, Part

(* What a step that is a read of the buffer leaves of it.                  *)
LEMMA GetBytesSizeT ==
  ASSUME BufferTypeOK, NEW k \in Nat, GetBytes(k)
  PROVE  k \in SizeT
<1>1. Word \in Nat \ {0}
  BY InputBufferAssumption DEF InputBufferAssumption
<1>2. offset \in Nat /\ limit \in Nat /\ limit < Word
  BY <1>1 DEF BufferTypeOK, SizeT
<1> QED
  BY <1>1, <1>2 DEF GetBytes, SizeT, Eof

(* A call of the buffer, or none, that leaves it live.                     *)
Call ==
  \/ Keeps
  \/ Reads /\ \E k \in SizeT : GetBytes(k) \/ GetString(k) \/ GetData(k)
  \/ Reads /\ SkipToLimit
  \/ UNCHANGED <<live, length, offset>> /\ \E l \in SizeT : PushLimit(l)
  \/ UNCHANGED <<live, length, offset>> /\ PopLimit

LEMMA CallStep ==
  ASSUME UnpackInv, NEW task \in Steps, Doing(task), NEW tasks \in Seq(Steps), Then(tasks),
         Call
  PROVE  [BufferNext]_bufferVars /\ TasksInv'
<1>1. live
  BY StepsAreLive DEF UnpackInv
<1>2. [BufferNext]_bufferVars
  BY <1>1 DEF Call, Keeps, Reads, KeepLimits, BufferNext
<1>3. live' = live
  BY DEF Call, Keeps, Reads, bufferVars
<1>4. Unfinished'
  BY StepsLeaveDestroy DEF UnpackInv
<1> QED
  BY <1>1, <1>2, <1>3, <1>4 DEF TasksInv

(* The sums of lengths are size_t.                                         *)
LEMMA PlusSizeT == \A a, b \in SizeT : Plus(a, b) \in SizeT
BY InputBufferAssumption DEF InputBufferAssumption, Plus, SizeT

LEMMA ByteRead ==
  ASSUME BufferTypeOK, NEW k \in Nat, Reads, GetBytes(k)
  PROVE  Call
BY GetBytesSizeT DEF Call

(* Starting one message: the buffer is created.                            *)
LEMMA StartStep ==
  ASSUME UnpackInv, NEW n \in Messages, NEW t \in Seq(Steps), Start(n, Append(t, "destroy"))
  PROVE  [BufferNext]_bufferVars /\ TasksInv' /\ value' \in SizeT /\ body' \in SizeT
<1>1. CreateInput(n) /\ live' /\ Unfinished' /\ value' = 0 /\ body' = 0
  BY DEF Start, CreateInput, Unfinished
<1>2. 0 \in SizeT
  BY InputBufferAssumption DEF InputBufferAssumption, SizeT
<1> QED
  BY <1>1, <1>2 DEF BufferNext, TasksInv

(* ... and ending it.                                                      *)
LEMMA DestroyStep ==
  ASSUME UnpackInv, DestroyBuffer
  PROVE  [BufferNext]_bufferVars /\ TasksInv' /\ value' \in SizeT /\ body' \in SizeT
<1>1. DestroyInput /\ todo # <<>> /\ Head(todo) = "destroy" /\ ~live' /\ live
  BY DEF DestroyBuffer, DestroyInput, Doing
<1>2. UNCHANGED <<value, body>>
  BY DEF DestroyBuffer, locals
<1>3. todo' = <<>>
  <2>1. todo # <<"aborted">>
    BY <1>1
  <2>2. PICK t \in Seq(Steps) : todo = Append(t, "destroy")
    BY <1>1, <2>1 DEF UnpackInv, TasksInv, Unfinished
  <2>3. t = <<>>
    <3>1. ASSUME t # <<>>
          PROVE  FALSE
      <4>1. Head(todo) = Head(t) /\ Head(t) \in Steps
        BY <2>2, <3>1, HeadTailAppend, HeadTailProperties
      <4> QED
        BY <1>1, <4>1 DEF Steps
    <3> QED
      BY <3>1
  <2>4. Tail(todo) = <<>>
    BY <2>2, <2>3, HeadTailAppend
  <2> QED
    BY <2>4 DEF DestroyBuffer, Then
<1> QED
  BY <1>1, <1>2, <1>3 DEF BufferNext, TasksInv, UnpackInv

(* Every step of the unpackers.                                            *)
LEMMA UnpackStep ==
  ASSUME UnpackInv, UnpackNext
  PROVE  [BufferNext]_bufferVars /\ TasksInv' /\ value' \in SizeT /\ body' \in SizeT
<1> DEFINE Good == [BufferNext]_bufferVars /\ TasksInv' /\ value' \in SizeT /\ body' \in SizeT
<1>0. /\ BufferTypeOK /\ value \in SizeT /\ body \in SizeT /\ offset \in SizeT
      /\ \A task \in Steps : task # "destroy"
  BY DEF UnpackInv, BufferInv, BufferTypeOK, Steps
<1>n. {"items", "value", "length", "push", "number", "address", "charset", "string", "skip",
       "pop", "ctype", "media", "params", "nr", "parts", "body", "data", "pdu", "content"}
      \subseteq Steps
  BY DEF Steps, Tasks
<1>b. 0 \in Nat /\ 1 \in Nat /\ SizeT \subseteq Nat
  BY DEF SizeT
<1>l. ASSUME UNCHANGED locals
      PROVE  value' \in SizeT /\ body' \in SizeT
  BY <1>0, <1>l DEF locals
<1>1. ASSUME NEW n \in Messages, Unpack(n)
      PROVE  Good
  <2>1. <<"items", "nr", "parts", "destroy">> = Append(<<"items", "nr", "parts">>, "destroy")
    OBVIOUS
  <2>2. Start(n, Append(<<"items", "nr", "parts">>, "destroy"))
    BY <1>1, <2>1 DEF Unpack
  <2> QED
    BY <2>2, StartStep, StepSequences
<1>2. ASSUME NEW n \in Messages, UnpackPush(n)
      PROVE  Good
  <2>1. <<"number", "pdu", "content", "destroy">>
          = Append(<<"number", "pdu", "content">>, "destroy")
    OBVIOUS
  <2>2. Start(n, Append(<<"number", "pdu", "content">>, "destroy"))
    BY <1>2, <2>1 DEF UnpackPush
  <2> QED
    BY <2>2, StartStep, StepSequences
<1>3. CASE Number
  <2>1. Doing("number") /\ Then(<<>>) /\ Call /\ UNCHANGED locals
    BY <1>3, <1>b DEF Number, Call
  <2> QED
    BY <2>1, <1>l, <1>n, CallStep, StepSequences
<1>4. CASE String
  <2>1. Doing("string") /\ Then(<<>>) /\ Call /\ UNCHANGED locals
    BY <1>4 DEF String, StringRead, Call
  <2> QED
    BY <2>1, <1>l, <1>n, CallStep, StepSequences
<1>5. CASE Value
  <2>1. /\ \E task \in {"value", "charset"} : Doing(task)
        /\ Then(<<>>) /\ Call /\ UNCHANGED locals
    BY <1>5 DEF Value, StringRead, Call
  <2> QED
    BY <2>1, <1>l, <1>n, CallStep, StepSequences
<1>6. CASE Length
  <2>1. Doing("length") /\ Then(<<>>) /\ Call /\ value' \in SizeT /\ body' = body
    BY <1>6 DEF Length, Call
  <2> QED
    BY <2>1, <1>0, <1>n, CallStep, StepSequences
<1>7. CASE Push
  <2>1. Doing("push") /\ Then(<<>>) /\ Call /\ UNCHANGED locals
    BY <1>0, <1>7, PlusSizeT DEF Push, Call
  <2> QED
    BY <2>1, <1>l, <1>n, CallStep, StepSequences
<1>8. CASE Skip
  <2>1. Doing("skip") /\ Then(<<>>) /\ Call /\ UNCHANGED locals
    BY <1>8 DEF Skip, Call
  <2> QED
    BY <2>1, <1>l, <1>n, CallStep, StepSequences
<1>9. CASE Pop
  <2>1. Doing("pop") /\ Then(<<>>) /\ Call /\ UNCHANGED locals
    BY <1>9 DEF Pop, Call
  <2> QED
    BY <2>1, <1>l, <1>n, CallStep, StepSequences
<1>10. CASE Address
  <2>1. PICK tasks \in {<<>>, <<"string">>, EncodedString} : Then(tasks)
    BY <1>10 DEF Address
  <2>2. Doing("address") /\ Call /\ UNCHANGED locals
    BY <1>10 DEF Address, Call
  <2> QED
    BY <2>1, <2>2, <1>l, <1>n, CallStep, StepSequences
<1>11. CASE ItemsEnd
  <2>1. Doing("items") /\ Then(<<>>) /\ Call /\ UNCHANGED locals
    BY <1>11 DEF ItemsEnd, Call
  <2> QED
    BY <2>1, <1>l, <1>n, CallStep, StepSequences
<1>12. CASE NamedItem
  <2>1. Doing("items") /\ Then(<<"string", "items">>) /\ Call /\ UNCHANGED locals
    BY <1>12 DEF NamedItem, Call
  <2> QED
    BY <2>1, <1>l, <1>n, CallStep, StepSequences
<1>13. CASE NumberedItem
  <2>1. Doing("items") /\ Reads /\ GetBytes(1) /\ UNCHANGED locals
    BY <1>13 DEF NumberedItem
  <2>2. Call
    BY <2>1, <1>0, <1>b, ByteRead
  <2>3. \E tasks \in Seq(Steps) : Then(tasks)
    BY <1>13, StepSequences DEF NumberedItem
  <2> QED
    BY <2>1, <2>2, <2>3, <1>l, <1>n, CallStep
<1>26. CASE WspItem
  <2>1. /\ Doing("items") /\ (Then(<<"value", "items">>) \/ Then(<<"value">>))
        /\ Reads /\ GetBytes(1) /\ UNCHANGED locals
    BY <1>26 DEF WspItem
  <2>2. Call
    BY <2>1, <1>0, <1>b, ByteRead
  <2> QED
    BY <2>1, <2>2, <1>l, <1>n, CallStep, StepSequences
<1>14. CASE TimeItem
  <2>1. /\ Doing("items") /\ Then(<<"number", "number", "number", "items">>)
        /\ Reads /\ GetBytes(1) /\ UNCHANGED locals
    BY <1>14 DEF TimeItem
  <2>2. Call
    BY <2>1, <1>0, <1>b, ByteRead
  <2> QED
    BY <2>1, <2>2, <1>l, <1>n, CallStep, StepSequences
<1>15. CASE AssertFails
  <2>1. \E task \in Steps : Doing(task)
    BY <1>15, <1>n DEF AssertFails
  <2>2. live
    BY <2>1, StepsAreLive DEF UnpackInv
  <2>3. UNCHANGED bufferVars /\ todo' = <<"aborted">> /\ UNCHANGED locals
    BY <1>15 DEF AssertFails, Keeps
  <2> QED
    BY <2>2, <2>3, <1>l DEF TasksInv, bufferVars
<1>16. CASE ContentType
  <2>1. Doing("ctype") /\ (Then(<<>>) \/ Then(<<"media", "params">>))
    BY <1>16 DEF ContentType
  <2>2. UNCHANGED <<value, body>>
    BY <1>16 DEF ContentType, StringRead, locals
  <2>3. Call
    <3>1. ASSUME Reads, GetBytes(1)
          PROVE  Call
      BY <3>1, <1>0, <1>b, ByteRead
    <3>2. ASSUME Reads, \E k \in SizeT : GetBytes(k)
          PROVE  Call
      BY <3>2 DEF Call
    <3>3. ASSUME StringRead
          PROVE  Call
      BY <3>3 DEF Call, StringRead
    <3> QED
      BY <1>16, <3>1, <3>2, <3>3 DEF ContentType
  <2> QED
    BY <2>1, <2>2, <2>3, <1>0, <1>n, CallStep, StepSequences
<1>17. CASE Media
  <2>1. Doing("media") /\ Then(<<>>) /\ UNCHANGED locals
    BY <1>17 DEF Media, StringRead
  <2>2. Call
    <3>1. ASSUME Reads, GetBytes(1)
          PROVE  Call
      BY <3>1, <1>0, <1>b, ByteRead
    <3> QED
      BY <1>17, <3>1 DEF Media, StringRead, Call
  <2> QED
    BY <2>1, <2>2, <1>l, <1>n, CallStep, StepSequences
<1>18. CASE Params
  <2>1. /\ Doing("params") /\ UNCHANGED locals
        /\ Then(<<>>) \/ Then(<<"value", "params">>)
    BY <1>18 DEF Params
  <2>2. Call
    <3>1. (IF Eof THEN 0 ELSE 1) \in Nat
      OBVIOUS
    <3>2. ASSUME Reads, GetBytes(IF Eof THEN 0 ELSE 1)
          PROVE  Call
      BY <3>1, <3>2, <1>0, ByteRead
    <3> QED
      BY <1>18, <3>2 DEF Params, Call
  <2> QED
    BY <2>1, <2>2, <1>l, <1>n, CallStep, StepSequences
<1>19. CASE PartCount
  <2>1. Doing("nr") /\ Then(<<>>) /\ Call /\ UNCHANGED <<value, body>>
    BY <1>19 DEF PartCount, Call
  <2> QED
    BY <2>1, <1>0, <1>n, CallStep, StepSequences
<1>20. CASE Parts
  <2>1. /\ Doing("parts") /\ Call /\ UNCHANGED <<value, body>>
        /\ Then(<<>>) \/ Then(Append(Part, "parts"))
    BY <1>20 DEF Parts, Call
  <2> QED
    BY <2>1, <1>0, <1>n, CallStep, StepSequences
<1>21. CASE BodyLength
  <2>1. Doing("body") /\ Then(<<>>) /\ Call /\ value' = value /\ body' \in SizeT
    BY <1>21 DEF BodyLength, Call
  <2> QED
    BY <2>1, <1>0, <1>n, CallStep, StepSequences
<1>22. CASE Data
  <2>1. Doing("data") /\ Then(<<>>) /\ Call /\ UNCHANGED <<value, body>>
    BY <1>0, <1>22 DEF Data, Call
  <2> QED
    BY <2>1, <1>0, <1>n, CallStep, StepSequences
<1>23. CASE DestroyBuffer
  BY <1>23, DestroyStep
<1>24. CASE PduType
  <2>1. /\ Doing("pdu") /\ UNCHANGED locals
        /\ Then(<<>>) \/ Then(<<"length", "push", "ctype", "items", "pop">>)
    BY <1>24 DEF PduType
  <2>2. Call
    <3>1. (IF Eof THEN 0 ELSE 1) \in Nat
      OBVIOUS
    <3> QED
      BY <1>24, <3>1, <1>0, ByteRead DEF PduType
  <2> QED
    BY <2>1, <2>2, <1>l, <1>n, CallStep, StepSequences
<1>25. CASE Content
  <2>1. Doing("content") /\ Then(<<>>) /\ Call /\ UNCHANGED <<value, body>>
    BY <1>25 DEF Content, Call
  <2> QED
    BY <2>1, <1>0, <1>n, CallStep, StepSequences
<1> QED
  BY <1>1, <1>2, <1>3, <1>4, <1>5, <1>6, <1>7, <1>8, <1>9, <1>10, <1>11, <1>12, <1>13,
     <1>26, <1>14, <1>15, <1>16, <1>17, <1>18, <1>19, <1>20, <1>21, <1>22, <1>23, <1>24, <1>25
  DEF UnpackNext

LEMMA UnpackInitInv == UnpackInit => UnpackInv
<1>1. 0 \in SizeT
  BY InputBufferAssumption DEF InputBufferAssumption, SizeT
<1> QED
  BY <1>1, BufferInitInv DEF UnpackInit, BufferInit, UnpackInv, TasksInv

LEMMA UnpackNextInv == UnpackInv /\ [UnpackNext]_unpackVars => UnpackInv' /\ [BufferNext]_bufferVars
<1>1. ASSUME UnpackInv, UnpackNext
      PROVE  UnpackInv' /\ [BufferNext]_bufferVars
  BY <1>1, UnpackStep, BufferNextInv DEF UnpackInv
<1>2. ASSUME UnpackInv, UNCHANGED unpackVars
      PROVE  UnpackInv' /\ [BufferNext]_bufferVars
  <2>1. UNCHANGED <<live, offset, limit, length, limits, todo, value, body>>
    BY <1>2 DEF unpackVars, bufferVars, locals
  <2>2. UNCHANGED bufferVars
    BY <2>1 DEF bufferVars
  <2>3. BufferInv'
    BY <1>2, <2>2, BufferNextInv DEF UnpackInv
  <2>4. TasksInv'
    BY <1>2, <2>1 DEF UnpackInv, TasksInv, Unfinished
  <2> QED
    BY <1>2, <2>1, <2>2, <2>3, <2>4 DEF UnpackInv
<1> QED
  BY <1>1, <1>2

(* Unpacking a message or a push, whatever is in it, is a sequence of calls *)
(* of an input buffer between its creation and its destruction              *)
(* (mms.c:100-108, wap_push.c:106-130).                                    *)
THEOREM UnpackUsesBuffer == UnpackSpec => BufferSpec
<1>1. UnpackInit => BufferInit
  BY DEF UnpackInit
<1> QED
  BY <1>1, UnpackInitInv, UnpackNextInv, PTL DEF UnpackSpec, BufferSpec

(* So no unpacker, with whatever lengths the message claims, starts a read  *)
(* beyond the memory the message is in, or sets a limit beyond its end.     *)
THEOREM UnpackInMemory == UnpackSpec => []ReadsInMemory
BY UnpackUsesBuffer, InputInMemory, PTL

-----------------------------------------------------------------------------
(* What the limits and the parts are at each point of unpacking.  The tasks  *)
(* left to do are read as a path of a small automaton: a stage says what    *)
(* has been read of the message so far, and Flow what is done in it and     *)
(* where that leads.  A task that stands for other tasks does not change    *)
(* where it leads.                                                          *)

(* The header of a message: between two items, within one, within its value *)
(* length, within a value length in that, its value skipped, all of it read. *)
OfMessage == {"header", "item", "claimed", "nested", "passed", "count"}

(* A body part: next, its header length read, its data length read, within  *)
(* its header, within the value of a header that makes no item, the header  *)
(* done with, and the limit popped.                                         *)
OfPart == {"part", "sized", "opened", "inside", "stopped", "ended", "taken"}

(* A push: its number, its type, its header length, its header, the end of  *)
(* that, its content.                                                       *)
OfPush == {"wap", "pdu", "claim", "within", "closing", "content"}

(* And before the next part, before the buffer goes, and after.             *)
Stages == OfMessage \cup OfPart \cup OfPush \cup {"parts", "over", "done"}

Flow ==
  {"item"} \X {"length", "number", "value", "string", "media"} \X {"item"}
  \cup {"item"} \X {"number", "value", "string"} \X {"header"}
  \cup {"claimed"} \X {"length", "number", "address", "charset", "string"} \X {"claimed"}
  \cup {"nested"} \X {"charset", "string", "skip"} \X {"nested"}
  \cup {"inside"} \X {"ctype", "media", "params", "value", "string"} \X {"inside"}
  \cup {"within"} \X {"ctype", "media", "params", "value", "string"} \X {"within"}
  \cup {<<"header", "items", "count">>, <<"item", "ctype", "count">>,
        <<"item", "params", "count">>, <<"item", "push", "claimed">>,
        <<"claimed", "push", "nested">>, <<"nested", "pop", "claimed">>,
        <<"claimed", "skip", "passed">>, <<"passed", "pop", "header">>,
        <<"passed", "pop", "count">>, <<"stopped", "value", "ended">>,
        <<"within", "value", "closing">>,
        <<"count", "nr", "parts">>, <<"parts", "parts", "over">>,
        <<"part", "length", "sized">>, <<"sized", "body", "opened">>,
        <<"opened", "push", "inside">>, <<"inside", "items", "ended">>,
        <<"ended", "pop", "taken">>, <<"taken", "data", "parts">>,
        <<"wap", "number", "pdu">>, <<"pdu", "pdu", "content">>,
        <<"claim", "length", "claim">>, <<"claim", "push", "within">>,
        <<"within", "items", "closing">>, <<"closing", "pop", "content">>,
        <<"content", "content", "over">>, <<"over", "destroy", "done">>}

Along(path, tasks) ==
  /\ Len(path) = Len(tasks) + 1
  /\ \A i \in 1 .. Len(tasks) : <<path[i], tasks[i], path[i + 1]>> \in Flow

Leads(s, tasks, u) ==
  \E path \in Seq(Stages) : Along(path, tasks) /\ path[1] = s /\ path[Len(path)] = u

LEMMA LeadsNowhere ==
  ASSUME NEW s \in Stages
  PROVE  Leads(s, <<>>, s)
<1> DEFINE path == <<s>>
<1>1. path \in Seq(Stages) /\ Len(path) = 1 /\ path[1] = s /\ Len(<<>>) = 0
  OBVIOUS
<1> HIDE DEF path
<1> QED
  BY <1>1 DEF Leads, Along

(* The first task, and the stage after it.                                  *)
LEMMA LeadsFirst ==
  ASSUME NEW tasks \in Seq(Tasks), tasks # <<>>, NEW s, NEW u, Leads(s, tasks, u)
  PROVE  \E m \in Stages : <<s, Head(tasks), m>> \in Flow /\ Leads(m, Tail(tasks), u)
<1>1. PICK path \in Seq(Stages) :
        /\ Len(path) = Len(tasks) + 1
        /\ path[1] = s /\ path[Len(path)] = u
        /\ \A i \in 1 .. Len(tasks) : <<path[i], tasks[i], path[i + 1]>> \in Flow
  BY DEF Leads, Along
<1>2. Len(tasks) \in Nat /\ Len(tasks) >= 1 /\ Head(tasks) = tasks[1]
  BY EmptySeq
<1>3. /\ Tail(tasks) \in Seq(Tasks) /\ Len(Tail(tasks)) = Len(tasks) - 1
      /\ \A i \in 1 .. Len(Tail(tasks)) : Tail(tasks)[i] = tasks[i + 1]
  BY HeadTailProperties
<1>4. path # <<>>
  BY <1>1, <1>2, EmptySeq
<1>5. /\ Tail(path) \in Seq(Stages) /\ Len(Tail(path)) = Len(path) - 1
      /\ \A i \in 1 .. Len(Tail(path)) : Tail(path)[i] = path[i + 1]
  BY <1>4, HeadTailProperties
<1> DEFINE rest == Tail(path)
           n == Len(tasks)
           t == Tail(tasks)
<1> HIDE DEF rest, n, t
<1>6. /\ rest \in Seq(Stages) /\ Len(rest) = n /\ n \in Nat /\ n >= 1 /\ Len(path) = n + 1
      /\ Len(t) = n - 1
      /\ \A i \in 1 .. n : rest[i] = path[i + 1]
      /\ \A i \in 1 .. n - 1 : t[i] = tasks[i + 1]
  BY <1>1, <1>2, <1>3, <1>5 DEF rest, n, t
<1>7. path[2] \in Stages /\ rest[1] = path[2] /\ rest[Len(rest)] = u
  <2>1. 2 \in 1 .. Len(path) /\ 1 \in 1 .. n /\ n \in 1 .. n
    BY <1>6
  <2> QED
    BY <1>1, <1>6, <2>1, ElementOfSeq
<1>8. \A i \in 1 .. n - 1 : <<rest[i], t[i], rest[i + 1]>> \in Flow
  <2> SUFFICES ASSUME NEW i \in 1 .. n - 1
               PROVE  <<rest[i], t[i], rest[i + 1]>> \in Flow
    OBVIOUS
  <2>1. i \in 1 .. n /\ i + 1 \in 1 .. n
    BY <1>6
  <2>2. <<path[i + 1], tasks[i + 1], path[i + 1 + 1]>> \in Flow
    BY <1>1, <2>1 DEF n
  <2> QED
    BY <1>6, <2>1, <2>2
<1>9. Leads(path[2], t, u)
  <2>1. Len(rest) = Len(t) + 1 /\ \A i \in 1 .. Len(t) : <<rest[i], t[i], rest[i + 1]>> \in Flow
    BY <1>6, <1>8
  <2> QED
    BY <1>6, <1>7, <2>1 DEF Leads, Along
<1>10. <<s, Head(tasks), path[2]>> \in Flow
  BY <1>1, <1>2
<1> QED
  BY <1>7, <1>9, <1>10 DEF t

(* One way after another.                                                   *)
LEMMA LeadsThrough ==
  ASSUME NEW a \in Seq(Tasks), NEW b \in Seq(Tasks), NEW s, NEW m, NEW u,
         Leads(s, a, m), Leads(m, b, u)
  PROVE  Leads(s, a \o b, u)
<1>1. PICK p \in Seq(Stages) :
        /\ Len(p) = Len(a) + 1
        /\ p[1] = s /\ p[Len(p)] = m
        /\ \A i \in 1 .. Len(a) : <<p[i], a[i], p[i + 1]>> \in Flow
  BY DEF Leads, Along
<1>2. PICK q \in Seq(Stages) :
        /\ Len(q) = Len(b) + 1
        /\ q[1] = m /\ q[Len(q)] = u
        /\ \A i \in 1 .. Len(b) : <<q[i], b[i], q[i + 1]>> \in Flow
  BY DEF Leads, Along
<1> DEFINE k == Len(a)
           n == Len(b)
           path == [i \in 1 .. k + n + 1 |-> IF i <= k THEN p[i] ELSE q[i - k]]
<1>3. k \in Nat /\ n \in Nat
  OBVIOUS
<1>4. /\ a \o b \in Seq(Tasks) /\ Len(a \o b) = k + n
      /\ \A i \in 1 .. k + n : (a \o b)[i] = IF i <= k THEN a[i] ELSE b[i - k]
  BY ConcatProperties
<1> DEFINE ab == a \o b
<1> HIDE DEF k, n, ab
<1>5. \A i \in 1 .. k + n + 1 : path[i] \in Stages
  <2> SUFFICES ASSUME NEW i \in 1 .. k + n + 1
               PROVE  path[i] \in Stages
    OBVIOUS
  <2>1. CASE i <= k
    <3>1. i \in 1 .. Len(p)
      BY <1>1, <1>3, <2>1 DEF k
    <3> QED
      BY <2>1, <3>1, ElementOfSeq
  <2>2. CASE ~(i <= k)
    <3>1. i - k \in 1 .. Len(q)
      BY <1>2, <1>3, <2>2 DEF n
    <3> QED
      BY <2>2, <3>1, ElementOfSeq
  <2> QED
    BY <2>1, <2>2
<1>6. path \in Seq(Stages) /\ Len(path) = k + n + 1
  <2> DEFINE l == k + n + 1
  <2>1. l \in Nat /\ path = [i \in 1 .. l |-> IF i <= k THEN p[i] ELSE q[i - k]]
    BY <1>3
  <2>2. \A i \in 1 .. l : path[i] \in Stages
    BY <1>5
  <2> HIDE DEF l
  <2>3. path \in [1 .. l -> Stages]
    BY <2>1, <2>2
  <2> HIDE DEF path
  <2>4. path \in Seq(Stages) /\ Len(path) = l
    BY <2>1, <2>3
  <2> QED
    BY <2>4 DEF l
<1>in. /\ \A i \in 1 .. k + n + 1 : i <= k => path[i] = p[i]
       /\ \A j \in 1 .. n + 1 : path[k + j] = q[j]
  <2>1. \A i \in 1 .. k + n + 1 : i <= k => path[i] = p[i]
    OBVIOUS
  <2>2. ASSUME NEW j \in 1 .. n + 1 PROVE path[k + j] = q[j]
    <3>1. k + j \in 1 .. k + n + 1 /\ ~(k + j <= k) /\ (k + j) - k = j
      BY <1>3
    <3>2. path[k + j] = q[(k + j) - k]
      BY <3>1
    <3> QED
      BY <3>1, <3>2
  <2> QED
    BY <2>1, <2>2
<1> HIDE DEF path
<1>7. path[1] = s
  <2>1. 1 \in 1 .. k + n + 1
    BY <1>3
  <2>2. CASE k = 0
    <3>1. k + 1 = 1 /\ 1 \in 1 .. n + 1
      BY <1>3, <2>2
    <3>2. path[k + 1] = q[1] /\ p[1] = m
      BY <1>1, <1>in, <2>2, <3>1 DEF k
    <3> QED
      BY <1>1, <1>2, <3>1, <3>2
  <2>3. CASE k # 0
    <3>1. 1 <= k
      BY <1>3, <2>3
    <3> QED
      BY <1>1, <1>in, <2>1, <3>1
  <2> QED
    BY <2>2, <2>3
<1>8. path[k + n + 1] = u
  <2>1. n + 1 \in 1 .. n + 1 /\ k + (n + 1) = k + n + 1
    BY <1>3
  <2>2. path[k + (n + 1)] = q[n + 1]
    BY <1>in, <2>1
  <2> QED
    BY <1>2, <2>1, <2>2 DEF n
<1>9. \A i \in 1 .. k + n : <<path[i], ab[i], path[i + 1]>> \in Flow
  <2> SUFFICES ASSUME NEW i \in 1 .. k + n
               PROVE  <<path[i], ab[i], path[i + 1]>> \in Flow
    OBVIOUS
  <2>1. CASE i < k
    <3>1. path[i] = p[i] /\ path[i + 1] = p[i + 1] /\ ab[i] = a[i] /\ i \in 1 .. k
      <4>1. /\ i \in 1 .. k /\ i <= k /\ i + 1 <= k
            /\ i \in 1 .. k + n + 1 /\ i + 1 \in 1 .. k + n + 1
        BY <1>3, <2>1
      <4>2. path[i] = p[i] /\ path[i + 1] = p[i + 1]
        BY <1>in, <4>1
      <4>3. ab[i] = a[i]
        BY <1>4, <4>1 DEF ab
      <4> QED
        BY <4>1, <4>2, <4>3
    <3> QED
      BY <1>1, <3>1 DEF k
  <2>2. CASE i = k
    <3>1. path[i] = p[i] /\ path[i + 1] = q[1] /\ ab[i] = a[i] /\ i \in 1 .. k
      <4>1. i \in 1 .. k /\ i <= k /\ i \in 1 .. k + n + 1 /\ 1 \in 1 .. n + 1 /\ i + 1 = k + 1
        BY <1>3, <2>2
      <4>2. path[i] = p[i] /\ path[k + 1] = q[1]
        BY <1>in, <4>1
      <4>3. ab[i] = a[i]
        BY <1>4, <4>1 DEF ab
      <4> QED
        BY <4>1, <4>2, <4>3
    <3>2. q[1] = p[i + 1]
      BY <1>1, <1>2, <2>2 DEF k
    <3> QED
      BY <1>1, <3>1, <3>2 DEF k
  <2>3. CASE i > k
    <3>1. path[i] = q[i - k] /\ path[i + 1] = q[i - k + 1] /\ ab[i] = b[i - k] /\ i - k \in 1 .. n
      <4> DEFINE j == i - k
      <4>1. /\ j \in 1 .. n /\ j \in 1 .. n + 1 /\ j + 1 \in 1 .. n + 1 /\ ~(i <= k)
            /\ i \in 1 .. k + n /\ k + j = i /\ k + (j + 1) = i + 1
        BY <1>3, <2>3
      <4>2. ab[i] = b[j]
        BY <1>4, <4>1 DEF ab
      <4> HIDE DEF j
      <4>3. path[k + j] = q[j] /\ path[k + (j + 1)] = q[j + 1]
        BY <1>in, <4>1
      <4>4. path[i] = q[j] /\ path[i + 1] = q[j + 1] /\ ab[i] = b[j] /\ j \in 1 .. n
        BY <4>1, <4>2, <4>3
      <4> QED
        BY <4>4 DEF j
    <3> QED
      BY <1>2, <3>1 DEF n
  <2> QED
    BY <1>3, <2>1, <2>2, <2>3
<1>10. /\ Len(path) = Len(ab) + 1 /\ path[Len(path)] = u
       /\ \A i \in 1 .. Len(ab) : <<path[i], ab[i], path[i + 1]>> \in Flow
  BY <1>4, <1>6, <1>8, <1>9 DEF ab
<1>11. Leads(s, ab, u)
  BY <1>6, <1>7, <1>10 DEF Leads, Along
<1> QED
  BY <1>11 DEF ab

(* Where the tasks an action puts before the rest lead.                     *)
LEMMA LeadsThere ==
  /\ Leads("header", <<"items", "nr", "parts", "destroy">>, "done")
  /\ Leads("wap", <<"number", "pdu", "content", "destroy">>, "done")
  /\ Leads("item", <<"string", "items">>, "count")
  /\ Leads("item", Append(<<"value">>, "items"), "count")
  /\ Leads("item", Append(EncodedString, "items"), "count")
  /\ Leads("item", Append(From, "items"), "count")
  /\ Leads("item", <<"number", "number", "number", "items">>, "count")
  /\ Leads("item", <<"ctype">>, "count")
  /\ Leads("item", <<"media", "params">>, "count")
  /\ Leads("item", <<"value", "params">>, "count")
  /\ Leads("claimed", <<"string">>, "claimed")
  /\ Leads("claimed", EncodedString, "claimed")
  /\ Leads("part", Append(Part, "parts"), "over")
  /\ Leads("claim", <<"length", "push", "ctype", "items", "pop">>, "content")
  /\ Leads("inside", <<"string", "items">>, "ended")
  /\ Leads("within", <<"string", "items">>, "closing")
  /\ Leads("inside", <<"value", "items">>, "ended")
  /\ Leads("inside", <<"media", "params">>, "inside")
  /\ Leads("inside", <<"value", "params">>, "inside")
  /\ Leads("within", <<"value", "items">>, "closing")
  /\ Leads("within", <<"media", "params">>, "within")
  /\ Leads("within", <<"value", "params">>, "within")
  /\ Leads("item", EncodedString, "count")
  /\ Leads("item", From, "count")
  /\ Leads("stopped", <<"value">>, "ended")
  /\ Leads("within", <<"value">>, "closing")
<1>1. Leads("header", <<"items", "nr", "parts", "destroy">>, "done")
  <2> DEFINE path == <<"header", "count", "parts", "over", "done">>
  <2>1. path \in Seq(Stages) /\ path[1] = "header" /\ path[Len(path)] = "done"
    BY DEF Stages, OfMessage, OfPart, OfPush
  <2>2. Along(path, <<"items", "nr", "parts", "destroy">>)
    BY DEF Along, Flow
  <2> QED
    BY <2>1, <2>2 DEF Leads
<1>2. Leads("wap", <<"number", "pdu", "content", "destroy">>, "done")
  <2> DEFINE path == <<"wap", "pdu", "content", "over", "done">>
  <2>1. path \in Seq(Stages) /\ path[1] = "wap" /\ path[Len(path)] = "done"
    BY DEF Stages, OfMessage, OfPart, OfPush
  <2>2. Along(path, <<"number", "pdu", "content", "destroy">>)
    BY DEF Along, Flow
  <2> QED
    BY <2>1, <2>2 DEF Leads
<1>3. Leads("item", <<"string", "items">>, "count")
  <2> DEFINE path == <<"item", "header", "count">>
  <2>1. path \in Seq(Stages) /\ path[1] = "item" /\ path[Len(path)] = "count"
    BY DEF Stages, OfMessage, OfPart, OfPush
  <2>2. Along(path, <<"string", "items">>)
    BY DEF Along, Flow
  <2> QED
    BY <2>1, <2>2 DEF Leads
<1>4. Leads("item", Append(<<"value">>, "items"), "count")
  <2> DEFINE path == <<"item", "header", "count">>
  <2>1. path \in Seq(Stages) /\ path[1] = "item" /\ path[Len(path)] = "count"
    BY DEF Stages, OfMessage, OfPart, OfPush
  <2>2. Along(path, Append(<<"value">>, "items"))
    BY DEF Along, Flow
  <2> QED
    BY <2>1, <2>2 DEF Leads
<1>5. Leads("item", Append(EncodedString, "items"), "count")
  <2> DEFINE path == <<"item", "item", "claimed", "claimed",
                       "claimed", "passed", "header", "count">>
  <2>1. path \in Seq(Stages) /\ path[1] = "item" /\ path[Len(path)] = "count"
    BY DEF Stages, OfMessage, OfPart, OfPush
  <2>2. Along(path, Append(EncodedString, "items"))
    BY DEF Along, Flow, EncodedString
  <2> QED
    BY <2>1, <2>2 DEF Leads
<1>6. Leads("item", Append(From, "items"), "count")
  <2> DEFINE path == <<"item", "item", "claimed", "claimed",
                       "claimed", "passed", "header", "count">>
  <2>1. path \in Seq(Stages) /\ path[1] = "item" /\ path[Len(path)] = "count"
    BY DEF Stages, OfMessage, OfPart, OfPush
  <2>2. Along(path, Append(From, "items"))
    BY DEF Along, Flow, From
  <2> QED
    BY <2>1, <2>2 DEF Leads
<1>7. Leads("item", <<"number", "number", "number", "items">>, "count")
  <2> DEFINE path == <<"item", "item", "item", "header", "count">>
  <2>1. path \in Seq(Stages) /\ path[1] = "item" /\ path[Len(path)] = "count"
    BY DEF Stages, OfMessage, OfPart, OfPush
  <2>2. Along(path, <<"number", "number", "number", "items">>)
    BY DEF Along, Flow
  <2> QED
    BY <2>1, <2>2 DEF Leads
<1>8. Leads("item", <<"ctype">>, "count")
  <2> DEFINE path == <<"item", "count">>
  <2>1. path \in Seq(Stages) /\ path[1] = "item" /\ path[Len(path)] = "count"
    BY DEF Stages, OfMessage, OfPart, OfPush
  <2>2. Along(path, <<"ctype">>)
    BY DEF Along, Flow
  <2> QED
    BY <2>1, <2>2 DEF Leads
<1>9. Leads("item", <<"media", "params">>, "count")
  <2> DEFINE path == <<"item", "item", "count">>
  <2>1. path \in Seq(Stages) /\ path[1] = "item" /\ path[Len(path)] = "count"
    BY DEF Stages, OfMessage, OfPart, OfPush
  <2>2. Along(path, <<"media", "params">>)
    BY DEF Along, Flow
  <2> QED
    BY <2>1, <2>2 DEF Leads
<1>10. Leads("item", <<"value", "params">>, "count")
  <2> DEFINE path == <<"item", "item", "count">>
  <2>1. path \in Seq(Stages) /\ path[1] = "item" /\ path[Len(path)] = "count"
    BY DEF Stages, OfMessage, OfPart, OfPush
  <2>2. Along(path, <<"value", "params">>)
    BY DEF Along, Flow
  <2> QED
    BY <2>1, <2>2 DEF Leads
<1>11. Leads("claimed", <<"string">>, "claimed")
  <2> DEFINE path == <<"claimed", "claimed">>
  <2>1. path \in Seq(Stages) /\ path[1] = "claimed" /\ path[Len(path)] = "claimed"
    BY DEF Stages, OfMessage, OfPart, OfPush
  <2>2. Along(path, <<"string">>)
    BY DEF Along, Flow
  <2> QED
    BY <2>1, <2>2 DEF Leads
<1>12. Leads("claimed", EncodedString, "claimed")
  <2> DEFINE path == <<"claimed", "claimed", "nested",
                       "nested", "nested", "nested", "claimed">>
  <2>1. path \in Seq(Stages) /\ path[1] = "claimed" /\ path[Len(path)] = "claimed"
    BY DEF Stages, OfMessage, OfPart, OfPush
  <2>2. Along(path, EncodedString)
    BY DEF Along, Flow, EncodedString
  <2> QED
    BY <2>1, <2>2 DEF Leads
<1>13. Leads("part", Append(Part, "parts"), "over")
  <2> DEFINE path == <<"part", "sized", "opened", "inside",
                       "inside", "ended", "taken", "parts", "over">>
  <2>1. path \in Seq(Stages) /\ path[1] = "part" /\ path[Len(path)] = "over"
    BY DEF Stages, OfMessage, OfPart, OfPush
  <2>2. Along(path, Append(Part, "parts"))
    BY DEF Along, Flow, Part
  <2> QED
    BY <2>1, <2>2 DEF Leads
<1>14. Leads("claim", <<"length", "push", "ctype", "items", "pop">>, "content")
  <2> DEFINE path == <<"claim", "claim", "within", "within", "closing", "content">>
  <2>1. path \in Seq(Stages) /\ path[1] = "claim" /\ path[Len(path)] = "content"
    BY DEF Stages, OfMessage, OfPart, OfPush
  <2>2. Along(path, <<"length", "push", "ctype", "items", "pop">>)
    BY DEF Along, Flow
  <2> QED
    BY <2>1, <2>2 DEF Leads
<1>15. Leads("inside", <<"string", "items">>, "ended")
  <2> DEFINE path == <<"inside", "inside", "ended">>
  <2>1. path \in Seq(Stages) /\ path[1] = "inside" /\ path[Len(path)] = "ended"
    BY DEF Stages, OfMessage, OfPart, OfPush
  <2>2. Along(path, <<"string", "items">>)
    BY DEF Along, Flow
  <2> QED
    BY <2>1, <2>2 DEF Leads
<1>16. Leads("within", <<"string", "items">>, "closing")
  <2> DEFINE path == <<"within", "within", "closing">>
  <2>1. path \in Seq(Stages) /\ path[1] = "within" /\ path[Len(path)] = "closing"
    BY DEF Stages, OfMessage, OfPart, OfPush
  <2>2. Along(path, <<"string", "items">>)
    BY DEF Along, Flow
  <2> QED
    BY <2>1, <2>2 DEF Leads
<1>17. Leads("inside", <<"value", "items">>, "ended")
  <2> DEFINE path == <<"inside", "inside", "ended">>
  <2>1. path \in Seq(Stages) /\ path[1] = "inside" /\ path[Len(path)] = "ended"
    BY DEF Stages, OfMessage, OfPart, OfPush
  <2>2. Along(path, <<"value", "items">>)
    BY DEF Along, Flow
  <2> QED
    BY <2>1, <2>2 DEF Leads
<1>18. Leads("inside", <<"media", "params">>, "inside")
  <2> DEFINE path == <<"inside", "inside", "inside">>
  <2>1. path \in Seq(Stages) /\ path[1] = "inside" /\ path[Len(path)] = "inside"
    BY DEF Stages, OfMessage, OfPart, OfPush
  <2>2. Along(path, <<"media", "params">>)
    BY DEF Along, Flow
  <2> QED
    BY <2>1, <2>2 DEF Leads
<1>19. Leads("inside", <<"value", "params">>, "inside")
  <2> DEFINE path == <<"inside", "inside", "inside">>
  <2>1. path \in Seq(Stages) /\ path[1] = "inside" /\ path[Len(path)] = "inside"
    BY DEF Stages, OfMessage, OfPart, OfPush
  <2>2. Along(path, <<"value", "params">>)
    BY DEF Along, Flow
  <2> QED
    BY <2>1, <2>2 DEF Leads
<1>20. Leads("within", <<"value", "items">>, "closing")
  <2> DEFINE path == <<"within", "within", "closing">>
  <2>1. path \in Seq(Stages) /\ path[1] = "within" /\ path[Len(path)] = "closing"
    BY DEF Stages, OfMessage, OfPart, OfPush
  <2>2. Along(path, <<"value", "items">>)
    BY DEF Along, Flow
  <2> QED
    BY <2>1, <2>2 DEF Leads
<1>21. Leads("within", <<"media", "params">>, "within")
  <2> DEFINE path == <<"within", "within", "within">>
  <2>1. path \in Seq(Stages) /\ path[1] = "within" /\ path[Len(path)] = "within"
    BY DEF Stages, OfMessage, OfPart, OfPush
  <2>2. Along(path, <<"media", "params">>)
    BY DEF Along, Flow
  <2> QED
    BY <2>1, <2>2 DEF Leads
<1>22. Leads("within", <<"value", "params">>, "within")
  <2> DEFINE path == <<"within", "within", "within">>
  <2>1. path \in Seq(Stages) /\ path[1] = "within" /\ path[Len(path)] = "within"
    BY DEF Stages, OfMessage, OfPart, OfPush
  <2>2. Along(path, <<"value", "params">>)
    BY DEF Along, Flow
  <2> QED
    BY <2>1, <2>2 DEF Leads
<1>23. Leads("item", EncodedString, "count")
  <2> DEFINE path == <<"item", "item", "claimed", "claimed", "claimed", "passed", "count">>
  <2>1. path \in Seq(Stages) /\ path[1] = "item" /\ path[Len(path)] = "count"
    BY DEF Stages, OfMessage, OfPart, OfPush
  <2>2. Along(path, EncodedString)
    BY DEF Along, Flow, EncodedString
  <2> QED
    BY <2>1, <2>2 DEF Leads
<1>24. Leads("item", From, "count")
  <2> DEFINE path == <<"item", "item", "claimed", "claimed", "claimed", "passed", "count">>
  <2>1. path \in Seq(Stages) /\ path[1] = "item" /\ path[Len(path)] = "count"
    BY DEF Stages, OfMessage, OfPart, OfPush
  <2>2. Along(path, From)
    BY DEF Along, Flow, From
  <2> QED
    BY <2>1, <2>2 DEF Leads
<1>25. Leads("stopped", <<"value">>, "ended")
  <2> DEFINE path == <<"stopped", "ended">>
  <2>1. path \in Seq(Stages) /\ path[1] = "stopped" /\ path[Len(path)] = "ended"
    BY DEF Stages, OfMessage, OfPart, OfPush
  <2>2. Along(path, <<"value">>)
    BY DEF Along, Flow
  <2> QED
    BY <2>1, <2>2 DEF Leads
<1>26. Leads("within", <<"value">>, "closing")
  <2> DEFINE path == <<"within", "closing">>
  <2>1. path \in Seq(Stages) /\ path[1] = "within" /\ path[Len(path)] = "closing"
    BY DEF Stages, OfMessage, OfPart, OfPush
  <2>2. Along(path, <<"value">>)
    BY DEF Along, Flow
  <2> QED
    BY <2>1, <2>2 DEF Leads
<1> QED
  BY <1>1, <1>2, <1>3, <1>4, <1>5, <1>6, <1>7, <1>8, <1>9, <1>10, <1>11, <1>12, <1>13, <1>14,
     <1>15, <1>16, <1>17, <1>18, <1>19, <1>20, <1>21, <1>22, <1>23, <1>24, <1>25, <1>26

(* The limits in force at a stage, one within the other: at most as many as *)
(* the pops that are still to come, fewer when a push was refused.          *)
Depth(s) ==
  CASE s = "nested" -> 2
    [] s \in {"claimed", "passed", "inside", "stopped", "ended", "within", "closing"} -> 1
    [] OTHER -> 0

LimitsAt(s) ==
  /\ limit = IF limits = <<>> THEN length ELSE limits[Len(limits)]
  /\ Len(limits) <= Depth(s)

(* In the header of a message, the value length of the item is the limit    *)
(* that its value is skipped to.                                            *)
DeclaredAt(s) ==
  /\ s \in OfMessage => codec = "mms"
  /\ s \in OfPart \cup OfPush => codec = "wsp"
  /\ s = "header" /\ declared \in SizeT => offset = declared
  /\ s = "item" => declared = None
  /\ s \in {"claimed", "passed", "nested"} => declared # None
  /\ s \in {"claimed", "passed"} /\ declared \in SizeT => limits = <<declared>>
  /\ s = "passed" /\ declared \in SizeT => offset = declared
  /\ s = "nested" /\ declared \in SizeT => Len(limits) = 2 /\ limits[1] = declared

LastPart == body_parts[Len(body_parts)]

(* The header of this part is all in the message, and no string in it ran   *)
(* past its end.                                                            *)
Fits == ~overran /\ LastPart.head + value <= length

(* The offset is where the data of this part is to begin.                   *)
Taken ==
  /\ offset <= LastPart.head + value
  /\ ~cut => offset = LastPart.head + value

(* No part before the first one; each one begins behind the data of the one *)
(* before it, and its own data where its header ends, or before that when a *)
(* header of it made no item.                                               *)
PartsAt(s) ==
  /\ DataInMessage
  /\ s \in OfMessage \cup OfPush => body_parts = <<>>
  /\ s \in {"parts", "part"} /\ body_parts # <<>> /\ LastPart.data # None /\ ~wrapped =>
       LastPart.data + LastPart.length <= offset
  /\ s = "part" => ~Eof
  /\ s = "sized" /\ body_parts # <<>> /\ LastPart.data # None /\ ~wrapped =>
       LastPart.data + LastPart.length < offset
  /\ s \in {"opened", "inside", "stopped", "ended", "taken"} =>
       /\ body_parts # <<>> /\ LastPart.data = None /\ ~LastPart.plain
       /\ LastPart.headLength = value /\ LastPart.head <= offset
  /\ s = "opened" => LastPart.head = offset
  /\ s \in {"inside", "stopped"} /\ Fits => limit = LastPart.head + value /\ offset <= limit
  /\ s = "stopped" => cut
  /\ s \in {"ended", "taken"} /\ Fits => Taken

At(s) == (live <=> s # "done") /\ LimitsAt(s) /\ DeclaredAt(s) /\ PartsAt(s)

(* The inductive invariant of the unpackers: the tasks left to do are those *)
(* of a stage at which the state is what the stage says.                    *)
StagesInv ==
  \/ todo = <<"aborted">> /\ DataInMessage
  \/ \E s \in Stages : Leads(s, todo, "done") /\ At(s)

PartType ==
  [head : SizeT, headLength : SizeT, data : SizeT \cup {None}, length : SizeT,
   plain : BOOLEAN, cut : BOOLEAN]

LocalsTyped ==
  /\ codec \in {"mms", "wsp"} /\ end \in SizeT /\ nr \in Nat
  /\ body_parts \in Seq(PartType)
  /\ declared \in SizeT \cup {None, Refused}
  /\ overran \in BOOLEAN /\ cut \in BOOLEAN /\ wrapped \in BOOLEAN

StagedInv == UnpackInv /\ LocalsTyped /\ StagesInv

(* The tasks are tasks, in every state.                                     *)
LEMMA TodoTyped ==
  ASSUME TasksInv
  PROVE  todo \in Seq(Tasks)
<1>1. Steps \subseteq Tasks /\ "destroy" \in Tasks /\ "aborted" \in Tasks
  BY DEF Steps, Tasks
<1>2. CASE todo = <<>> \/ todo = <<"aborted">>
  <2>1. <<>> \in Seq(Tasks)
    BY EmptySeq
  <2>2. <<"aborted">> \in Seq(Tasks)
    BY <1>1
  <2> QED
    BY <1>2, <2>1, <2>2
<1>3. CASE Unfinished
  <2>1. PICK t \in Seq(Steps) : todo = Append(t, "destroy")
    BY <1>3 DEF Unfinished
  <2>2. t \in Seq(Tasks)
    BY <1>1, SeqMonotonic
  <2> QED
    BY <1>1, <2>1, <2>2, AppendProperties
<1> QED
  BY <1>2, <1>3 DEF TasksInv

(* What is done first, and where the rest leads once other tasks have taken *)
(* its place.                                                               *)
LEMMA Onward ==
  ASSUME TasksInv, NEW s \in Stages, Leads(s, todo, "done"), NEW task, Doing(task)
  PROVE  \E m \in Stages :
           /\ <<s, task, m>> \in Flow
           /\ Then(<<>>) => Leads(m, todo', "done")
           /\ \A n \in Stages, tasks \in Seq(Tasks) :
                Then(tasks) /\ Leads(n, tasks, m) => Leads(n, todo', "done")
<1>1. todo \in Seq(Tasks) /\ todo # <<>> /\ Head(todo) = task
  BY TodoTyped DEF Doing
<1>2. Tail(todo) \in Seq(Tasks)
  BY <1>1, HeadTailProperties
<1>3. PICK m \in Stages : <<s, task, m>> \in Flow /\ Leads(m, Tail(todo), "done")
  BY <1>1, LeadsFirst
<1>4. ASSUME NEW n \in Stages, NEW tasks \in Seq(Tasks), Then(tasks), Leads(n, tasks, m)
      PROVE  Leads(n, todo', "done")
  <2>1. Leads(n, tasks \o Tail(todo), "done")
    BY <1>2, <1>3, <1>4, LeadsThrough
  <2> QED
    BY <1>4, <2>1 DEF Then
<1>5. ASSUME Then(<<>>)
      PROVE  Leads(m, todo', "done")
  <2>1. <<>> \in Seq(Tasks) /\ Leads(m, <<>>, m)
    BY LeadsNowhere, EmptySeq
  <2> QED
    BY <1>4, <1>5, <2>1
<1> QED
  BY <1>3, <1>4, <1>5

-----------------------------------------------------------------------------
(* What a step leaves true of a stage.                                      *)

LEMMA DepthIs ==
  \A s \in Stages :
    /\ Depth(s) \in Nat
    /\ s = "nested" => Depth(s) = 2
    /\ s \in {"claimed", "passed", "inside", "stopped", "ended", "within", "closing"} =>
         Depth(s) = 1
    /\ s \notin {"nested", "claimed", "passed", "inside", "stopped", "ended", "within",
                  "closing"} =>
         Depth(s) = 0
BY DEF Depth

(* The buffer as the steps need it.                                         *)
LEMMA BufferTyped ==
  ASSUME BufferInv
  PROVE  /\ offset \in Nat /\ limit \in Nat /\ length \in Nat /\ Word \in Nat /\ Beyond \in Nat
         /\ MAX_LIMITS \in Nat /\ MAX_LIMITS >= 1
         /\ limits \in Seq(SizeT) /\ Len(limits) \in Nat
         /\ offset \in SizeT /\ limit \in SizeT /\ length \in SizeT /\ limit <= length
         /\ offset < Word /\ length < Word /\ SizeT \subseteq Nat
BY InputBufferAssumption
DEF BufferInv, BufferTypeOK, ReadsInMemory, FitsWord, SizeT, InputBufferAssumption

LEMMA LimitsStay ==
  ASSUME BufferInv, NEW s \in Stages, NEW m \in Stages, LimitsAt(s), Depth(s) <= Depth(m),
         UNCHANGED <<length, limit, limits>>
  PROVE  LimitsAt(m)'
<1>1. Len(limits) \in Nat /\ Depth(s) \in Nat /\ Depth(m) \in Nat
  BY BufferTyped, DepthIs
<1> QED
  BY <1>1 DEF LimitsAt

(* The parts that are there stay as they should be.                         *)
LEMMA DataStays ==
  ASSUME DataInMessage, UNCHANGED body_parts, live' => live /\ length' = length, wrapped => wrapped'
  PROVE  DataInMessage'
BY DEF DataInMessage

LEMMA NoData ==
  ASSUME body_parts' = <<>>
  PROVE  DataInMessage'
<1>1. Len(body_parts') = 0
  BY EmptySeq
<1> QED
  BY <1>1 DEF DataInMessage

(* Before the first part nothing is to be said of parts.                    *)
LEMMA EarlyParts ==
  ASSUME body_parts' = <<>>, NEW m \in OfMessage \cup OfPush
  PROVE  PartsAt(m)'
BY NoData DEF PartsAt, OfMessage, OfPush

(* A read of the header of a message or a push, or of a call of it, that     *)
(* neither begins nor ends a value length.                                  *)
Quiet ==
  {<<"item", "item">>, <<"item", "header">>, <<"item", "count">>, <<"header", "count">>,
   <<"claimed", "claimed">>, <<"nested", "nested">>, <<"wap", "pdu">>, <<"pdu", "content">>,
   <<"pdu", "claim">>, <<"claim", "claim">>, <<"within", "within">>, <<"within", "closing">>}

LEMMA QuietStep ==
  ASSUME BufferInv, NEW s \in Stages, NEW m \in Stages, At(s), <<s, m>> \in Quiet,
         UNCHANGED <<live, length, limit, limits, codec, body_parts>>,
         declared' = declared \/ codec = "wsp"
  PROVE  At(m)'
<1>1. /\ s \in OfMessage \cup OfPush /\ m \in OfMessage \cup OfPush /\ m # "done" /\ s # "done"
      /\ s \in OfMessage <=> m \in OfMessage
  BY DEF Quiet, OfMessage, OfPush
<1>2. Depth(s) <= Depth(m)
  BY DEF Quiet, Depth
<1>3. LimitsAt(m)'
  BY <1>2, LimitsStay DEF At
<1>4. PartsAt(m)'
  BY <1>1, EarlyParts DEF At, PartsAt
<1>5. DeclaredAt(m)'
  <2>1. DeclaredAt(s) /\ None \notin SizeT
    BY DEF At, None, SizeT
  <2> QED
    BY <2>1 DEF Quiet, DeclaredAt, OfMessage, OfPart, OfPush
<1> QED
  BY <1>1, <1>3, <1>4, <1>5 DEF At

(* The first byte of a header item of a message.                            *)
LEMMA ItemStep ==
  ASSUME BufferInv, At("header"), NEW m \in {"item", "count"},
         UNCHANGED <<live, length, limit, limits, codec, body_parts>>, declared' = None
  PROVE  At(m)'
<1>1. "header" \in Stages /\ m \in Stages /\ m \in OfMessage /\ m # "done"
  BY DEF Stages, OfMessage
<1>2. LimitsAt(m)'
  <2>1. Depth("header") <= Depth(m)
    BY DEF Depth
  <2> QED
    BY <1>1, <2>1, LimitsStay DEF At
<1>3. PartsAt(m)'
  BY <1>1, EarlyParts DEF At, PartsAt, OfMessage
<1>4. DeclaredAt(m)'
  BY DEF At, DeclaredAt, OfMessage, OfPart, OfPush
<1> QED
  BY <1>1, <1>2, <1>3, <1>4 DEF At

LEMMA LastPartTyped ==
  ASSUME LocalsTyped, body_parts # <<>>
  PROVE  /\ LastPart \in PartType /\ Len(body_parts) \in Nat \ {0}
         /\ LastPart.head \in SizeT /\ LastPart.headLength \in SizeT /\ LastPart.length \in SizeT
         /\ LastPart.data \in SizeT \cup {None}
<1>1. Len(body_parts) \in Nat \ {0} /\ body_parts \in Seq(PartType)
  BY EmptySeq DEF LocalsTyped
<1>2. body_parts[Len(body_parts)] \in PartType
  BY <1>1, ElementOfSeq
<1> QED
  BY <1>1, <1>2 DEF LastPart, PartType

(* A read within the header of a part, past its end with a string only: the *)
(* header goes on, or the loop over its items is about to end or ends.      *)
LEMMA InsideStep ==
  ASSUME BufferInv, LocalsTyped, NEW s \in {"inside", "stopped"}, At(s),
         NEW m \in {"inside", "stopped", "ended"}, m # "inside" => cut',
         offset' \in Nat, offset <= offset',
         ~overran' => ~overran /\ (offset <= limit => offset' <= limit),
         UNCHANGED <<live, length, limit, limits, codec, value, body_parts>>, wrapped => wrapped'
  PROVE  At(m)'
<1>1. s \in Stages /\ m \in Stages /\ Depth(s) <= Depth(m)
  BY DEF Stages, OfPart, Depth
<1>2. LimitsAt(m)'
  BY <1>1, LimitsStay DEF At
<1>3. DeclaredAt(m)'
  BY DEF At, DeclaredAt, OfMessage, OfPart, OfPush
<1>4. PartsAt(m)'
  <2>1. DataInMessage'
    BY DataStays DEF At, PartsAt
  <2>2. LastPart' = LastPart
    BY DEF LastPart
  <2>3. /\ body_parts # <<>> /\ LastPart.data = None /\ ~LastPart.plain
        /\ LastPart.headLength = value /\ LastPart.head <= offset
        /\ Fits => limit = LastPart.head + value /\ offset <= limit
    BY DEF At, PartsAt
  <2>4. LastPart.head <= offset'
    BY <2>3, LastPartTyped, BufferTyped
  <2>5. Fits' => Fits /\ offset' <= limit'
    BY <2>2, <2>3 DEF Fits
  <2> QED
    BY <2>1, <2>2, <2>3, <2>4, <2>5 DEF PartsAt, Taken, OfMessage, OfPush
<1> QED
  BY <1>2, <1>3, <1>4 DEF At

(* ... and where it ends.                                                   *)
LEMMA EndedStep ==
  ASSUME BufferInv, At("inside"), Eof, UNCHANGED bufferVars,
         UNCHANGED <<codec, value, body_parts, overran, cut, wrapped>>
  PROVE  At("ended")'
<1>1. "inside" \in Stages /\ "ended" \in Stages /\ Depth("inside") <= Depth("ended")
  BY DEF Stages, OfPart, Depth
<1>2. LimitsAt("ended")'
  BY <1>1, LimitsStay DEF At, bufferVars
<1>3. DeclaredAt("ended")'
  BY DEF At, DeclaredAt, OfMessage, OfPart, OfPush
<1>4. PartsAt("ended")'
  <2>1. DataInMessage'
    BY DataStays DEF At, PartsAt, bufferVars
  <2>2. LastPart' = LastPart /\ offset' = offset /\ length' = length
    BY DEF LastPart, bufferVars
  <2>3. Fits => offset = LastPart.head + value
    BY BufferTyped DEF At, PartsAt, Eof
  <2>4. offset <= offset
    BY BufferTyped
  <2> QED
    BY <2>1, <2>2, <2>3, <2>4 DEF At, PartsAt, Fits, Taken, OfMessage, OfPush
<1> QED
  BY <1>2, <1>3, <1>4 DEF At, bufferVars

(* push_limit at a value length: one more limit, or a header that says so.  *)
LEMMA PushStep ==
  ASSUME BufferInv, LocalsTyped, value \in SizeT, NEW s \in Stages, NEW m \in Stages, At(s), Push,
         <<s, m>> \in {<<"item", "claimed">>, <<"claimed", "nested">>, <<"claim", "within">>,
                       <<"opened", "inside">>}
  PROVE  At(m)'
<1> DEFINE l == Plus(offset, value)
<1>1. /\ PushLimit(l) /\ UNCHANGED <<live, length, offset>>
      /\ declared' = IF ~AcceptsLimit(l) THEN Refused ELSE IF declared = None THEN l ELSE declared
      /\ UNCHANGED <<codec, value, body_parts, overran>>
      /\ wrapped => wrapped'
  BY DEF Push, locals
<1>2. l \in SizeT /\ l \in Nat
  BY BufferTyped, PlusSizeT
<1> HIDE DEF l
<1>3. /\ s # "done" /\ m # "done" /\ Len(limits) \in Nat /\ Len(limits) <= Depth(s)
      /\ Depth(m) = Depth(s) + 1 /\ Depth(s) \in Nat /\ Depth(s) <= 1
  BY BufferTyped DEF At, LimitsAt, Depth
<1>4. limits \in Seq(SizeT) /\ (Len(limits) = 0 <=> limits = <<>>)
  BY BufferTyped, EmptySeq
<1>5. ASSUME AcceptsLimit(l)
      PROVE  LimitsAt(m)' /\ DeclaredAt(m)'
  <2>1. /\ limit' = l /\ limits' = Append(limits, l) /\ l <= length
        /\ declared' = IF declared = None THEN l ELSE declared
    BY <1>1, <1>5 DEF PushLimit, AcceptsLimit
  <2>2. /\ Len(limits') = Len(limits) + 1 /\ limits' # <<>> /\ limits'[Len(limits) + 1] = l
        /\ \A i \in 1 .. Len(limits) : limits'[i] = limits[i]
    BY <1>2, <1>4, <2>1, AppendProperties
  <2>3. LimitsAt(m)'
    BY <1>3, <2>1, <2>2 DEF LimitsAt
  <2>4. DeclaredAt(m)'
    <3>1. CASE s = "item"
      <4>1. limits = <<>> /\ declared = None
        BY <1>3, <1>4, <3>1 DEF At, DeclaredAt, Depth
      <4>2. limits' = <<l>>
        BY <2>1, <4>1
      <4> QED
        BY <1>1, <1>2, <2>1, <3>1, <4>1, <4>2
        DEF At, DeclaredAt, OfMessage, OfPart, OfPush, None, SizeT
    <3>2. CASE s = "claimed"
      <4>1. declared # None /\ declared' = declared /\ codec = "mms"
        BY <2>1, <3>2 DEF At, DeclaredAt, OfMessage
      <4>2. ASSUME declared \in SizeT
            PROVE  Len(limits') = 2 /\ limits'[1] = declared
        <5>1. limits = <<declared>>
          BY <3>2, <4>2 DEF At, DeclaredAt
        <5>2. Len(limits) = 1 /\ limits[1] = declared
          BY <5>1
        <5> QED
          BY <2>2, <5>2
      <4> QED
        BY <1>1, <3>2, <4>1, <4>2 DEF DeclaredAt, OfMessage, OfPart, OfPush
    <3>3. CASE s \in {"claim", "opened"}
      BY <1>1, <3>3 DEF At, DeclaredAt, OfMessage, OfPart, OfPush
    <3> QED
      BY <3>1, <3>2, <3>3
  <2> QED
    BY <2>3, <2>4
<1>6. ASSUME ~AcceptsLimit(l)
      PROVE  LimitsAt(m)' /\ DeclaredAt(m)'
  <2>1. limit' = limit /\ limits' = limits /\ declared' = Refused
    BY <1>1, <1>6 DEF PushLimit
  <2>2. LimitsAt(m)'
    BY <1>1, <1>3, <2>1 DEF At, LimitsAt
  <2>3. DeclaredAt(m)'
    BY <1>1, <2>1 DEF At, DeclaredAt, OfMessage, OfPart, OfPush, None, Refused, SizeT
  <2> QED
    BY <2>2, <2>3
<1>7. LimitsAt(m)' /\ DeclaredAt(m)'
  BY <1>5, <1>6
<1>8. PartsAt(m)'
  <2>1. CASE s # "opened"
    <3>1. s \in OfMessage \cup OfPush /\ m \in OfMessage \cup OfPush
      BY <2>1 DEF OfMessage, OfPush
    <3> QED
      BY <1>1, <3>1, EarlyParts DEF At, PartsAt
  <2>2. CASE s = "opened"
    <3>1. /\ body_parts # <<>> /\ LastPart.data = None /\ ~LastPart.plain
          /\ LastPart.headLength = value /\ LastPart.head = offset /\ LastPart.head <= offset
      BY <2>2 DEF At, PartsAt
    <3>2. LastPart' = LastPart /\ (Fits' <=> Fits)
      BY <1>1 DEF LastPart, Fits
    <3>3. DataInMessage'
      BY <1>1, DataStays DEF At, PartsAt
    <3>4. ASSUME Fits
          PROVE  limit' = LastPart.head + value /\ offset' <= limit'
      <4>1. /\ l = offset + value /\ l <= length /\ offset <= l
        BY <3>1, <3>4, BufferTyped DEF Fits, Plus, SizeT, l
      <4>2. Len(limits) < MAX_LIMITS
        BY <1>3, <2>2, BufferTyped DEF Depth
      <4>3. limit' = l
        BY <1>1, <4>1, <4>2 DEF PushLimit, AcceptsLimit
      <4> QED
        BY <1>1, <3>1, <4>1, <4>3
    <3>5. m = "inside"
      BY <2>2
    <3> QED
      BY <1>1, <3>1, <3>2, <3>3, <3>4, <3>5 DEF PartsAt, OfMessage, OfPush
  <2> QED
    BY <2>1, <2>2
<1> QED
  BY <1>1, <1>3, <1>7, <1>8 DEF At

(* pop_limit: one limit less, if one was accepted.                          *)
LEMMA PopStep ==
  ASSUME BufferInv, LocalsTyped, value \in SizeT, NEW s \in Stages, NEW m \in Stages, At(s), Pop,
         <<s, m>> \in {<<"nested", "claimed">>, <<"passed", "header">>, <<"passed", "count">>,
                       <<"ended", "taken">>, <<"closing", "content">>}
  PROVE  At(m)'
<1>1. /\ PopLimit /\ UNCHANGED <<live, length, offset>>
      /\ UNCHANGED <<codec, value, body_parts, declared, overran, cut, wrapped>>
  BY DEF Pop, locals, history
<1>2. /\ s # "done" /\ m # "done" /\ Len(limits) \in Nat /\ Len(limits) <= Depth(s)
      /\ Depth(s) = Depth(m) + 1 /\ Depth(m) \in Nat
  BY BufferTyped DEF At, LimitsAt, Depth
<1>3. limits \in Seq(SizeT) /\ (Len(limits) = 0 <=> limits = <<>>)
  BY BufferTyped, EmptySeq
<1> DEFINE n == Len(limits)
<1>5. ASSUME limits # <<>>
      PROVE  /\ limits' \in Seq(SizeT) /\ Len(limits') = n - 1
             /\ \A i \in 1 .. n - 1 : limits'[i] = limits[i]
             /\ limits' = <<>> <=> n = 1
             /\ limit' = IF n = 1 THEN length ELSE limits[n - 1]
  <2>1. n \in Nat \ {0} /\ \A i \in 1 .. n - 1 : limits[i] \in SizeT
    BY <1>3, <1>5
  <2>2. limits' = SubSeq(limits, 1, n - 1) /\ limit' = IF n = 1 THEN length ELSE limits[n - 1]
    BY <1>1, <1>5 DEF PopLimit
  <2> HIDE DEF n
  <2>3. /\ SubSeq(limits, 1, n - 1) \in Seq(SizeT)
        /\ Len(SubSeq(limits, 1, n - 1)) = IF 1 <= n - 1 THEN n - 1 - 1 + 1 ELSE 0
        /\ \A i \in 1 .. n - 1 - 1 + 1 : SubSeq(limits, 1, n - 1)[i] = limits[1 + i - 1]
    BY <2>1, SubSeqProperties
  <2>4. n - 1 - 1 + 1 = n - 1 /\ \A i \in 1 .. n - 1 : 1 + i - 1 = i
    BY <2>1
  <2>5. /\ limits' \in Seq(SizeT) /\ Len(limits') = n - 1
        /\ \A i \in 1 .. n - 1 : limits'[i] = limits[i]
    BY <2>1, <2>2, <2>3, <2>4
  <2>6. limits' = <<>> <=> n - 1 = 0
    BY <2>5, EmptySeq
  <2> QED
    BY <2>1, <2>2, <2>5, <2>6
<1>6. LimitsAt(m)'
  <2>1. CASE limits # <<>>
    <3>1. n \in Nat \ {0} /\ (n # 1 => n - 1 \in 1 .. n - 1)
      <4>1. n \in Nat /\ n # 0
        BY <1>2, <1>3, <2>1
      <4> HIDE DEF n
      <4> QED
        BY <4>1
    <3> HIDE DEF n
    <3>2. Len(limits') <= Depth(m)
      BY <1>2, <1>5, <2>1, <3>1 DEF n
    <3>3. limit' = IF limits' = <<>> THEN length ELSE limits'[Len(limits')]
      BY <1>5, <2>1, <3>1
    <3> QED
      BY <1>1, <3>2, <3>3 DEF LimitsAt
  <2>2. CASE limits = <<>>
    <3>1. limits' = limits /\ limit' = limit /\ Len(limits) = 0
      BY <1>1, <1>3, <2>2 DEF PopLimit
    <3>2. 0 <= Depth(m) /\ limit = length
      BY <1>2, <2>2 DEF At, LimitsAt
    <3> QED
      BY <1>1, <2>2, <3>1, <3>2 DEF LimitsAt
  <2> QED
    BY <2>1, <2>2
<1>7. DeclaredAt(m)'
  <2>1. CASE s = "nested" /\ declared \in SizeT
    <3>1. Len(limits) = 2 /\ limits[1] = declared /\ declared # None /\ codec = "mms"
      BY <2>1 DEF At, DeclaredAt, OfMessage
    <3>2. limits # <<>>
      BY <1>3, <3>1
    <3>3. limits' \in Seq(SizeT) /\ Len(limits') = 1 /\ limits'[1] = declared
      BY <1>5, <3>1, <3>2
    <3>4. limits' = <<declared>>
      BY <3>3
    <3> QED
      BY <1>1, <2>1, <3>1, <3>4 DEF DeclaredAt, OfMessage, OfPart, OfPush
  <2>2. CASE s = "nested" /\ declared \notin SizeT
    BY <1>1, <2>2 DEF At, DeclaredAt, OfMessage, OfPart, OfPush
  <2>3. CASE s # "nested"
    BY <1>1, <2>3 DEF At, DeclaredAt, OfMessage, OfPart, OfPush
  <2> QED
    BY <2>1, <2>2, <2>3
<1>8. PartsAt(m)'
  <2>1. CASE s # "ended"
    <3>1. s \in OfMessage \cup OfPush /\ m \in OfMessage \cup OfPush
      BY <2>1 DEF OfMessage, OfPush
    <3> QED
      BY <1>1, <3>1, EarlyParts DEF At, PartsAt
  <2>2. CASE s = "ended"
    <3>1. DataInMessage' /\ LastPart' = LastPart /\ (Fits' <=> Fits) /\ (Taken' <=> Taken)
      BY <1>1, DataStays DEF At, PartsAt, LastPart, Fits, Taken
    <3>2. m = "taken"
      BY <2>2
    <3> QED
      BY <1>1, <2>2, <3>1, <3>2 DEF At, PartsAt, OfMessage, OfPush
  <2> QED
    BY <2>1, <2>2
<1> QED
  BY <1>1, <1>2, <1>6, <1>7, <1>8 DEF At

(* A value is skipped to the end it declared.                               *)
LEMMA SkipStep ==
  ASSUME BufferInv, NEW s \in Stages, NEW m \in Stages, At(s), Skip,
         <<s, m>> \in {<<"claimed", "passed">>, <<"nested", "nested">>}
  PROVE  At(m)'
<1>1. /\ offset' = limit /\ UNCHANGED <<live, length, limit, limits>>
      /\ UNCHANGED <<codec, value, body_parts, declared>>
  BY DEF Skip, Reads, SkipToLimit, locals, history
<1>2. Depth(s) <= Depth(m) /\ s # "done" /\ m # "done"
  BY DEF Depth
<1>3. LimitsAt(m)'
  BY <1>1, <1>2, LimitsStay DEF At
<1>4. PartsAt(m)'
  BY <1>1, EarlyParts DEF At, PartsAt, OfMessage
<1>5. DeclaredAt(m)'
  <2>1. CASE s = "claimed"
    <3>1. ASSUME declared \in SizeT
          PROVE  limit = declared
      <4>1. limits = <<declared>>
        BY <2>1, <3>1 DEF At, DeclaredAt
      <4>2. limits # <<>> /\ Len(limits) = 1 /\ limits[1] = declared
        BY <4>1
      <4> QED
        BY <4>2 DEF At, LimitsAt
    <3> QED
      BY <1>1, <2>1, <3>1 DEF At, DeclaredAt, OfMessage, OfPart, OfPush
  <2>2. CASE s = "nested"
    BY <1>1, <2>2 DEF At, DeclaredAt, OfMessage, OfPart, OfPush
  <2> QED
    BY <2>1, <2>2
<1> QED
  BY <1>1, <1>2, <1>3, <1>4, <1>5 DEF At

(* The header length of a part is read; there is one, for the buffer was not *)
(* at its end.                                                              *)
LEMMA SizedStep ==
  ASSUME BufferInv, LocalsTyped, At("part"), Length
  PROVE  At("sized")'
<1>1. /\ UNCHANGED <<live, length, limit, limits, codec, body_parts, declared, wrapped>>
      /\ offset' > offset /\ offset' \in Nat
  BY BufferTyped DEF Length, Reads, GetBytes, At, PartsAt, history
<1>2. "part" \in Stages /\ "sized" \in Stages /\ Depth("part") <= Depth("sized")
  BY DEF Stages, OfPart, Depth
<1>3. LimitsAt("sized")'
  BY <1>1, <1>2, LimitsStay DEF At
<1>4. DeclaredAt("sized")'
  BY <1>1 DEF At, DeclaredAt, OfMessage, OfPart, OfPush
<1>5. PartsAt("sized")'
  <2>1. DataInMessage' /\ LastPart' = LastPart
    BY <1>1, DataStays DEF At, PartsAt, LastPart
  <2>2. ASSUME body_parts # <<>>, LastPart.data # None, ~wrapped
        PROVE  LastPart.data + LastPart.length < offset'
    <3>1. LastPart.data + LastPart.length <= offset
      BY <2>2 DEF At, PartsAt
    <3>2. LastPart.data \in Nat /\ LastPart.length \in Nat
      BY <2>2, LastPartTyped, BufferTyped
    <3> QED
      BY <1>1, <3>1, <3>2, BufferTyped
  <2> QED
    BY <1>1, <2>1, <2>2 DEF PartsAt, OfMessage, OfPush
<1> QED
  BY <1>1, <1>3, <1>4, <1>5 DEF At

(* A part is added, behind the data of the one before it.                   *)
LEMMA OpenedStep ==
  ASSUME BufferInv, LocalsTyped, value \in SizeT, At("sized"), BodyLength, offset' \in SizeT
  PROVE  At("opened")' /\ body_parts' \in Seq(PartType)
<1> DEFINE new == [head |-> offset', headLength |-> value, data |-> None, length |-> 0,
                   plain |-> FALSE, cut |-> FALSE]
           n == Len(body_parts)
<1>1. /\ UNCHANGED <<live, length, limit, limits, codec, value, declared, wrapped>>
      /\ body_parts' = Append(body_parts, new)
  BY DEF BodyLength, Reads, history
<1>2. offset' >= offset /\ offset' \in Nat
  BY BufferTyped DEF BodyLength, Reads, GetBytes
<1>3. new \in PartType /\ body_parts \in Seq(PartType) /\ n \in Nat
  <2>1. 0 \in SizeT
    BY InputBufferAssumption DEF InputBufferAssumption, SizeT
  <2> QED
    BY <2>1 DEF LocalsTyped, PartType
<1>4. new.head = offset' /\ new.headLength = value /\ new.data = None /\ new.plain = FALSE
  OBVIOUS
<1> HIDE DEF new
<1>5. /\ body_parts' \in Seq(PartType) /\ body_parts' # <<>> /\ Len(body_parts') = n + 1
      /\ \A i \in 1 .. n : body_parts'[i] = body_parts[i]
      /\ body_parts'[n + 1] = new
  BY <1>1, <1>3, AppendProperties
<1>6. LastPart' = new
  BY <1>5 DEF LastPart
<1>7. "sized" \in Stages /\ "opened" \in Stages /\ Depth("sized") <= Depth("opened")
  BY DEF Stages, OfPart, Depth
<1>8. LimitsAt("opened")'
  BY <1>1, <1>7, LimitsStay DEF At
<1>9. DeclaredAt("opened")'
  BY <1>1 DEF At, DeclaredAt, OfMessage, OfPart, OfPush
<1>10. DataInMessage'
  <2> SUFFICES ASSUME NEW i \in 1 .. n + 1, body_parts'[i].data # None
               PROVE  /\ live' /\ ~wrapped' /\ body_parts'[i].data + body_parts'[i].length < Word =>
                           /\ body_parts'[i].head <= body_parts'[i].data
                           /\ body_parts'[i].data + body_parts'[i].length <= length'
                           /\ i < n + 1 => body_parts'[i].data + body_parts'[i].length < body_parts'[i + 1].head
                      /\ body_parts'[i].plain =>
                           /\ body_parts'[i].data <= body_parts'[i].head + body_parts'[i].headLength
                           /\ ~body_parts'[i].cut => body_parts'[i].data = body_parts'[i].head + body_parts'[i].headLength
    BY <1>5 DEF DataInMessage
  <2>1. i \in 1 .. n /\ body_parts'[i] = body_parts[i]
    BY <1>3, <1>4, <1>5
  <2>2. /\ live /\ ~wrapped /\ body_parts[i].data + body_parts[i].length < Word =>
             /\ body_parts[i].head <= body_parts[i].data
             /\ body_parts[i].data + body_parts[i].length <= length
             /\ i < n => body_parts[i].data + body_parts[i].length < body_parts[i + 1].head
        /\ body_parts[i].plain =>
             /\ body_parts[i].data <= body_parts[i].head + body_parts[i].headLength
             /\ ~body_parts[i].cut => body_parts[i].data = body_parts[i].head + body_parts[i].headLength
    BY <2>1 DEF At, PartsAt, DataInMessage
  <2>3. i < n => body_parts'[i + 1] = body_parts[i + 1]
    BY <1>3, <1>5, <2>1
  <2>4. ASSUME i = n, live, ~wrapped
        PROVE  body_parts[i].data + body_parts[i].length < body_parts'[i + 1].head
    <3>1. LastPart.data + LastPart.length < offset /\ body_parts # <<>>
      <4>1. body_parts # <<>> /\ LastPart.data # None
        BY <2>1, <2>4, EmptySeq DEF LastPart
      <4> QED
        BY <2>4, <4>1 DEF At, PartsAt
    <3>2. LastPart.data \in Nat /\ LastPart.length \in Nat
      BY <2>1, <2>4, <3>1, LastPartTyped, BufferTyped DEF LastPart
    <3>3. body_parts'[i + 1].head = offset'
      BY <1>4, <1>5, <2>4
    <3>4. LastPart.data + LastPart.length < offset'
      BY <1>2, <3>1, <3>2, BufferTyped
    <3>5. LastPart = body_parts[i]
      BY <2>4 DEF LastPart
    <3> QED
      BY <3>3, <3>4, <3>5
  <2> QED
    BY <1>1, <1>3, <2>1, <2>2, <2>3, <2>4
<1>11. PartsAt("opened")'
  BY <1>1, <1>2, <1>4, <1>5, <1>6, <1>10 DEF PartsAt, OfMessage, OfPush
<1> QED
  BY <1>1, <1>5, <1>8, <1>9, <1>11 DEF At

(* The data of a part is taken from where its header ended, if it is there.  *)
LEMMA TakenStep ==
  ASSUME BufferInv, LocalsTyped, value \in SizeT, body \in SizeT, At("taken"), Data,
         offset' \in SizeT
  PROVE  At("parts")' /\ body_parts' \in Seq(PartType)
<1> DEFINE n == Len(body_parts)
           data == IF HasData(body) THEN offset ELSE None
           plain == ~overran /\ LastPart.head + value <= length
<1>1. /\ UNCHANGED <<live, length, limit, limits, codec, declared>>
      /\ offset' = IF HasData(body) THEN Plus(offset, body) ELSE offset
      /\ ~wrapped' => ~wrapped /\ ~(HasData(body) /\ offset + body >= Word)
  BY DEF Data, Reads, GetData
<1>2. /\ body_parts # <<>> /\ LastPart.data = None /\ LastPart.headLength = value
      /\ LastPart.head <= offset /\ (Fits => Taken)
      /\ DataInMessage
  BY DEF At, PartsAt
<1>3. /\ n \in Nat \ {0} /\ body_parts \in Seq(PartType) /\ LastPart \in PartType
      /\ LastPart.head \in SizeT /\ body_parts[n] = LastPart
  BY <1>2, LastPartTyped DEF LocalsTyped, LastPart
<1>4. /\ body_parts' \in Seq(PartType) /\ Len(body_parts') = n
      /\ \A j \in 1 .. n : j # n => body_parts'[j] = body_parts[j]
      /\ body_parts'[n].head = LastPart.head /\ body_parts'[n].headLength = value
      /\ body_parts'[n].data = data /\ body_parts'[n].length = body /\ body_parts'[n].plain = plain
      /\ body_parts'[n].cut = cut
  <2>1. body_parts' = [body_parts EXCEPT ![n].data = data, ![n].length = body,
                                         ![n].plain = plain, ![n].cut = cut]
    <3>1. body_parts[Len(body_parts)].head = LastPart.head
      BY DEF LastPart
    <3> QED
      BY <3>1 DEF Data
  <2>2. data \in SizeT \cup {None} /\ plain \in BOOLEAN /\ cut \in BOOLEAN
    BY BufferTyped DEF LocalsTyped
  <2> DEFINE old == body_parts[n]
             new == [old EXCEPT !.data = data, !.length = body, !.plain = plain, !.cut = cut]
  <2>3. old \in PartType /\ old.head = LastPart.head /\ old.headLength = value
    BY <1>2, <1>3
  <2> HIDE DEF data, plain
  <2>4. body_parts' = [body_parts EXCEPT ![n] = new]
    BY <1>3, <2>1
  <2> HIDE DEF old
  <2>5. /\ new \in PartType
        /\ new.head = LastPart.head /\ new.headLength = value /\ new.data = data
        /\ new.length = body /\ new.plain = plain /\ new.cut = cut
    BY <2>2, <2>3 DEF PartType
  <2> HIDE DEF new
  <2>6. n \in 1 .. Len(body_parts)
    BY <1>3
  <2> QED
    BY <1>3, <2>4, <2>5, <2>6, ExceptSeq
<1>5. "taken" \in Stages /\ "parts" \in Stages /\ Depth("taken") <= Depth("parts")
  BY DEF Stages, OfPart, Depth
<1>6. LimitsAt("parts")'
  BY <1>1, <1>5, LimitsStay DEF At
<1>7. DeclaredAt("parts")'
  BY DEF DeclaredAt, OfMessage, OfPart, OfPush
<1>8. ASSUME data # None, ~wrapped'
      PROVE  data = offset /\ offset' = offset + body /\ offset' <= length /\ ~wrapped
  <2>1. HasData(body) /\ offset + body < Word
    BY <1>1, <1>8, BufferTyped
  <2> QED
    BY <1>1, <1>8, <2>1, BufferTyped DEF HasData, Plus
<1>9. ASSUME data # None, plain
      PROVE  data <= LastPart.head + value /\ (~cut => data = LastPart.head + value)
  BY <1>2, <1>9 DEF Fits, Taken
<1> HIDE DEF data, plain
<1>10. DataInMessage'
  <2> SUFFICES ASSUME NEW i \in 1 .. n, body_parts'[i].data # None
               PROVE  /\ live' /\ ~wrapped' /\ body_parts'[i].data + body_parts'[i].length < Word =>
                           /\ body_parts'[i].head <= body_parts'[i].data
                           /\ body_parts'[i].data + body_parts'[i].length <= length'
                           /\ i < n => body_parts'[i].data + body_parts'[i].length < body_parts'[i + 1].head
                      /\ body_parts'[i].plain =>
                           /\ body_parts'[i].data <= body_parts'[i].head + body_parts'[i].headLength
                           /\ ~body_parts'[i].cut => body_parts'[i].data = body_parts'[i].head + body_parts'[i].headLength
    BY <1>4 DEF DataInMessage
  <2>1. CASE i = n
    <3>1. ASSUME ~wrapped'
          PROVE  body_parts'[i].head <= body_parts'[i].data /\ body_parts'[i].data + body_parts'[i].length <= length'
      BY <1>1, <1>2, <1>4, <1>8, <2>1, <3>1
    <3> QED
      BY <1>3, <1>4, <1>9, <2>1, <3>1
  <2>2. CASE i # n
    <3>1. body_parts'[i] = body_parts[i] /\ i < n /\ i + 1 \in 1 .. n
      BY <1>3, <1>4, <2>2
    <3>2. body_parts'[i + 1].head = body_parts[i + 1].head
      BY <1>3, <1>4, <3>1
    <3>3. /\ live /\ ~wrapped /\ body_parts[i].data + body_parts[i].length < Word =>
               /\ body_parts[i].head <= body_parts[i].data
               /\ body_parts[i].data + body_parts[i].length <= length
               /\ body_parts[i].data + body_parts[i].length < body_parts[i + 1].head
          /\ body_parts[i].plain =>
               /\ body_parts[i].data <= body_parts[i].head + body_parts[i].headLength
               /\ ~body_parts[i].cut => body_parts[i].data = body_parts[i].head + body_parts[i].headLength
      BY <1>2, <3>1 DEF DataInMessage
    <3>4. ~wrapped' => ~wrapped
      BY <1>1
    <3> QED
      BY <1>1, <3>1, <3>2, <3>3, <3>4
  <2> QED
    BY <2>1, <2>2
<1>11. PartsAt("parts")'
  <2>1. LastPart' = body_parts'[n]
    BY <1>4 DEF LastPart
  <2>2. ASSUME LastPart'.data # None, ~wrapped'
        PROVE  LastPart'.data + LastPart'.length <= offset'
    BY <1>4, <1>8, <2>1, <2>2, BufferTyped
  <2> QED
    BY <1>10, <2>2 DEF PartsAt, OfMessage, OfPush
<1> QED
  BY <1>1, <1>4, <1>6, <1>7, <1>11 DEF At

(* The content of a push is a part of no name.                              *)
LEMMA ContentStep ==
  ASSUME BufferInv, At("content"), Content
  PROVE  At("over")' /\ body_parts' \in Seq(PartType)
<1> DEFINE l == IF offset <= length THEN length - offset ELSE length - offset + Word
           new == [head |-> 0, headLength |-> 0, data |-> offset, plain |-> FALSE, cut |-> FALSE,
                   length |-> l]
<1>1. /\ UNCHANGED <<live, offset, length, limit, limits, codec>>
      /\ body_parts' = <<new>>
  BY DEF Content, Keeps, bufferVars
<1>2. l \in SizeT /\ 0 \in SizeT /\ l \in Nat /\ offset + l < Word => offset + l <= length
  BY BufferTyped DEF SizeT
<1>3. l \in SizeT /\ 0 \in SizeT /\ offset \in Nat
  BY BufferTyped DEF SizeT
<1>4. /\ new.head = 0 /\ new.data = offset /\ new.plain = FALSE /\ new.length = l
      /\ new \in PartType
  BY <1>3, BufferTyped DEF PartType
<1> HIDE DEF l, new
<1>5. Len(body_parts') = 1 /\ body_parts'[1] = new /\ body_parts' \in Seq(PartType)
  BY <1>1, <1>4
<1>6. DataInMessage'
  <2>1. \A i \in 1 .. Len(body_parts') : i = 1 /\ body_parts'[i] = new /\ ~(i < Len(body_parts'))
    BY <1>5
  <2>2. offset + l < Word => offset + l <= length
    BY <1>2, <1>3 DEF SizeT
  <2>3. 0 <= offset
    BY <1>3
  <2> QED
    BY <1>1, <1>4, <2>1, <2>2, <2>3 DEF DataInMessage
<1>7. "content" \in Stages /\ "over" \in Stages /\ Depth("content") <= Depth("over")
  BY DEF Stages, OfPush, Depth
<1>8. LimitsAt("over")'
  BY <1>1, <1>7, LimitsStay DEF At
<1>9. DeclaredAt("over")' /\ PartsAt("over")'
  BY <1>6 DEF DeclaredAt, PartsAt, OfMessage, OfPart, OfPush
<1> QED
  BY <1>1, <1>5, <1>8, <1>9 DEF At

(* A read that is none of the above leaves a quiet stage for a quiet stage,  *)
(* or goes on or stops in the header of a part.                             *)
Reading ==
  /\ UNCHANGED <<live, length, limit, limits, codec, body_parts, wrapped>>
  /\ declared' = declared \/ codec = "wsp"
  /\ cut => cut'
  /\ \/ offset' = offset /\ overran' = overran
     \/ (\E k \in SizeT \cup {0, 1} : GetBytes(k)) /\ overran' = overran
     \/ (\E k \in SizeT : GetString(k)) /\ overran' = (overran \/ offset' > limit)

InPart == {<<"inside", "inside">>, <<"inside", "stopped">>, <<"stopped", "ended">>}

LEMMA ReadingStep ==
  ASSUME BufferInv, LocalsTyped, NEW s \in Stages, NEW m \in Stages, At(s), Reading,
         <<s, m>> \in Quiet \cup InPart, s \in OfPart => value' = value,
         <<s, m>> = <<"inside", "stopped">> => cut'
  PROVE  At(m)'
<1>1. CASE <<s, m>> \in Quiet
  BY <1>1, QuietStep DEF Reading
<1>2. CASE <<s, m>> \in InPart
  <2>1. offset' \in Nat /\ offset <= offset'
    BY BufferTyped DEF Reading, GetBytes, GetString
  <2>2. ~overran' => ~overran /\ (offset <= limit => offset' <= limit)
    <3>1. CASE offset' = offset /\ overran' = overran
      BY <3>1
    <3>2. CASE (\E k \in SizeT \cup {0, 1} : GetBytes(k)) /\ overran' = overran
      BY <3>2, BufferTyped DEF GetBytes
    <3>3. CASE overran' = (overran \/ offset' > limit)
      <4>1. ~overran' => ~overran /\ ~(offset' > limit)
        BY <3>3
      <4> QED
        BY <2>1, <4>1, BufferTyped
    <3> QED
      BY <3>1, <3>2, <3>3 DEF Reading
  <2>3. s \in OfPart /\ s \in {"inside", "stopped"} /\ m \in {"inside", "stopped", "ended"}
    BY <1>2 DEF InPart, OfPart
  <2>4. m # "inside" => cut'
    <3>1. s = "stopped" => cut
      BY DEF At, PartsAt
    <3> QED
      BY <1>2, <3>1 DEF InPart, Reading
  <2> QED
    BY <2>1, <2>2, <2>3, <2>4, InsideStep DEF Reading
<1> QED
  BY <1>1, <1>2

(* The number of parts, between the header and the first of them.           *)
LEMMA CountStep ==
  ASSUME BufferInv, At("count"), PartCount
  PROVE  At("parts")'
<1>1. UNCHANGED <<live, length, limit, limits, body_parts>> /\ body_parts' = <<>>
  BY DEF PartCount, Reads, At, PartsAt, OfMessage
<1>2. "count" \in Stages /\ "parts" \in Stages /\ Depth("count") <= Depth("parts")
  BY DEF Stages, OfMessage, Depth
<1>3. LimitsAt("parts")'
  BY <1>1, <1>2, LimitsStay DEF At
<1>4. DeclaredAt("parts")' /\ PartsAt("parts")'
  BY <1>1, NoData DEF DeclaredAt, PartsAt, OfMessage, OfPart, OfPush
<1> QED
  BY <1>1, <1>3, <1>4 DEF At

(* The next part, when there is another and something left of the message,  *)
(* or the end.                                                              *)
LEMMA PartsStep ==
  ASSUME BufferInv, At("parts"), Parts, NEW m \in {"part", "over"},
         m = "part" => codec' = "wsp" /\ ~Eof
  PROVE  At(m)'
<1>1. UNCHANGED <<live, offset, length, limit, limits, body_parts, declared, wrapped>>
  BY DEF Parts, Keeps, bufferVars
<1>2. "parts" \in Stages /\ m \in Stages /\ Depth("parts") <= Depth(m)
  BY DEF Stages, OfPart, Depth
<1>3. LimitsAt(m)'
  BY <1>1, <1>2, LimitsStay DEF At
<1>4. DeclaredAt(m)'
  BY DEF DeclaredAt, OfMessage, OfPart, OfPush
<1>5. PartsAt(m)'
  <2>1. DataInMessage' /\ LastPart' = LastPart /\ (Eof' <=> Eof)
    BY <1>1, DataStays DEF At, PartsAt, LastPart, Eof
  <2> QED
    BY <1>1, <2>1 DEF At, PartsAt, OfMessage, OfPush
<1> QED
  BY <1>1, <1>3, <1>4, <1>5 DEF At

(* A buffer just created is at the first stage of a message or a push.       *)
LEMMA StartedStep ==
  ASSUME NEW n \in Messages, NEW tasks, Start(n, tasks),
         NEW m \in {"header", "wap"}, m = "header" => codec' = "mms", m = "wap" => codec' = "wsp"
  PROVE  At(m)'
<1>1. live' /\ limit' = length' /\ limits' = <<>> /\ body_parts' = <<>> /\ declared' = None
  BY DEF Start, CreateInput
<1>2. LimitsAt(m)'
  BY <1>1, EmptySeq DEF LimitsAt, Depth
<1>3. DeclaredAt(m)'
  BY <1>1 DEF DeclaredAt, OfMessage, OfPart, OfPush, None, SizeT
<1>4. PartsAt(m)'
  BY <1>1, EarlyParts DEF OfMessage, OfPush
<1> QED
  BY <1>1, <1>2, <1>3, <1>4 DEF At

(* ... and is gone at the last.                                             *)
LEMMA DoneStep ==
  ASSUME At("over"), DestroyBuffer
  PROVE  At("done")'
<1>1. ~live' /\ limit' = length' /\ limits' = <<>> /\ UNCHANGED <<body_parts, wrapped>>
  BY DEF DestroyBuffer, DestroyInput, locals, history
<1>2. LimitsAt("done")'
  BY <1>1, EmptySeq DEF LimitsAt, Depth
<1>3. DeclaredAt("done")' /\ PartsAt("done")'
  BY <1>1, DataStays DEF At, DeclaredAt, PartsAt, OfMessage, OfPart, OfPush
<1> QED
  BY <1>1, <1>2, <1>3 DEF At

-----------------------------------------------------------------------------
(* Every step of the unpackers goes from a stage to a stage.                *)

LEMMA EndsAt ==
  ASSUME NEW m \in Stages, Leads(m, todo', "done"), At(m)'
  PROVE  StagesInv'
BY DEF StagesInv

LEMMA StepTasks ==
  /\ <<"string">> \in Seq(Tasks) /\ <<"ctype">> \in Seq(Tasks)
  /\ EncodedString \in Seq(Tasks) /\ From \in Seq(Tasks) /\ <<"value">> \in Seq(Tasks)
  /\ <<"string", "items">> \in Seq(Tasks) /\ <<"value", "items">> \in Seq(Tasks)
  /\ <<"media", "params">> \in Seq(Tasks) /\ <<"value", "params">> \in Seq(Tasks)
  /\ <<"number", "number", "number", "items">> \in Seq(Tasks)
  /\ Append(<<"value">>, "items") \in Seq(Tasks)
  /\ Append(EncodedString, "items") \in Seq(Tasks) /\ Append(From, "items") \in Seq(Tasks)
  /\ Append(Part, "parts") \in Seq(Tasks)
  /\ <<"length", "push", "ctype", "items", "pop">> \in Seq(Tasks)
<1>1. Steps \subseteq Tasks
  BY DEF Steps
<1> QED
  BY <1>1, StepSequences, SeqMonotonic

(* The reads of values.                                                     *)
LEMMA ValueSteps ==
  ASSUME UnpackInv, LocalsTyped, NEW s \in Stages, Leads(s, todo, "done"), At(s),
         Number \/ String \/ Value \/ Address
  PROVE  StagesInv'
<1>0. BufferInv /\ TasksInv
  BY DEF UnpackInv
<1>1. CASE Number
  <2>1. Doing("number") /\ Then(<<>>) /\ Reading /\ value' = value
    BY <1>1 DEF Number, Reading, Reads, locals, history
  <2>2. PICK m \in Stages : <<s, "number", m>> \in Flow /\ Leads(m, todo', "done")
    BY <1>0, <2>1, Onward
  <2>3. <<s, m>> \in Quiet /\ s \notin OfPart /\ m # "stopped"
    BY <2>2 DEF Flow, Quiet, OfPart
  <2> QED
    BY <1>0, <2>1, <2>2, <2>3, ReadingStep, EndsAt
<1>2. CASE String
  <2>1. Doing("string") /\ Then(<<>>) /\ Reading /\ value' = value
    BY <1>2 DEF String, StringRead, Reading, Reads, locals
  <2>2. PICK m \in Stages : <<s, "string", m>> \in Flow /\ Leads(m, todo', "done")
    BY <1>0, <2>1, Onward
  <2>3. <<s, m>> \in Quiet \cup InPart /\ m # "stopped"
    BY <2>2 DEF Flow, Quiet, InPart
  <2> QED
    BY <1>0, <2>1, <2>2, <2>3, ReadingStep, EndsAt
<1>3. CASE Value
  <2>1. PICK task \in {"value", "charset"} : Doing(task)
    BY <1>3 DEF Value
  <2>2. Then(<<>>) /\ Reading /\ value' = value
    BY <1>3 DEF Value, StringRead, Reading, Reads, locals, history
  <2>3. PICK m \in Stages : <<s, task, m>> \in Flow /\ Leads(m, todo', "done")
    BY <1>0, <2>1, <2>2, Onward
  <2>4. <<s, m>> \in Quiet \cup InPart /\ m # "stopped"
    BY <2>3 DEF Flow, Quiet, InPart
  <2> QED
    BY <1>0, <2>2, <2>3, <2>4, ReadingStep, EndsAt
<1>4. CASE Address
  <2>1. Doing("address") /\ Reading /\ value' = value
    BY <1>4 DEF Address, Keeps, Reading, bufferVars, locals, history
  <2>2. PICK tasks \in {<<>>, <<"string">>, EncodedString} : Then(tasks)
    BY <1>4 DEF Address
  <2>3. PICK m \in Stages :
          /\ <<s, "address", m>> \in Flow
          /\ Then(<<>>) => Leads(m, todo', "done")
          /\ \A n \in Stages, ts \in Seq(Tasks) : Then(ts) /\ Leads(n, ts, m) => Leads(n, todo', "done")
    BY <1>0, <2>1, Onward
  <2>4. s = "claimed" /\ m = "claimed" /\ <<s, m>> \in Quiet
    BY <2>3 DEF Flow, Quiet
  <2>5. Leads(m, todo', "done")
    BY <2>2, <2>3, <2>4, LeadsThere, StepTasks
  <2> QED
    BY <1>0, <2>1, <2>4, <2>5, ReadingStep, EndsAt
<1> QED
  BY <1>1, <1>2, <1>3, <1>4

(* Value lengths and the limits they set.                                   *)
LEMMA LimitSteps ==
  ASSUME UnpackInv, LocalsTyped, NEW s \in Stages, Leads(s, todo, "done"), At(s),
         Length \/ Push \/ Skip \/ Pop
  PROVE  StagesInv'
<1>0. BufferInv /\ TasksInv /\ value \in SizeT
  BY DEF UnpackInv
<1>1. CASE Length
  <2>1. Doing("length") /\ Then(<<>>) /\ Reading
    BY <1>1 DEF Length, Reading, Reads, history
  <2>2. PICK m \in Stages : <<s, "length", m>> \in Flow /\ Leads(m, todo', "done")
    BY <1>0, <2>1, Onward
  <2>3. CASE s = "part"
    <3>1. m = "sized"
      BY <2>2, <2>3 DEF Flow
    <3> QED
      BY <1>0, <1>1, <2>2, <2>3, <3>1, SizedStep, EndsAt
  <2>4. CASE s # "part"
    <3>1. <<s, m>> \in Quiet /\ s \notin OfPart /\ m # "stopped"
      BY <2>2, <2>4 DEF Flow, Quiet, OfPart
    <3> QED
      BY <1>0, <2>1, <2>2, <3>1, ReadingStep, EndsAt
  <2> QED
    BY <2>3, <2>4
<1>2. CASE Push
  <2>1. PICK m \in Stages : <<s, "push", m>> \in Flow /\ Leads(m, todo', "done")
    BY <1>0, <1>2, Onward DEF Push
  <2>2. <<s, m>> \in {<<"item", "claimed">>, <<"claimed", "nested">>, <<"claim", "within">>,
                      <<"opened", "inside">>}
    BY <2>1 DEF Flow
  <2> QED
    BY <1>0, <1>2, <2>1, <2>2, PushStep, EndsAt
<1>3. CASE Skip
  <2>1. PICK m \in Stages : <<s, "skip", m>> \in Flow /\ Leads(m, todo', "done")
    BY <1>0, <1>3, Onward DEF Skip
  <2>2. <<s, m>> \in {<<"claimed", "passed">>, <<"nested", "nested">>}
    BY <2>1 DEF Flow
  <2> QED
    BY <1>0, <1>3, <2>1, <2>2, SkipStep, EndsAt
<1>4. CASE Pop
  <2>1. PICK m \in Stages : <<s, "pop", m>> \in Flow /\ Leads(m, todo', "done")
    BY <1>0, <1>4, Onward DEF Pop
  <2>2. <<s, m>> \in {<<"nested", "claimed">>, <<"passed", "header">>, <<"passed", "count">>,
                      <<"ended", "taken">>, <<"closing", "content">>}
    BY <2>1 DEF Flow
  <2> QED
    BY <1>0, <1>4, <2>1, <2>2, PopStep, EndsAt
<1> QED
  BY <1>1, <1>2, <1>3, <1>4

(* The header items of a message, a part or a push.                         *)
LEMMA ItemSteps ==
  ASSUME UnpackInv, LocalsTyped, NEW s \in Stages, Leads(s, todo, "done"), At(s),
         ItemsEnd \/ NamedItem \/ WspItem \/ NumberedItem \/ TimeItem
  PROVE  StagesInv'
<1>0. BufferInv /\ TasksInv /\ Doing("items")
  BY DEF UnpackInv, ItemsEnd, NamedItem, WspItem, NumberedItem, TimeItem
<1>1. PICK m \in Stages :
        /\ <<s, "items", m>> \in Flow
        /\ Then(<<>>) => Leads(m, todo', "done")
        /\ \A n \in Stages, ts \in Seq(Tasks) : Then(ts) /\ Leads(n, ts, m) => Leads(n, todo', "done")
  BY <1>0, Onward
<1>2. <<s, m>> \in {<<"header", "count">>, <<"inside", "ended">>, <<"within", "closing">>}
  BY <1>1 DEF Flow
<1>3. codec = "mms" <=> s = "header"
  BY <1>2 DEF At, DeclaredAt, OfMessage, OfPart, OfPush
<1>s. {"header", "item", "count", "inside", "ended", "within", "closing"} \subseteq Stages
  BY DEF Stages, OfMessage, OfPart, OfPush
<1>4. CASE ItemsEnd
  <2>1. Eof /\ Leads(m, todo', "done") /\ UNCHANGED bufferVars /\ UNCHANGED <<locals, history>>
    BY <1>1, <1>4 DEF ItemsEnd, Keeps
  <2>2. CASE s = "inside"
    BY <1>0, <1>2, <2>1, <2>2, EndedStep, EndsAt DEF locals, history
  <2>3. CASE s # "inside"
    <3>1. <<s, m>> \in Quiet /\ Reading /\ s \notin OfPart
      BY <1>2, <2>1, <2>3 DEF Quiet, OfPart, Reading, bufferVars, locals, history
    <3> QED
      BY <1>0, <2>1, <2>3, <3>1, ReadingStep, EndsAt
  <2> QED
    BY <2>2, <2>3
<1>5. ASSUME NEW n \in {"item", "count"}, s = "header", Leads(n, todo', "done"),
             UNCHANGED <<live, length, limit, limits, codec, body_parts>>, declared' = None
      PROVE  StagesInv'
  <2>1. At(n)'
    BY <1>0, <1>5, ItemStep
  <2> QED
    BY <1>5, <1>s, <2>1, EndsAt
<1>6. ASSUME NEW ts \in Seq(Tasks), Then(ts),
             NEW n \in {"inside", "within", "stopped"}, Leads(n, ts, m),
             <<s, n>> \in {<<"inside", "inside">>, <<"within", "within">>, <<"inside", "stopped">>},
             n = "stopped" => cut', Reading, value' = value
      PROVE  StagesInv'
  <2>1. n \in Stages
    BY DEF Stages, OfPart, OfPush
  <2>2. Leads(n, todo', "done")
    BY <1>1, <1>6, <2>1
  <2>3. <<s, n>> \in Quiet \cup InPart
    BY <1>6 DEF Quiet, InPart
  <2>4. At(n)'
    BY <1>0, <1>6, <2>1, <2>3, ReadingStep
  <2> QED
    BY <2>1, <2>2, <2>4, EndsAt
<1>7. CASE NamedItem
  <2>1. /\ Then(<<"string", "items">>) /\ declared' = None /\ value' = value
        /\ UNCHANGED <<live, length, limit, limits, codec, body_parts, cut, wrapped>>
        /\ (\E k \in SizeT : GetString(k)) /\ overran' = (overran \/ offset' > limit)
    BY <1>7 DEF NamedItem, Reads, locals
  <2>2. CASE s = "header"
    <3>1. Leads("item", todo', "done")
      BY <1>1, <1>2, <1>s, <2>1, <2>2, LeadsThere, StepTasks
    <3> QED
      BY <1>5, <2>1, <2>2, <3>1
  <2>3. CASE s # "header"
    <3>1. Reading /\ codec = "wsp"
      BY <1>3, <2>1, <2>3 DEF Reading, At, DeclaredAt, LocalsTyped
    <3>2. s \in {"inside", "within"} /\ Leads(s, <<"string", "items">>, m)
      BY <1>2, <2>3, LeadsThere
    <3> QED
      BY <1>6, <2>1, <3>1, <3>2, StepTasks
  <2> QED
    BY <2>2, <2>3
<1>8. CASE WspItem
  <2>1. /\ value' = value /\ Reading /\ codec = "wsp"
        /\ Then(<<"value", "items">>) \/ (Then(<<"value">>) /\ cut')
    BY <1>8 DEF WspItem, Reading, Reads, locals
  <2>2. s \in {"inside", "within"}
    BY <1>2, <1>3, <2>1
  <2>3. CASE Then(<<"value", "items">>)
    <3>1. Leads(s, <<"value", "items">>, m)
      BY <1>2, <2>2, LeadsThere
    <3> QED
      BY <1>6, <2>1, <2>2, <2>3, <3>1, StepTasks
  <2>4. CASE Then(<<"value">>) /\ cut'
    <3>1. CASE s = "inside"
      <4>1. Leads("stopped", <<"value">>, m)
        BY <1>2, <3>1, LeadsThere
      <4> QED
        BY <1>6, <2>1, <2>4, <3>1, <4>1, StepTasks
    <3>2. CASE s = "within"
      <4>1. Leads("within", <<"value">>, m)
        BY <1>2, <3>2, LeadsThere
      <4> QED
        BY <1>6, <2>1, <2>4, <3>2, <4>1, StepTasks
    <3> QED
      BY <2>2, <3>1, <3>2
  <2> QED
    BY <2>1, <2>3, <2>4
<1>9. CASE NumberedItem
  <2>1. /\ s = "header" /\ m = "count"
        /\ UNCHANGED <<live, length, limit, limits, codec, body_parts>> /\ declared' = None
    BY <1>2, <1>3, <1>9 DEF NumberedItem, Reads, locals
  <2>2. CASE Then(<<>>)
    BY <1>1, <1>5, <2>1, <2>2
  <2>3. ASSUME NEW ts \in {<<"ctype">>, EncodedString, From, Append(<<"value">>, "items"),
                           Append(EncodedString, "items"), Append(From, "items")}, Then(ts)
        PROVE  StagesInv'
    <3>1. Leads("item", ts, "count") /\ ts \in Seq(Tasks)
      BY LeadsThere, StepTasks
    <3>2. Leads("item", todo', "done")
      BY <1>1, <1>s, <2>1, <2>3, <3>1
    <3> QED
      BY <1>5, <2>1, <3>2
  <2>4. \/ Then(<<>>) \/ Then(<<"ctype">>) \/ Then(EncodedString) \/ Then(From)
        \/ Then(Append(<<"value">>, "items"))
        \/ Then(Append(EncodedString, "items")) \/ Then(Append(From, "items"))
    BY <1>9 DEF NumberedItem
  <2> QED
    BY <2>2, <2>3, <2>4
<1>10. CASE TimeItem
  <2>1. /\ s = "header" /\ m = "count" /\ Then(<<"number", "number", "number", "items">>)
        /\ UNCHANGED <<live, length, limit, limits, codec, body_parts>> /\ declared' = None
    BY <1>2, <1>3, <1>10 DEF TimeItem, Reads, locals
  <2>2. Leads("item", todo', "done")
    BY <1>1, <1>s, <2>1, LeadsThere, StepTasks
  <2> QED
    BY <1>5, <2>1, <2>2
<1> QED
  BY <1>4, <1>7, <1>8, <1>9, <1>10

(* The content type of a message, of a part or of a push.                   *)
LEMMA ContentTypeSteps ==
  ASSUME UnpackInv, LocalsTyped, NEW s \in Stages, Leads(s, todo, "done"), At(s),
         ContentType \/ Media \/ Params
  PROVE  StagesInv'
<1>0. BufferInv /\ TasksInv
  BY DEF UnpackInv
<1>q. \A t \in {"ctype", "media", "params"}, m \in Stages :
        <<s, t, m>> \in Flow =>
          /\ <<s, m>> \in Quiet \cup InPart /\ m # "stopped"
          /\ <<s, s>> \in Quiet \cup InPart /\ s # "stopped"
          /\ t # "media" => <<s, m>> \in {<<"item", "count">>, <<"inside", "inside">>,
                                        <<"within", "within">>}
  BY DEF Flow, Quiet, InPart
<1>1. CASE ContentType
  <2>1. Doing("ctype") /\ (Then(<<>>) \/ Then(<<"media", "params">>)) /\ Reading /\ value' = value
    BY <1>1 DEF ContentType, StringRead, Reading, Reads, locals, history
  <2>2. PICK m \in Stages :
          /\ <<s, "ctype", m>> \in Flow
          /\ Then(<<>>) => Leads(m, todo', "done")
          /\ \A n \in Stages, ts \in Seq(Tasks) : Then(ts) /\ Leads(n, ts, m) => Leads(n, todo', "done")
    BY <1>0, <2>1, Onward
  <2>3. CASE Then(<<>>)
    BY <1>0, <1>q, <2>1, <2>2, <2>3, ReadingStep, EndsAt
  <2>4. CASE Then(<<"media", "params">>)
    <3>1. Leads(s, <<"media", "params">>, m)
      BY <1>q, <2>2, LeadsThere
    <3>2. Leads(s, todo', "done")
      BY <2>2, <2>4, <3>1, StepTasks
    <3> QED
      BY <1>0, <1>q, <2>1, <2>2, <3>2, ReadingStep, EndsAt
  <2> QED
    BY <2>1, <2>3, <2>4
<1>2. CASE Media
  <2>1. Doing("media") /\ Then(<<>>) /\ Reading /\ value' = value
    BY <1>2 DEF Media, StringRead, Keeps, Reading, Reads, bufferVars, locals, history
  <2>2. PICK m \in Stages : <<s, "media", m>> \in Flow /\ Leads(m, todo', "done")
    BY <1>0, <2>1, Onward
  <2> QED
    BY <1>0, <1>q, <2>1, <2>2, ReadingStep, EndsAt
<1>3. CASE Params
  <2>1. Doing("params") /\ (Then(<<>>) \/ Then(<<"value", "params">>)) /\ Reading /\ value' = value
    BY <1>3 DEF Params, Keeps, Reading, Reads, bufferVars, locals, history
  <2>2. PICK m \in Stages :
          /\ <<s, "params", m>> \in Flow
          /\ Then(<<>>) => Leads(m, todo', "done")
          /\ \A n \in Stages, ts \in Seq(Tasks) : Then(ts) /\ Leads(n, ts, m) => Leads(n, todo', "done")
    BY <1>0, <2>1, Onward
  <2>3. CASE Then(<<>>)
    BY <1>0, <1>q, <2>1, <2>2, <2>3, ReadingStep, EndsAt
  <2>4. CASE Then(<<"value", "params">>)
    <3>1. Leads(s, <<"value", "params">>, m)
      BY <1>q, <2>2, LeadsThere
    <3>2. Leads(s, todo', "done")
      BY <2>2, <2>4, <3>1, StepTasks
    <3> QED
      BY <1>0, <1>q, <2>1, <2>2, <3>2, ReadingStep, EndsAt
  <2> QED
    BY <2>1, <2>3, <2>4
<1> QED
  BY <1>1, <1>2, <1>3

(* The parts of a message, and the end of it.                               *)
LEMMA PartSteps ==
  ASSUME UnpackInv, LocalsTyped, NEW s \in Stages, Leads(s, todo, "done"), At(s), offset' \in SizeT,
         PartCount \/ Parts \/ BodyLength \/ Data \/ DestroyBuffer
  PROVE  StagesInv' /\ body_parts' \in Seq(PartType)
<1>0. BufferInv /\ TasksInv /\ value \in SizeT /\ body \in SizeT /\ body_parts \in Seq(PartType)
  BY DEF UnpackInv, LocalsTyped
<1>1. CASE PartCount
  <2>1. PICK m \in Stages : <<s, "nr", m>> \in Flow /\ Leads(m, todo', "done")
    BY <1>0, <1>1, Onward DEF PartCount
  <2>2. s = "count" /\ m = "parts" /\ body_parts' = body_parts
    BY <1>1, <2>1 DEF Flow, PartCount
  <2> QED
    BY <1>0, <1>1, <2>1, <2>2, CountStep, EndsAt
<1>2. CASE Parts
  <2>1. PICK m \in Stages :
          /\ <<s, "parts", m>> \in Flow
          /\ Then(<<>>) => Leads(m, todo', "done")
          /\ \A n \in Stages, ts \in Seq(Tasks) : Then(ts) /\ Leads(n, ts, m) => Leads(n, todo', "done")
    BY <1>0, <1>2, Onward DEF Parts
  <2>2. s = "parts" /\ m = "over" /\ body_parts' = body_parts
    BY <1>2, <2>1 DEF Flow, Parts
  <2>3. CASE Then(<<>>)
    BY <1>0, <1>2, <2>1, <2>2, <2>3, PartsStep, EndsAt
  <2>4. CASE Then(Append(Part, "parts")) /\ codec' = "wsp" /\ ~Eof
    <3>1. "part" \in Stages
      BY DEF Stages, OfPart
    <3>2. Leads("part", todo', "done")
      BY <2>1, <2>2, <2>4, <3>1, LeadsThere, StepTasks
    <3>3. At("part")'
      BY <1>0, <1>2, <2>2, <2>4, PartsStep
    <3> QED
      BY <1>0, <2>2, <3>1, <3>2, <3>3, EndsAt
  <2> QED
    BY <1>2, <2>3, <2>4 DEF Parts
<1>3. CASE BodyLength
  <2>1. PICK m \in Stages : <<s, "body", m>> \in Flow /\ Leads(m, todo', "done")
    BY <1>0, <1>3, Onward DEF BodyLength
  <2>2. s = "sized" /\ m = "opened"
    BY <2>1 DEF Flow
  <2> QED
    BY <1>0, <1>3, <2>1, <2>2, OpenedStep, EndsAt
<1>4. CASE Data
  <2>1. PICK m \in Stages : <<s, "data", m>> \in Flow /\ Leads(m, todo', "done")
    BY <1>0, <1>4, Onward DEF Data
  <2>2. s = "taken" /\ m = "parts"
    BY <2>1 DEF Flow
  <2> QED
    BY <1>0, <1>4, <2>1, <2>2, TakenStep, EndsAt
<1>5. CASE DestroyBuffer
  <2>1. PICK m \in Stages : <<s, "destroy", m>> \in Flow /\ Leads(m, todo', "done")
    BY <1>0, <1>5, Onward DEF DestroyBuffer
  <2>2. s = "over" /\ m = "done" /\ body_parts' = body_parts
    BY <1>5, <2>1 DEF Flow, DestroyBuffer, locals
  <2> QED
    BY <1>0, <1>5, <2>1, <2>2, DoneStep, EndsAt
<1> QED
  BY <1>1, <1>2, <1>3, <1>4, <1>5

(* A push, and the beginning of either.                                     *)
LEMMA PushSteps ==
  ASSUME UnpackInv, LocalsTyped, NEW s \in Stages, Leads(s, todo, "done"), At(s), offset' \in SizeT,
         PduType \/ Content
  PROVE  StagesInv' /\ body_parts' \in Seq(PartType)
<1>0. BufferInv /\ TasksInv /\ body_parts \in Seq(PartType)
  BY DEF UnpackInv, LocalsTyped
<1>1. CASE PduType
  <2>1. /\ Doing("pdu") /\ Reading /\ value' = value /\ body_parts' = body_parts
        /\ Then(<<>>) \/ Then(<<"length", "push", "ctype", "items", "pop">>)
    BY <1>1 DEF PduType, Reading, Reads, locals, history
  <2>2. PICK m \in Stages :
          /\ <<s, "pdu", m>> \in Flow
          /\ Then(<<>>) => Leads(m, todo', "done")
          /\ \A n \in Stages, ts \in Seq(Tasks) : Then(ts) /\ Leads(n, ts, m) => Leads(n, todo', "done")
    BY <1>0, <2>1, Onward
  <2>3. s = "pdu" /\ m = "content" /\ "claim" \in Stages
    BY <2>2 DEF Flow, Stages, OfPush
  <2>4. <<s, m>> \in Quiet /\ <<s, "claim">> \in Quiet
    BY <2>3 DEF Quiet
  <2>5. CASE Then(<<>>)
    BY <1>0, <2>1, <2>2, <2>3, <2>4, <2>5, ReadingStep, EndsAt
  <2>6. CASE Then(<<"length", "push", "ctype", "items", "pop">>)
    <3>1. Leads("claim", todo', "done")
      BY <2>2, <2>3, <2>6, LeadsThere, StepTasks
    <3>2. At("claim")'
      BY <1>0, <2>1, <2>3, <2>4, ReadingStep
    <3> QED
      BY <1>0, <2>1, <2>3, <3>1, <3>2, EndsAt
  <2> QED
    BY <2>1, <2>5, <2>6
<1>2. CASE Content
  <2>1. PICK m \in Stages : <<s, "content", m>> \in Flow /\ Leads(m, todo', "done")
    BY <1>0, <1>2, Onward DEF Content
  <2>2. s = "content" /\ m = "over"
    BY <2>1 DEF Flow
  <2> QED
    BY <1>0, <1>2, <2>1, <2>2, ContentStep, EndsAt
<1> QED
  BY <1>1, <1>2

LEMMA StartSteps ==
  ASSUME NEW n \in Messages, Unpack(n) \/ UnpackPush(n)
  PROVE  StagesInv' /\ body_parts' \in Seq(PartType)
<1>1. body_parts' \in Seq(PartType) /\ "header" \in Stages /\ "wap" \in Stages
  BY EmptySeq DEF Unpack, UnpackPush, Start, Stages, OfMessage, OfPush
<1>2. CASE Unpack(n)
  <2>1. At("header")' /\ todo' = <<"items", "nr", "parts", "destroy">>
    <3>1. Start(n, <<"items", "nr", "parts", "destroy">>) /\ codec' = "mms"
      BY <1>2 DEF Unpack
    <3>2. At("header")'
      BY <3>1, StartedStep
    <3> QED
      BY <3>1, <3>2 DEF Start
  <2> QED
    BY <1>1, <2>1, LeadsThere, EndsAt
<1>3. CASE UnpackPush(n)
  <2>1. At("wap")' /\ todo' = <<"number", "pdu", "content", "destroy">>
    <3>1. Start(n, <<"number", "pdu", "content", "destroy">>) /\ codec' = "wsp"
      BY <1>3 DEF UnpackPush
    <3>2. At("wap")'
      BY <3>1, StartedStep
    <3> QED
      BY <3>1, <3>2 DEF Start
  <2> QED
    BY <1>1, <2>1, LeadsThere, EndsAt
<1> QED
  BY <1>2, <1>3

LEMMA AssertStep ==
  ASSUME AssertFails, DataInMessage
  PROVE  StagesInv' /\ body_parts' = body_parts
<1>1. todo' = <<"aborted">> /\ UNCHANGED <<live, length, body_parts, wrapped>>
  BY DEF AssertFails, Keeps, bufferVars, locals, history
<1>2. DataInMessage'
  BY <1>1, DataStays
<1> QED
  BY <1>1, <1>2 DEF StagesInv

(* Nothing follows a failed assertion.                                      *)
LEMMA NotAborted ==
  ASSUME UnpackNext
  PROVE  todo # <<"aborted">>
<1>1. todo = <<>> \/ \E task \in Tasks \ {"aborted"} : Doing(task)
  <2>1. ASSUME NEW n \in Messages, Unpack(n) \/ UnpackPush(n)
        PROVE  todo = <<>>
    BY <2>1 DEF Unpack, UnpackPush, Start
  <2>2. CASE Number \/ String \/ Value \/ Length \/ Push \/ Skip \/ Pop \/ Address
    BY <2>2 DEF Number, String, Value, Length, Push, Skip, Pop, Address, Tasks
  <2>3. CASE \/ ItemsEnd \/ NamedItem \/ WspItem \/ NumberedItem \/ TimeItem \/ AssertFails
             \/ ContentType \/ Media \/ Params
    BY <2>3 DEF ItemsEnd, NamedItem, WspItem, NumberedItem, TimeItem, AssertFails, ContentType,
                Media, Params, Tasks
  <2>4. CASE PartCount \/ Parts \/ BodyLength \/ Data \/ DestroyBuffer \/ PduType \/ Content
    BY <2>4 DEF PartCount, Parts, BodyLength, Data, DestroyBuffer, PduType, Content, Tasks
  <2> QED
    BY <2>1, <2>2, <2>3, <2>4 DEF UnpackNext
<1> QED
  BY <1>1 DEF Doing

LEMMA StagesStep ==
  ASSUME UnpackInv, LocalsTyped, StagesInv, UnpackNext, offset' \in SizeT
  PROVE  StagesInv' /\ body_parts' \in Seq(PartType)
<1>0. body_parts \in Seq(PartType)
  BY DEF LocalsTyped
<1>1. PICK s \in Stages : Leads(s, todo, "done") /\ At(s)
  BY NotAborted DEF StagesInv
<1>2. ASSUME NEW n \in Messages, Unpack(n) \/ UnpackPush(n)
      PROVE  StagesInv' /\ body_parts' \in Seq(PartType)
  BY <1>2, StartSteps
<1>3. CASE Number \/ String \/ Value \/ Address
  <2>1. body_parts' = body_parts
    BY <1>3 DEF Number, String, Value, Address, StringRead, locals
  <2> QED
    BY <1>0, <1>1, <1>3, <2>1, ValueSteps
<1>4. CASE Length \/ Push \/ Skip \/ Pop
  <2>1. body_parts' = body_parts
    BY <1>4 DEF Length, Push, Skip, Pop, locals
  <2> QED
    BY <1>0, <1>1, <1>4, <2>1, LimitSteps
<1>5. CASE ItemsEnd \/ NamedItem \/ WspItem \/ NumberedItem \/ TimeItem
  <2>1. body_parts' = body_parts
    BY <1>5 DEF ItemsEnd, NamedItem, WspItem, NumberedItem, TimeItem, locals
  <2> QED
    BY <1>0, <1>1, <1>5, <2>1, ItemSteps
<1>6. CASE ContentType \/ Media \/ Params
  <2>1. body_parts' = body_parts
    BY <1>6 DEF ContentType, Media, Params, StringRead, locals
  <2> QED
    BY <1>0, <1>1, <1>6, <2>1, ContentTypeSteps
<1>7. CASE PartCount \/ Parts \/ BodyLength \/ Data \/ DestroyBuffer
  BY <1>1, <1>7, PartSteps
<1>8. CASE PduType \/ Content
  BY <1>1, <1>8, PushSteps
<1>9. CASE AssertFails
  BY <1>0, <1>1, <1>9, AssertStep DEF At, PartsAt
<1> QED
  BY <1>2, <1>3, <1>4, <1>5, <1>6, <1>7, <1>8, <1>9 DEF UnpackNext

(* The variables keep their types.                                          *)
LEMMA LocalsStep ==
  ASSUME UnpackInv, LocalsTyped, UnpackNext, offset' \in SizeT, body_parts' \in Seq(PartType)
  PROVE  LocalsTyped'
<1> DEFINE Typed(c, e, n, d, o, x, w) ==
             /\ c \in {"mms", "wsp"} /\ e \in SizeT /\ n \in Nat
             /\ d \in SizeT \cup {None, Refused} /\ o \in BOOLEAN /\ x \in BOOLEAN /\ w \in BOOLEAN
<1>0. /\ Typed(codec, end, nr, declared, overran, cut, wrapped)
      /\ 0 \in SizeT /\ 0 \in Nat /\ BufferInv /\ value \in SizeT
  BY InputBufferAssumption DEF LocalsTyped, UnpackInv, InputBufferAssumption, SizeT
<1>1. SUFFICES Typed(codec, end, nr, declared, overran, cut, wrapped)'
  BY DEF LocalsTyped
<1>s. ASSUME StringRead
      PROVE  Typed(codec, end, nr, declared, overran, cut, wrapped)'
  BY <1>0, <1>s DEF StringRead, locals
<1>k. ASSUME UNCHANGED <<locals, history>>
      PROVE  Typed(codec, end, nr, declared, overran, cut, wrapped)'
  BY <1>0, <1>k DEF locals, history
<1>2. ASSUME NEW n \in Messages, Unpack(n) \/ UnpackPush(n)
      PROVE  Typed(codec, end, nr, declared, overran, cut, wrapped)'
  BY <1>0, <1>2 DEF Unpack, UnpackPush, Start
<1>3. CASE Number \/ String \/ Value \/ Address \/ Skip \/ Pop \/ ItemsEnd \/ AssertFails
  BY <1>3, <1>s, <1>k DEF Number, String, Value, Address, Skip, Pop, ItemsEnd, AssertFails
<1>4. CASE Length
  BY <1>0, <1>4 DEF Length, history
<1>5. CASE Push
  <2>1. Plus(offset, value) \in SizeT
    BY <1>0, BufferTyped, PlusSizeT
  <2>2. declared' \in SizeT \cup {None, Refused} /\ wrapped' \in BOOLEAN
    BY <1>0, <1>5, <2>1 DEF Push
  <2> QED
    BY <1>0, <1>5, <2>2 DEF Push, locals
<1>6. CASE NamedItem \/ WspItem \/ NumberedItem \/ TimeItem
  BY <1>0, <1>6 DEF NamedItem, WspItem, NumberedItem, TimeItem, locals
<1>7. CASE ContentType
  <2>1. CASE /\ \E v \in SizeT : LengthRead(v) /\ end' = Plus(offset', v)
             /\ UNCHANGED <<codec, value, body, nr, body_parts, history>>
    BY <1>0, <2>1, PlusSizeT DEF history
  <2> QED
    BY <1>7, <1>s, <1>k, <2>1 DEF ContentType
<1>8. CASE Media \/ Params \/ PduType \/ DestroyBuffer
  BY <1>8, <1>s, <1>k DEF Media, Params, PduType, DestroyBuffer
<1>9. CASE PartCount
  <2>1. nr' \in Nat
    BY <1>0, <1>9, UnpackAssumption DEF PartCount, UnpackAssumption
  <2> QED
    BY <1>0, <1>9, <2>1 DEF PartCount, history
<1>10. CASE Parts
  <2>1. nr' \in Nat /\ codec' \in {"mms", "wsp"} /\ overran' \in BOOLEAN /\ cut' \in BOOLEAN
    <3>1. \/ UNCHANGED <<codec, nr, overran, cut>>
          \/ nr > 0 /\ codec' = "wsp" /\ nr' = nr - 1 /\ overran' = FALSE /\ cut' = FALSE
      BY <1>10 DEF Parts
    <3>2. CASE UNCHANGED <<codec, nr, overran, cut>>
      BY <1>0, <3>2
    <3>3. CASE nr > 0 /\ codec' = "wsp" /\ nr' = nr - 1 /\ overran' = FALSE /\ cut' = FALSE
      <4>1. nr' \in Nat
        BY <1>0, <3>3
      <4> QED
        BY <3>3, <4>1
    <3> QED
      BY <3>1, <3>2, <3>3
  <2>2. UNCHANGED <<end, declared, wrapped>>
    BY <1>10 DEF Parts
  <2> QED
    BY <1>0, <2>1, <2>2
<1>11. CASE BodyLength \/ Content
  BY <1>0, <1>11 DEF BodyLength, Content, history
<1>12. CASE Data
  <2>1. wrapped' \in BOOLEAN
    BY <1>0, <1>12 DEF Data
  <2> QED
    BY <1>0, <1>12, <2>1 DEF Data
<1> QED
  BY <1>2, <1>3, <1>4, <1>5, <1>6, <1>7, <1>8, <1>9, <1>10, <1>11, <1>12 DEF UnpackNext

LEMMA StagedInvInit == UnpackInit => StagedInv
<1> SUFFICES ASSUME UnpackInit
             PROVE  StagedInv
  OBVIOUS
<1>1. /\ ~live /\ limit = length /\ limits = <<>> /\ body_parts = <<>> /\ todo = <<>>
      /\ declared = None
  BY DEF UnpackInit, BufferInit
<1>2. 0 \in SizeT /\ Len(limits) = 0 /\ Len(body_parts) = 0 /\ body_parts \in Seq(PartType)
  BY <1>1, EmptySeq, InputBufferAssumption DEF InputBufferAssumption, SizeT
<1>3. LocalsTyped
  BY <1>2 DEF UnpackInit, LocalsTyped
<1>4. At("done")
  <2>1. LimitsAt("done")
    BY <1>1, <1>2 DEF LimitsAt, Depth
  <2>2. DeclaredAt("done") /\ PartsAt("done")
    BY <1>2 DEF DeclaredAt, PartsAt, DataInMessage, OfMessage, OfPart, OfPush
  <2> QED
    BY <1>1, <2>1, <2>2 DEF At
<1>5. "done" \in Stages /\ Leads("done", todo, "done")
  <2>1. "done" \in Stages
    BY DEF Stages
  <2> QED
    BY <1>1, <2>1, LeadsNowhere
<1> QED
  BY <1>3, <1>4, <1>5, UnpackInitInv DEF StagedInv, StagesInv

LEMMA IInvNext == StagedInv /\ [UnpackNext]_unpackVars => StagedInv'
<1> SUFFICES ASSUME StagedInv, [UnpackNext]_unpackVars
             PROVE  StagedInv'
  OBVIOUS
<1>1. UnpackInv /\ LocalsTyped /\ StagesInv
  BY DEF StagedInv
<1>2. UnpackInv'
  BY <1>1, UnpackNextInv
<1>3. offset' \in SizeT
  BY <1>2 DEF UnpackInv, BufferInv, BufferTypeOK
<1>4. CASE UnpackNext
  <2>1. StagesInv' /\ body_parts' \in Seq(PartType)
    BY <1>1, <1>3, <1>4, StagesStep
  <2> QED
    BY <1>1, <1>2, <1>3, <1>4, <2>1, LocalsStep DEF StagedInv
<1>5. CASE UNCHANGED unpackVars
  <2>1. UNCHANGED <<live, offset, limit, length, limits, todo, codec, value, end, nr, body_parts,
                    declared, overran, cut, wrapped>>
    BY <1>5 DEF unpackVars, bufferVars, locals, history
  <2>2. LocalsTyped'
    BY <1>1, <2>1 DEF LocalsTyped
  <2>3. StagesInv'
    <3>1. DataInMessage' <=> DataInMessage
      BY <2>1 DEF DataInMessage
    <3>2. \A s \in Stages : At(s) => At(s)'
      BY <2>1, <3>1 DEF At, LimitsAt, DeclaredAt, PartsAt, LastPart, Fits, Taken, Eof
    <3> QED
      BY <1>1, <2>1, <3>1, <3>2 DEF StagesInv
  <2> QED
    BY <1>2, <2>2, <2>3 DEF StagedInv
<1> QED
  BY <1>4, <1>5

(* Whatever is in a message or a push, the unpackers go through it by the    *)
(* stages above (mms.c:100-108, mms_body.c:92-134, wap_push.c:106-130).     *)
THEOREM StagesInvariant == UnpackSpec => []StagedInv
BY StagedInvInit, IInvNext, PTL DEF UnpackSpec

(* Every variable has its type: every offset and length of a part a size_t,  *)
(* every task one there is.                                                 *)
THEOREM UnpackTypes == UnpackSpec => []TypeOK
<1>1. StagedInv => TypeOK
  <2> SUFFICES ASSUME StagedInv
               PROVE  TypeOK
    OBVIOUS
  <2>1. todo \in Seq(Tasks)
    BY TodoTyped DEF StagedInv, UnpackInv
  <2>2. \A i \in 1 .. Len(body_parts) :
          /\ body_parts[i].head \in SizeT /\ body_parts[i].headLength \in SizeT
          /\ body_parts[i].data \in SizeT \cup {None} /\ body_parts[i].length \in SizeT
    <3>1. \A i \in 1 .. Len(body_parts) : body_parts[i] \in PartType
      BY ElementOfSeq DEF StagedInv, LocalsTyped
    <3> QED
      BY <3>1 DEF PartType
  <2> QED
    BY <2>1, <2>2 DEF StagedInv, UnpackInv, BufferInv, LocalsTyped, TypeOK
<1> QED
  BY <1>1, StagesInvariant, PTL

(* The stage at which a task is done.                                       *)
LEMMA StageOf ==
  ASSUME StagedInv, NEW task, Doing(task), task # "aborted"
  PROVE  \E s, m \in Stages : At(s) /\ <<s, task, m>> \in Flow
<1>1. todo # <<"aborted">> /\ TasksInv
  BY DEF Doing, StagedInv, UnpackInv
<1>2. PICK s \in Stages : Leads(s, todo, "done") /\ At(s)
  BY <1>1 DEF StagedInv, StagesInv
<1> QED
  BY <1>1, <1>2, Onward

(* However lengths nest, are refused or wrap, every limit that was pushed    *)
(* has been popped before the next header of the message, before the data   *)
(* of a part, and before the content of a push (mms_header.c:107-126,        *)
(* mms_body_part.c:99-126, wap_push.c:106-130).                             *)
THEOREM LimitsAreBalanced == UnpackSpec => []LimitsBalanced
<1>1. StagedInv => LimitsBalanced
  <2> SUFFICES ASSUME StagedInv, (Doing("items") /\ codec = "mms") \/ Doing("data") \/ Doing("content")
               PROVE  limits = <<>> /\ limit = length
    BY DEF LimitsBalanced
  <2>1. \E s \in {"header", "taken", "content"} : At(s)
    <3>1. CASE Doing("items") /\ codec = "mms"
      <4>1. PICK s, m \in Stages : At(s) /\ <<s, "items", m>> \in Flow
        BY <3>1, StageOf
      <4>2. s \in {"header", "inside", "within"}
        BY <4>1 DEF Flow
      <4> QED
        BY <3>1, <4>1, <4>2 DEF At, DeclaredAt, OfMessage, OfPart, OfPush
    <3>2. CASE Doing("data")
      <4>1. PICK s, m \in Stages : At(s) /\ <<s, "data", m>> \in Flow
        BY <3>2, StageOf
      <4>2. s = "taken"
        BY <4>1 DEF Flow
      <4> QED
        BY <4>1, <4>2
    <3>3. CASE Doing("content")
      <4>1. PICK s, m \in Stages : At(s) /\ <<s, "content", m>> \in Flow
        BY <3>3, StageOf
      <4>2. s = "content"
        BY <4>1 DEF Flow
      <4> QED
        BY <4>1, <4>2
    <3> QED
      BY <3>1, <3>2, <3>3
  <2>2. LimitsAt("header") \/ LimitsAt("taken") \/ LimitsAt("content")
    BY <2>1 DEF At
  <2>3. Len(limits) <= 0 /\ limit = IF limits = <<>> THEN length ELSE limits[Len(limits)]
    BY <2>2 DEF LimitsAt, Depth
  <2>4. limits = <<>>
    <3>1. limits \in Seq(SizeT)
      BY BufferTyped DEF StagedInv, UnpackInv
    <3> QED
      BY <2>3, <3>1, EmptySeq
  <2> QED
    BY <2>3, <2>4
<1> QED
  BY <1>1, StagesInvariant, PTL

(* A header item that says how long its value is, From with an encoded       *)
(* string in it included, ends there and nowhere else: its skip is to the   *)
(* limit of its own push, whatever became of one nested in it               *)
(* (mms_header_codec.c:322-350, mms_input_buffer.c:310-320).                *)
THEOREM ValuesEndWhereDeclared == UnpackSpec => []ValueEndsWhereDeclared
<1>1. StagedInv => ValueEndsWhereDeclared
  <2> SUFFICES ASSUME StagedInv, Doing("items"), codec = "mms", declared \in SizeT
               PROVE  offset = declared
    BY DEF ValueEndsWhereDeclared
  <2>1. PICK s, m \in Stages : At(s) /\ <<s, "items", m>> \in Flow
    BY StageOf
  <2>2. s \in {"header", "inside", "within"}
    BY <2>1 DEF Flow
  <2> QED
    BY <2>1, <2>2 DEF At, DeclaredAt, OfMessage, OfPart, OfPush
<1> QED
  BY <1>1, StagesInvariant, PTL

(* The data of the parts lies in the message, part behind part, and begins   *)
(* where the part's header ends when that is all there and no string ran     *)
(* past it (mms_body_part.c:99-126).                                        *)
THEOREM PartsInMessage == UnpackSpec => []DataInMessage
<1>1. StagedInv => DataInMessage
  BY DEF StagedInv, StagesInv, At, PartsAt
<1> QED
  BY <1>1, StagesInvariant, PTL

-----------------------------------------------------------------------------
(* Composing: MmsCompose.                                                  *)

(* The file names a slot may have, and the parts a message may have: made   *)
(* of a file or a text, or received.                                        *)
Plain == {n \in Names \cup Cids \cup {""} : FileName[n] = n}

PartSet ==
  {NewPart(f) : f \in Files \cup Range(Generated)}
    \cup UNION {Range(doc.parts) : doc \in Documents}

Par == [Slots -> Plain]

AllMessages == [pars : Seq(Par), parts : Seq(PartSet)]

NamesOf(list) == {part.name : part \in Range(list)}
Shown(slides) == UNION {{slides[p][s] : s \in Slots} : p \in DOMAIN slides}

OneName(list) ==
  \A i, j \in DOMAIN list : list[i].keys \cap list[j].keys # {} => i = j

(* The two halves of a message, and the names att of what is attached.      *)
Consistent(m, att) ==
  /\ OneName(m.parts)
  /\ Shown(m.pars) \ (Cids \cup {""}) \subseteq NamesOf(m.parts)
  /\ NamesOf(m.parts) \subseteq Shown(m.pars) \cup att
  /\ att \subseteq NamesOf(m.parts)
  /\ att \cap Shown(m.pars) = {}

Sound(m, att) == m \in AllMessages /\ Consistent(m, att)

(* Names of texts to come are no part's.                                    *)
TextsFree == \A k \in DOMAIN Generated : k > texts => Generated[k] \notin NamesOf(parts)

ComposeInv == Sound(Message, attached) /\ texts \in 0 .. Len(Generated) /\ TextsFree

AllOrdinary == \A doc \in Documents : Ordinary(doc)

-----------------------------------------------------------------------------
(* Names.                                                                  *)

(* What the assumption says of names, piece by piece.                       *)
LEMMA NamesAre ==
  /\ "" \notin Names /\ Files \subseteq Paths /\ Range(Generated) \subseteq Names
  /\ Names \cap Cids = {} /\ Paths \cap Cids = {} /\ "" \notin Cids /\ "" \notin Files
  /\ Plain \subseteq DOMAIN FileName /\ Paths \subseteq DOMAIN FileName
  /\ Range(Generated) \subseteq DOMAIN FileName
  /\ "" \in Plain /\ Range(Generated) \subseteq Plain /\ Cids \subseteq Plain
  /\ \A p \in Paths : FileName[p] \in Plain /\ FileName[p] \notin Cids
  /\ \A f \in Plain : FileName[f] = f
<1>1. DOMAIN FileName = Paths \cup Names \cup Cids \cup {""}
  BY ComposeAssumption
<1>2. \A p \in Paths : FileName[p] \in Names \cup Cids \cup {""} /\ FileName[FileName[p]] = FileName[p]
  BY ComposeAssumption
<1>3. "" \notin Files
  BY ComposeAssumption
<1>. QED BY <1>1, <1>2, <1>3, ComposeAssumption DEF Plain

(* A part answers to its name and, of what a file can be called, to nothing *)
(* else.                                                                   *)
LEMMA PartIs ==
  ASSUME AllOrdinary, NEW part \in PartSet
  PROVE  /\ part.name \in Plain \cap Names /\ part.name \in part.keys
         /\ \A f \in DOMAIN FileName : Answers(part, f) <=> FileName[f] = part.name
<1>1. CASE \E f \in Files \cup Range(Generated) : part = NewPart(f)
  <2>1. PICK f \in Files \cup Range(Generated) : part = NewPart(f)
    BY <1>1
  <2>2. part.name = FileName[f] /\ part.keys = {FileName[f]}
    BY <2>1 DEF NewPart
  <2>3. FileName[f] \in Plain \cap Names
    <3>1. CASE f \in Files
      BY <3>1, NamesAre, ComposeAssumption DEF Plain
    <3>2. CASE f \in Range(Generated)
      BY <3>2, NamesAre
    <3>. QED BY <3>1, <3>2
  <2>. QED BY <2>2, <2>3 DEF Answers
<1>2. CASE \E doc \in Documents : part \in Range(doc.parts)
  <2>1. PICK doc \in Documents : part \in Range(doc.parts)
    BY <1>2
  <2>2. PICK i \in DOMAIN doc.parts : part = doc.parts[i]
    BY <2>1 DEF Range
  <2>3. /\ part.name \in Names /\ FileName[part.name] = part.name
        /\ part.name \in part.keys
        /\ \A n \in DOMAIN FileName : FileName[n] \in part.keys => FileName[n] = part.name
    BY <2>2 DEF AllOrdinary, Ordinary
  <2>. QED BY <2>3 DEF Answers, Plain
<1>. QED BY <1>1, <1>2 DEF PartSet

(* The first part that answers is the part of that name.                    *)
LEMMA FindIs ==
  ASSUME AllOrdinary, NEW list \in Seq(PartSet), NEW f \in DOMAIN FileName
  PROVE  /\ Find(list, f) = 0 <=> FileName[f] \notin NamesOf(list)
         /\ Find(list, f) # 0 =>
              Find(list, f) \in 1 .. Len(list) /\ list[Find(list, f)].name = FileName[f]
<1>. DEFINE T == {i \in 1 .. Len(list) : Answers(list[i], f)}
<1>1. Find(list, f) = IF T # {} THEN Min(T) ELSE 0
  BY DEF Find, SelectInSeq
<1>2. T \subseteq Nat /\ 0 \notin T
  OBVIOUS
<1>3. \A i \in 1 .. Len(list) : i \in T <=> list[i].name = FileName[f]
  BY PartIs
<1>4. FileName[f] \in NamesOf(list) <=> T # {}
  BY <1>3 DEF NamesOf, Range
<1>5. T # {} => Min(T) \in T
  <2>. SUFFICES ASSUME T # {} PROVE Min(T) \in T
    OBVIOUS
  <2>. HIDE DEF T
  <2>1. \E x \in T : \A y \in T : x =< y
    BY <1>2, LeastOf
  <2>. QED BY <2>1 DEF Min
<1>. HIDE DEF T
<1>6. T \subseteq 1 .. Len(list)
  BY DEF T
<1>. QED BY <1>1, <1>2, <1>3, <1>4, <1>5, <1>6

(* Parts of one name are one part.                                          *)
LEMMA NameIsIndex ==
  ASSUME AllOrdinary, NEW list \in Seq(PartSet), OneName(list),
         NEW i \in 1 .. Len(list), NEW j \in 1 .. Len(list), list[i].name = list[j].name
  PROVE  i = j
<1>1. list[i] \in PartSet /\ list[j] \in PartSet /\ i \in DOMAIN list /\ j \in DOMAIN list
  OBVIOUS
<1>2. list[i].name \in list[i].keys \cap list[j].keys
  BY <1>1, PartIs
<1>. QED BY <1>1, <1>2 DEF OneName

(* What is erased is the part of that name, and nothing else.               *)
LEMMA EraseIs ==
  ASSUME AllOrdinary, NEW list \in Seq(PartSet), OneName(list), NEW f \in DOMAIN FileName
  PROVE  /\ EraseBodyPart(list, f) \in Seq(PartSet) /\ OneName(EraseBodyPart(list, f))
         /\ Range(EraseBodyPart(list, f)) = {part \in Range(list) : part.name # FileName[f]}
<1>1. CASE Find(list, f) = 0
  <2>1. EraseBodyPart(list, f) = list /\ FileName[f] \notin NamesOf(list)
    BY <1>1, FindIs DEF EraseBodyPart
  <2>. QED BY <2>1 DEF NamesOf
<1>2. CASE Find(list, f) # 0
  <2>. DEFINE k == Find(list, f)
              rest == RemoveAt(list, k)
  <2>1. k \in 1 .. Len(list) /\ list[k].name = FileName[f] /\ EraseBodyPart(list, f) = rest
    BY <1>2, FindIs DEF EraseBodyPart
  <2>. HIDE DEF k
  <2>2. /\ rest \in Seq(PartSet) /\ DOMAIN rest = 1 .. Len(list) - 1
        /\ \A i \in 1 .. Len(list) - 1 : rest[i] = IF i < k THEN list[i] ELSE list[i + 1]
    BY <2>1, RemoveAtIs
  <2>. HIDE DEF rest
  <2>3. DOMAIN list = 1 .. Len(list) /\ Len(list) \in Nat
    OBVIOUS
  <2>4. OneName(rest)
    <3>. SUFFICES ASSUME NEW i \in 1 .. Len(list) - 1, NEW j \in 1 .. Len(list) - 1,
                         rest[i].keys \cap rest[j].keys # {}
                  PROVE  i = j
      BY <2>2 DEF OneName
    <3>. DEFINE a == IF i < k THEN i ELSE i + 1
                b == IF j < k THEN j ELSE j + 1
    <3>1. a \in DOMAIN list /\ b \in DOMAIN list /\ (a = b => i = j)
      BY <2>1, <2>3
    <3>2. rest[i] = list[a] /\ rest[j] = list[b]
      BY <2>2
    <3>. HIDE DEF a, b
    <3>. QED BY <3>1, <3>2 DEF OneName
  <2>5. \A part : part \in Range(rest) => part \in Range(list) /\ part.name # FileName[f]
    <3>. SUFFICES ASSUME NEW i \in 1 .. Len(list) - 1
                  PROVE  rest[i] \in Range(list) /\ rest[i].name # FileName[f]
      BY <2>2 DEF Range
    <3>. DEFINE a == IF i < k THEN i ELSE i + 1
    <3>1. a \in 1 .. Len(list) /\ a # k
      BY <2>1, <2>3
    <3>2. rest[i] = list[a]
      BY <2>2
    <3>. HIDE DEF a
    <3>3. list[a].name # FileName[f]
      BY <2>1, <3>1, NameIsIndex
    <3>. QED BY <2>3, <3>1, <3>2, <3>3 DEF Range
  <2>6. \A part : part \in Range(list) /\ part.name # FileName[f] => part \in Range(rest)
    <3>. SUFFICES ASSUME NEW i \in 1 .. Len(list), i # k
                  PROVE  list[i] \in Range(rest)
      BY <2>1, <2>3 DEF Range
    <3>. DEFINE a == IF i < k THEN i ELSE i - 1
    <3>1. a \in 1 .. Len(list) - 1 /\ i = IF a < k THEN a ELSE a + 1
      BY <2>1, <2>3
    <3>. HIDE DEF a
    <3>2. rest[a] = list[i]
      BY <2>2, <3>1
    <3>. QED BY <2>2, <3>1, <3>2 DEF Range
  <2>. QED BY <2>1, <2>2, <2>4, <2>5, <2>6
<1>. QED BY <1>1, <1>2

(* A part is added under a name that none has.                              *)
LEMMA AddIs ==
  ASSUME AllOrdinary, NEW list \in Seq(PartSet), OneName(list),
         NEW f \in Files \cup Range(Generated), FileName[f] \notin NamesOf(list)
  PROVE  /\ Append(list, NewPart(f)) \in Seq(PartSet) /\ OneName(Append(list, NewPart(f)))
         /\ Range(Append(list, NewPart(f))) = Range(list) \cup {NewPart(f)}
         /\ NewPart(f).name = FileName[f]
<1>. DEFINE more == Append(list, NewPart(f))
            n    == Len(list)
<1>1. NewPart(f) \in PartSet /\ NewPart(f).name = FileName[f] /\ NewPart(f).keys = {FileName[f]}
  BY DEF PartSet, NewPart
<1>2. /\ n \in Nat /\ DOMAIN list = 1 .. n
      /\ more \in Seq(PartSet) /\ DOMAIN more = 1 .. n + 1 /\ more[n + 1] = NewPart(f)
      /\ \A i \in 1 .. n : more[i] = list[i]
  BY <1>1
<1>. HIDE DEF more, n
<1>3. \A i \in 1 .. n + 1 : i = n + 1 \/ i \in 1 .. n
  BY <1>2
<1>4. \A i \in 1 .. n : FileName[f] \notin list[i].keys
  <2>. SUFFICES ASSUME NEW i \in 1 .. n PROVE FileName[f] \notin list[i].keys
    OBVIOUS
  <2>1. list[i] \in PartSet /\ list[i].name # FileName[f]
    BY <1>2 DEF NamesOf, Range
  <2>2. f \in DOMAIN FileName
    BY NamesAre
  <2>. QED BY <2>1, <2>2, PartIs DEF Answers
<1>5. OneName(more)
  <2>. SUFFICES ASSUME NEW i \in 1 .. n + 1, NEW j \in 1 .. n + 1,
                       more[i].keys \cap more[j].keys # {}
                PROVE  i = j
    BY <1>2 DEF OneName
  <2>1. CASE i \in 1 .. n /\ j \in 1 .. n
    BY <1>2, <2>1 DEF OneName
  <2>2. CASE i = n + 1 /\ j \in 1 .. n
    BY <1>1, <1>2, <1>4, <2>2
  <2>3. CASE i \in 1 .. n /\ j = n + 1
    BY <1>1, <1>2, <1>4, <2>3
  <2>. QED BY <1>3, <2>1, <2>2, <2>3
<1>6. Range(more) = Range(list) \cup {NewPart(f)}
  <2>1. n + 1 \in 1 .. n + 1 /\ 1 .. n \subseteq 1 .. n + 1
    BY <1>2
  <2>. QED BY <1>2, <1>3, <2>1 DEF Range
<1>7. more = Append(list, NewPart(f))
  BY DEF more
<1>. QED BY <1>1, <1>2, <1>5, <1>6, <1>7

-----------------------------------------------------------------------------
(* Slots.                                                                  *)

(* mms_smil_is_file_exist says whether a file is among the names shown.      *)
LEMMA ShowsIs ==
  ASSUME NEW slides, NEW f
  PROVE  Shows(slides, f) <=> FileName[f] \in Shown(slides)
BY DEF Shows, Shown

(* Pars other are slides with the slot s of par q set to v.                  *)
SetTo(slides, other, q, s, v) ==
  /\ DOMAIN other = DOMAIN slides /\ Len(other) = Len(slides)
  /\ other[q][s] = v
  /\ \A p \in DOMAIN slides, t \in Slots :
       <<p, t>> # <<q, s>> => other[p][t] = slides[p][t]

LEMMA SlotIs ==
  ASSUME NEW slides \in Seq(Par), NEW q \in DOMAIN slides, NEW s \in Slots, NEW v \in Plain
  PROVE  LET other == [slides EXCEPT ![q][s] = v]
         IN  /\ other \in Seq(Par) /\ SetTo(slides, other, q, s, v)
             /\ Shown(other) \subseteq Shown(slides) \cup {v} /\ v \in Shown(other)
             /\ Shown(slides) \subseteq Shown(other) \cup {slides[q][s]}
<1>. DEFINE other == [slides EXCEPT ![q][s] = v]
<1>1. \A p \in DOMAIN slides : slides[p] \in Par
  OBVIOUS
<1>2. /\ other \in Seq(Par) /\ DOMAIN other = DOMAIN slides /\ Len(other) = Len(slides)
      /\ other[q] = [slides[q] EXCEPT ![s] = v]
      /\ \A p \in DOMAIN slides : p # q => other[p] = slides[p]
  <2>1. [slides[q] EXCEPT ![s] = v] \in Par
    BY <1>1 DEF Par
  <2>2. other = [slides EXCEPT ![q] = [slides[q] EXCEPT ![s] = v]]
    OBVIOUS
  <2>. HIDE DEF Par
  <2>. QED BY <2>1, <2>2
<1>. HIDE DEF other
<1>3. other[q][s] = v /\ \A t \in Slots : t # s => other[q][t] = slides[q][t]
  BY <1>1, <1>2 DEF Par
<1>4. \A p \in DOMAIN slides, t \in Slots : <<p, t>> # <<q, s>> => other[p][t] = slides[p][t]
  BY <1>2, <1>3
<1>5. \A p \in DOMAIN slides, t \in Slots : other[p][t] \in Shown(slides) \cup {v}
  BY <1>3, <1>4 DEF Shown
<1>6. \A p \in DOMAIN slides, t \in Slots : slides[p][t] \in Shown(other) \cup {slides[q][s]}
  BY <1>2, <1>3, <1>4 DEF Shown
<1>7. SetTo(slides, other, q, s, v)
  BY <1>2, <1>3, <1>4 DEF SetTo
<1>8. /\ Shown(other) \subseteq Shown(slides) \cup {v} /\ v \in Shown(other)
      /\ Shown(slides) \subseteq Shown(other) \cup {slides[q][s]}
  <2>1. Shown(other) \subseteq Shown(slides) \cup {v}
    <3>1. DOMAIN other = DOMAIN slides
      BY <1>2
    <3>. QED BY <1>5, <3>1 DEF Shown
  <2>2. v \in Shown(other)
    <3>1. q \in DOMAIN other
      BY <1>2
    <3>. QED BY <1>3, <3>1 DEF Shown
  <2>3. Shown(slides) \subseteq Shown(other) \cup {slides[q][s]}
    BY <1>6 DEF Shown
  <2>. QED BY <2>1, <2>2, <2>3
<1>. QED BY <1>2, <1>7, <1>8 DEF other

LEMMA MessageIs ==
  ASSUME NEW slides \in Seq(Par), NEW list \in Seq(PartSet)
  PROVE  [pars |-> slides, parts |-> list] \in AllMessages
BY DEF AllMessages

(* Types of the names of a message.                                         *)
LEMMA NamesTyped ==
  ASSUME AllOrdinary, NEW m \in AllMessages
  PROVE  /\ NamesOf(m.parts) \subseteq Names \cap Plain
         /\ Shown(m.pars) \subseteq Plain
         /\ m.parts \in Seq(PartSet) /\ m.pars \in Seq(Par)
         /\ \A p \in DOMAIN m.pars, s \in Slots :
              m.pars[p][s] \in Plain /\ m.pars[p][s] \in Shown(m.pars)
<1>1. m.parts \in Seq(PartSet) /\ m.pars \in Seq(Par)
  BY DEF AllMessages
<1>2. \A part \in Range(m.parts) : part.name \in Names \cap Plain
  <2>1. \A part \in Range(m.parts) : part \in PartSet
    BY <1>1 DEF Range
  <2>. QED BY <2>1, PartIs
<1>3. \A p \in DOMAIN m.pars, s \in Slots : m.pars[p][s] \in Plain
  <2>1. \A p \in DOMAIN m.pars : m.pars[p] \in Par
    BY <1>1
  <2>. QED BY <2>1 DEF Par
<1>. QED BY <1>1, <1>2, <1>3 DEF NamesOf, Shown

-----------------------------------------------------------------------------
(* The two halves together.                                                *)

(* Of the parts of m there are left in r at least those shown or attached.   *)
PartsKept(m, r, att) ==
  /\ Range(r.parts) \subseteq Range(m.parts)
  /\ \A part \in Range(m.parts) :
       part.name \in Shown(r.pars) \cup att => part \in Range(r.parts)

(* MMS_ERASE_FILE leaves a consistent message.                              *)
LEMMA EraseSlotIs ==
  ASSUME AllOrdinary, NEW m, NEW att, Sound(m, att), NEW q \in DOMAIN m.pars, NEW s \in Slots
  PROVE  /\ Sound(EraseSlot(m, q, s), att)
         /\ SetTo(m.pars, EraseSlot(m, q, s).pars, q, s, "")
         /\ PartsKept(m, EraseSlot(m, q, s), att)
<1>. DEFINE f == m.pars[q][s]
            r == EraseSlot(m, q, s)
            cleared == [m.pars EXCEPT ![q][s] = ""]
<1>1. m \in AllMessages /\ Consistent(m, att)
  BY DEF Sound
<1>2. /\ NamesOf(m.parts) \subseteq Names \cap Plain /\ Shown(m.pars) \subseteq Plain
      /\ m.parts \in Seq(PartSet) /\ m.pars \in Seq(Par) /\ f \in Plain /\ f \in Shown(m.pars)
  BY <1>1, NamesTyped
<1>5. /\ OneName(m.parts) /\ Shown(m.pars) \ (Cids \cup {""}) \subseteq NamesOf(m.parts)
      /\ NamesOf(m.parts) \subseteq Shown(m.pars) \cup att /\ att \subseteq NamesOf(m.parts)
      /\ att \cap Shown(m.pars) = {}
  BY <1>1 DEF Consistent
<1>3. CASE f = ""
  <2>1. r = m
    BY <1>3 DEF EraseSlot
  <2>. QED BY <1>3, <2>1 DEF SetTo, PartsKept
<1>4. CASE f # ""
  <2>1. r = [pars  |-> cleared,
             parts |-> IF Shows(cleared, f) THEN m.parts ELSE EraseBodyPart(m.parts, f)]
    BY <1>4 DEF EraseSlot
  <2>. HIDE DEF r
  <2>2. /\ cleared \in Seq(Par) /\ SetTo(m.pars, cleared, q, s, "")
        /\ Shown(cleared) \subseteq Shown(m.pars) \cup {""}
        /\ Shown(m.pars) \subseteq Shown(cleared) \cup {f}
    <3>1. "" \in Plain /\ m.pars \in Seq(Par)
      BY <1>2, NamesAre
    <3>. QED BY <3>1, SlotIs
  <2>3. FileName[f] = f /\ f \in DOMAIN FileName /\ (Shows(cleared, f) <=> f \in Shown(cleared))
    BY <1>2, NamesAre, ShowsIs
  <2>. HIDE DEF cleared, f
  <2>4. r.pars = cleared
    BY <2>1
  <2>5. SetTo(m.pars, r.pars, q, s, "")
    BY <2>2, <2>4
  <2>8. "" \notin Names
    BY NamesAre
  <2>6. CASE f \in Shown(cleared)
    <3>1. r.parts = m.parts /\ r = [pars |-> cleared, parts |-> m.parts]
      BY <2>1, <2>3, <2>6
    <3>2. r \in AllMessages
      BY <1>2, <2>2, <3>1, MessageIs
    <3>3. Consistent(r, att)
      BY <1>2, <1>5, <2>2, <2>4, <2>6, <2>8, <3>1 DEF Consistent
    <3>4. PartsKept(m, r, att)
      BY <3>1 DEF PartsKept
    <3>. QED BY <2>5, <3>2, <3>3, <3>4 DEF Sound, r
  <2>7. CASE f \notin Shown(cleared)
    <3>. DEFINE rest == EraseBodyPart(m.parts, f)
    <3>1. r.parts = rest /\ r = [pars |-> cleared, parts |-> rest]
      BY <2>1, <2>3, <2>7
    <3>2. /\ rest \in Seq(PartSet) /\ OneName(rest)
          /\ Range(rest) = {part \in Range(m.parts) : part.name # f}
      <4>1. /\ rest \in Seq(PartSet) /\ OneName(rest)
            /\ Range(rest) = {part \in Range(m.parts) : part.name # FileName[f]}
        BY <1>5, <1>2, <2>3, EraseIs
      <4>. QED BY <2>3, <4>1
    <3>. HIDE DEF rest
    <3>3. NamesOf(rest) = NamesOf(m.parts) \ {f}
      BY <3>2 DEF NamesOf
    <3>4. r \in AllMessages
      BY <2>2, <3>1, <3>2, MessageIs
    <3>5. f \notin att
      BY <1>5, <1>2
    <3>6. Consistent(r, att)
      <4>1. OneName(r.parts) /\ NamesOf(r.parts) = NamesOf(m.parts) \ {f}
        BY <3>1, <3>2, <3>3
      <4>2. Shown(r.pars) \ (Cids \cup {""}) \subseteq NamesOf(r.parts)
        BY <1>5, <2>2, <2>4, <2>7, <4>1
      <4>3. NamesOf(r.parts) \subseteq Shown(r.pars) \cup att
        BY <1>5, <2>2, <2>4, <4>1
      <4>4. att \subseteq NamesOf(r.parts) /\ att \cap Shown(r.pars) = {}
        BY <1>2, <1>5, <2>2, <2>4, <2>8, <3>5, <4>1
      <4>. QED BY <4>1, <4>2, <4>3, <4>4 DEF Consistent
    <3>7. PartsKept(m, r, att)
      BY <2>4, <2>7, <3>1, <3>2, <3>5 DEF PartsKept
    <3>. QED BY <2>5, <3>4, <3>6, <3>7 DEF Sound, r
  <2>. QED BY <2>6, <2>7
<1>. QED BY <1>3, <1>4

(* The parts of a name; and that, but for the slots changed, every slot      *)
(* shows what it showed, and behind its name is the part that was there.    *)
Behind(list, n) == {part \in Range(list) : part.name = n}

ChangesOnly(m, r, changed) ==
  /\ DOMAIN r.pars = DOMAIN m.pars /\ Len(r.pars) = Len(m.pars)
  /\ \A p \in DOMAIN m.pars, t \in Slots :
       <<p, t>> \notin changed =>
         /\ r.pars[p][t] = m.pars[p][t]
         /\ m.pars[p][t] # "" => Behind(r.parts, m.pars[p][t]) = Behind(m.parts, m.pars[p][t])

(* No part comes that a text made later could be confused with.              *)
NoTextComes(m, r) == \A n \in NamesOf(r.parts) : n \in NamesOf(m.parts) \/ n \notin Range(Generated)

LEMMA ChangesTransitive ==
  ASSUME NEW m, NEW r, NEW t, NEW changed,
         ChangesOnly(m, r, changed), ChangesOnly(r, t, changed)
  PROVE  ChangesOnly(m, t, changed)
<1>1. DOMAIN t.pars = DOMAIN m.pars /\ Len(t.pars) = Len(m.pars) /\ DOMAIN r.pars = DOMAIN m.pars
  BY DEF ChangesOnly
<1>2. ASSUME NEW p \in DOMAIN m.pars, NEW s \in Slots, <<p, s>> \notin changed
      PROVE  /\ t.pars[p][s] = m.pars[p][s]
             /\ m.pars[p][s] # "" => Behind(t.parts, m.pars[p][s]) = Behind(m.parts, m.pars[p][s])
  <2>1. /\ r.pars[p][s] = m.pars[p][s]
        /\ m.pars[p][s] # "" => Behind(r.parts, m.pars[p][s]) = Behind(m.parts, m.pars[p][s])
    BY <1>2 DEF ChangesOnly
  <2>2. /\ t.pars[p][s] = r.pars[p][s]
        /\ r.pars[p][s] # "" => Behind(t.parts, r.pars[p][s]) = Behind(r.parts, r.pars[p][s])
    BY <1>1, <1>2 DEF ChangesOnly
  <2>. QED BY <2>1, <2>2
<1>. QED BY <1>1, <1>2 DEF ChangesOnly

(* What MMS_ERASE_FILE leaves alone.                                        *)
LEMMA EraseSlotChanges ==
  ASSUME AllOrdinary, NEW m, NEW att, Sound(m, att), NEW q \in DOMAIN m.pars, NEW s \in Slots
  PROVE  /\ ChangesOnly(m, EraseSlot(m, q, s), {<<q, s>>})
         /\ NoTextComes(m, EraseSlot(m, q, s))
<1>. DEFINE r == EraseSlot(m, q, s)
<1>1. SetTo(m.pars, r.pars, q, s, "") /\ PartsKept(m, r, att)
  BY EraseSlotIs
<1>. HIDE DEF r
<1>2. ASSUME NEW p \in DOMAIN m.pars, NEW t \in Slots, <<p, t>> # <<q, s>>
      PROVE  /\ r.pars[p][t] = m.pars[p][t]
             /\ Behind(r.parts, m.pars[p][t]) = Behind(m.parts, m.pars[p][t])
  <2>1. r.pars[p][t] = m.pars[p][t] /\ p \in DOMAIN r.pars
    BY <1>1, <1>2 DEF SetTo
  <2>2. m.pars[p][t] \in Shown(r.pars)
    BY <2>1 DEF Shown
  <2>. QED BY <1>1, <2>1, <2>2 DEF PartsKept, Behind
<1>3. ChangesOnly(m, r, {<<q, s>>})
  BY <1>1, <1>2 DEF ChangesOnly, SetTo
<1>4. NoTextComes(m, r)
  BY <1>1 DEF NoTextComes, PartsKept, NamesOf
<1>. QED BY <1>3, <1>4 DEF r

(* mms_smil_par_set_xxx, of a slot that is empty, to the name of a part.     *)
LEMMA SetSlotIs ==
  ASSUME AllOrdinary, NEW m, NEW att, Sound(m, att), NEW q \in DOMAIN m.pars, NEW s \in Slots,
         m.pars[q][s] = "", NEW f \in DOMAIN FileName, FileName[f] \in NamesOf(m.parts)
  PROVE  /\ Sound(SetSlot(m, q, s, f), att \ {FileName[f]})
         /\ ChangesOnly(m, SetSlot(m, q, s, f), {<<q, s>>})
         /\ SetSlot(m, q, s, f).parts = m.parts
<1>. DEFINE v == FileName[f]
            r == SetSlot(m, q, s, f)
            slides == [m.pars EXCEPT ![q][s] = v]
<1>1. /\ m \in AllMessages /\ OneName(m.parts)
      /\ Shown(m.pars) \ (Cids \cup {""}) \subseteq NamesOf(m.parts)
      /\ NamesOf(m.parts) \subseteq Shown(m.pars) \cup att /\ att \subseteq NamesOf(m.parts)
      /\ att \cap Shown(m.pars) = {}
  BY DEF Sound, Consistent
<1>2. /\ NamesOf(m.parts) \subseteq Names \cap Plain /\ Shown(m.pars) \subseteq Plain
      /\ m.parts \in Seq(PartSet) /\ m.pars \in Seq(Par)
  BY <1>1, NamesTyped
<1>3. v \in Names \cap Plain
  BY <1>2
<1>4. /\ slides \in Seq(Par) /\ SetTo(m.pars, slides, q, s, v)
      /\ Shown(slides) \subseteq Shown(m.pars) \cup {v} /\ v \in Shown(slides)
      /\ Shown(m.pars) \subseteq Shown(slides) \cup {""}
  <2>1. v \in Plain /\ m.pars \in Seq(Par)
    BY <1>2, <1>3
  <2>. HIDE DEF v
  <2>2. /\ slides \in Seq(Par) /\ SetTo(m.pars, slides, q, s, v)
        /\ Shown(slides) \subseteq Shown(m.pars) \cup {v} /\ v \in Shown(slides)
        /\ Shown(m.pars) \subseteq Shown(slides) \cup {m.pars[q][s]}
    BY <2>1, SlotIs
  <2>. QED BY <2>2
<1>5. r.pars = slides /\ r.parts = m.parts /\ r = [pars |-> slides, parts |-> m.parts]
  <2>1. m = [pars |-> m.pars, parts |-> m.parts]
    BY <1>1 DEF AllMessages
  <2>2. r = [m EXCEPT !.pars = slides]
    BY DEF SetSlot
  <2>. HIDE DEF slides, r
  <2>. QED BY <2>1, <2>2
<1>6. "" \notin Names
  BY NamesAre
<1>7. v \in NamesOf(m.parts)
  OBVIOUS
<1>. HIDE DEF slides, r, v
<1>8. r \in AllMessages
  BY <1>2, <1>4, <1>5, MessageIs
<1>9. Consistent(r, att \ {v})
  <2>1. OneName(r.parts) /\ NamesOf(r.parts) = NamesOf(m.parts)
    BY <1>1, <1>5
  <2>2. Shown(r.pars) \ (Cids \cup {""}) \subseteq NamesOf(r.parts)
    BY <1>1, <1>4, <1>5, <1>7, <2>1
  <2>3. NamesOf(r.parts) \subseteq Shown(r.pars) \cup (att \ {v})
    BY <1>1, <1>2, <1>4, <1>5, <1>6, <2>1
  <2>4. att \ {v} \subseteq NamesOf(r.parts) /\ (att \ {v}) \cap Shown(r.pars) = {}
    BY <1>1, <1>4, <1>5, <2>1
  <2>. QED BY <2>1, <2>2, <2>3, <2>4 DEF Consistent
<1>10. ChangesOnly(m, r, {<<q, s>>})
  BY <1>4, <1>5 DEF SetTo, ChangesOnly
<1>. QED BY <1>5, <1>8, <1>9, <1>10 DEF Sound, r, v

(* A part is added: attached, until a slot shows it.                         *)
LEMMA AddPartIs ==
  ASSUME AllOrdinary, NEW m, NEW att, Sound(m, att),
         NEW f \in Files \cup Range(Generated), FileName[f] \notin NamesOf(m.parts)
  PROVE  /\ Sound(AddPart(m, f), att \cup {FileName[f]})
         /\ AddPart(m, f).pars = m.pars
         /\ NamesOf(AddPart(m, f).parts) = NamesOf(m.parts) \cup {FileName[f]}
         /\ ChangesOnly(m, AddPart(m, f), {})
<1>. DEFINE v == FileName[f]
            r == AddPart(m, f)
            list == Append(m.parts, NewPart(f))
<1>1. /\ m \in AllMessages /\ OneName(m.parts)
      /\ Shown(m.pars) \ (Cids \cup {""}) \subseteq NamesOf(m.parts)
      /\ NamesOf(m.parts) \subseteq Shown(m.pars) \cup att /\ att \subseteq NamesOf(m.parts)
      /\ att \cap Shown(m.pars) = {}
  BY DEF Sound, Consistent
<1>2. m.parts \in Seq(PartSet) /\ m.pars \in Seq(Par)
  BY <1>1, NamesTyped
<1>3. v \in Names /\ v \notin Cids \cup {""} /\ v \notin NamesOf(m.parts)
  <2>1. NewPart(f) \in PartSet /\ NewPart(f).name = v
    BY DEF PartSet, NewPart
  <2>2. v \in Names
    BY <2>1, PartIs
  <2>. QED BY <2>2, NamesAre
<1>4. /\ list \in Seq(PartSet) /\ OneName(list)
      /\ Range(list) = Range(m.parts) \cup {NewPart(f)} /\ NewPart(f).name = v
  BY <1>1, <1>2, AddIs
<1>5. r.pars = m.pars /\ r.parts = list /\ r = [pars |-> m.pars, parts |-> list]
  <2>1. m = [pars |-> m.pars, parts |-> m.parts]
    BY <1>1 DEF AllMessages
  <2>2. r = [m EXCEPT !.parts = list]
    BY DEF AddPart
  <2>. HIDE DEF list, r
  <2>. QED BY <2>1, <2>2
<1>. HIDE DEF list, r, v
<1>6. NamesOf(r.parts) = NamesOf(m.parts) \cup {v}
  BY <1>4, <1>5 DEF NamesOf
<1>7. v \notin Shown(m.pars)
  BY <1>1, <1>3
<1>8. r \in AllMessages
  BY <1>2, <1>4, <1>5, MessageIs
<1>9. Consistent(r, att \cup {v})
  <2>1. OneName(r.parts) /\ Shown(r.pars) = Shown(m.pars)
    BY <1>4, <1>5
  <2>2. Shown(r.pars) \ (Cids \cup {""}) \subseteq NamesOf(r.parts)
    BY <1>1, <1>6, <2>1
  <2>3. NamesOf(r.parts) \subseteq Shown(r.pars) \cup (att \cup {v})
    BY <1>1, <1>6, <2>1
  <2>4. att \cup {v} \subseteq NamesOf(r.parts) /\ (att \cup {v}) \cap Shown(r.pars) = {}
    BY <1>1, <1>6, <1>7, <2>1
  <2>. QED BY <2>1, <2>2, <2>3, <2>4 DEF Consistent
<1>10. ChangesOnly(m, r, {})
  <2>1. ASSUME NEW p \in DOMAIN m.pars, NEW t \in Slots
        PROVE  Behind(r.parts, m.pars[p][t]) = Behind(m.parts, m.pars[p][t])
    <3>1. m.pars[p][t] # v
      BY <1>7 DEF Shown
    <3>. QED BY <1>4, <1>5, <3>1 DEF Behind
  <2>. QED BY <1>5, <2>1 DEF ChangesOnly
<1>. QED BY <1>5, <1>6, <1>8, <1>9, <1>10 DEF Sound, r, v

(* Of r, that it is m with a part of name v added and shown in a slot.       *)
Added(m, r, att, q, s, v) ==
  /\ Sound(r, att) /\ Sound(r, att \ {v})
  /\ ChangesOnly(m, r, {<<q, s>>})
  /\ NamesOf(r.parts) = NamesOf(m.parts) \cup {v}

(* A part made for a slot.                                                  *)
LEMMA AddThenSet ==
  ASSUME AllOrdinary, NEW m, NEW att, Sound(m, att), NEW q \in DOMAIN m.pars, NEW s \in Slots,
         m.pars[q][s] = "", NEW f \in Files \cup Range(Generated),
         FileName[f] \notin NamesOf(m.parts)
  PROVE  Added(m, SetSlot(AddPart(m, f), q, s, f), att, q, s, FileName[f])
<1>. DEFINE more == AddPart(m, f)
            v == FileName[f]
            r == SetSlot(more, q, s, f)
<1>1. /\ Sound(more, att \cup {v}) /\ more.pars = m.pars
      /\ NamesOf(more.parts) = NamesOf(m.parts) \cup {v} /\ ChangesOnly(m, more, {})
  BY AddPartIs
<1>2. f \in DOMAIN FileName
  BY NamesAre
<1>. HIDE DEF more
<1>3. /\ Sound(r, (att \cup {v}) \ {v}) /\ ChangesOnly(more, r, {<<q, s>>})
      /\ r.parts = more.parts
  <2>1. /\ Sound(more, att \cup {v}) /\ q \in DOMAIN more.pars /\ more.pars[q][s] = ""
        /\ FileName[f] \in NamesOf(more.parts)
    BY <1>1
  <2>. QED BY <1>2, <2>1, SetSlotIs
<1>4. (att \cup {v}) \ {v} = att /\ att \ {v} = att
  BY DEF Sound, Consistent
<1>5. ChangesOnly(m, more, {<<q, s>>})
  BY <1>1 DEF ChangesOnly
<1>. HIDE DEF r
<1>6. ChangesOnly(m, r, {<<q, s>>})
  BY <1>3, <1>5, ChangesTransitive
<1>. QED BY <1>1, <1>3, <1>4, <1>6 DEF Added, r, more

LEMMA BecomeIs ==
  ASSUME NEW m \in AllMessages, Become(m)
  PROVE  Message' = m
BY DEF Become, Message, AllMessages

(* mms_add_body_part and mms_smil_par_set_xxx.                              *)
LEMMA ShowIs ==
  ASSUME AllOrdinary, NEW m, Sound(m, attached), NEW q \in DOMAIN m.pars, NEW s \in Slots,
         m.pars[q][s] = "", NEW f \in Paths \cup Shown(m.pars), Show(m, q, s, f)
  PROVE  /\ Sound(Message', attached')
         /\ ChangesOnly(m, Message', {<<q, s>>})
         /\ NoTextComes(m, Message')
<1>. DEFINE v == FileName[f]
<1>1. m \in AllMessages
  BY DEF Sound
<1>2. m.parts \in Seq(PartSet) /\ f \in DOMAIN FileName
  <2>1. m.parts \in Seq(PartSet) /\ Shown(m.pars) \subseteq Plain
    BY <1>1, NamesTyped
  <2>. QED BY <2>1, NamesAre
<1>3. Find(m.parts, f) = 0 <=> v \notin NamesOf(m.parts)
  BY <1>2, FindIs
<1>4. CASE v \in NamesOf(m.parts)
  <2>. DEFINE r == SetSlot(m, q, s, f)
  <2>1. /\ Sound(r, attached \ {v}) /\ ChangesOnly(m, r, {<<q, s>>}) /\ r.parts = m.parts
    BY <1>2, <1>4, SetSlotIs
  <2>2. Become(r) /\ attached' = attached \ {v}
    BY <1>3, <1>4 DEF Show
  <2>. HIDE DEF r
  <2>3. Message' = r
    BY <2>1, <2>2, BecomeIs DEF Sound
  <2>. QED BY <2>1, <2>2, <2>3 DEF NoTextComes
<1>5. CASE v \notin NamesOf(m.parts) /\ f \in Files
  <2>. DEFINE r == SetSlot(AddPart(m, f), q, s, f)
  <2>1. /\ Sound(r, attached \ {v}) /\ ChangesOnly(m, r, {<<q, s>>})
        /\ NamesOf(r.parts) = NamesOf(m.parts) \cup {v}
    <3>1. f \in Files \cup Range(Generated) /\ FileName[f] \notin NamesOf(m.parts)
      BY <1>5
    <3>2. Added(m, r, attached, q, s, FileName[f])
      BY <3>1, AddThenSet
    <3>. QED BY <3>2 DEF Added
  <2>2. Become(r) /\ attached' = attached \ {v}
    BY <1>3, <1>5 DEF Show
  <2>. HIDE DEF r
  <2>3. Message' = r
    BY <2>1, <2>2, BecomeIs DEF Sound
  <2>4. v \notin Range(Generated)
    BY <1>5, ComposeAssumption
  <2>. QED BY <2>1, <2>2, <2>3, <2>4 DEF NoTextComes
<1>6. CASE v \notin NamesOf(m.parts) /\ f \notin Files
  <2>1. Become(m) /\ attached' = attached
    BY <1>3, <1>6 DEF Show
  <2>2. Message' = m
    BY <1>1, <2>1, BecomeIs
  <2>. QED BY <2>1, <2>2 DEF ChangesOnly, NoTextComes
<1>. QED BY <1>4, <1>5, <1>6

(* The invariant of what a call leaves of the message.                      *)
LEMMA TextsStayFree ==
  ASSUME TextsFree, NoTextComes(Message, Message'), texts' = texts
  PROVE  TextsFree'
BY DEF TextsFree, NoTextComes, Message, Range

LEMMA MessageIsIt == Message.pars = pars /\ Message.parts = parts
BY DEF Message

(* The calls that set or empty a slot.                                      *)
LEMMA ParEraseKeeps ==
  ASSUME AllOrdinary, ComposeInv, NEW q, NEW s \in Slots, ParErase(q, s)
  PROVE  ComposeInv' /\ ChangesOnly(Message, Message', {<<q, s>>})
<1>. DEFINE r == EraseSlot(Message, q, s)
<1>1. Sound(Message, attached) /\ q \in DOMAIN Message.pars
  BY MessageIsIt DEF ComposeInv, ParErase
<1>2. Sound(r, attached) /\ ChangesOnly(Message, r, {<<q, s>>}) /\ NoTextComes(Message, r)
  BY <1>1, EraseSlotIs, EraseSlotChanges
<1>3. Become(r) /\ UNCHANGED <<attached, texts>>
  BY DEF ParErase
<1>. HIDE DEF r
<1>4. Message' = r
  BY <1>2, <1>3, BecomeIs DEF Sound
<1>5. TextsFree'
  BY <1>2, <1>3, <1>4, TextsStayFree DEF ComposeInv
<1>. QED BY <1>2, <1>3, <1>4, <1>5 DEF ComposeInv

(* A slot emptied, then a file shown in it.                                  *)
LEMMA EraseThenShow ==
  ASSUME AllOrdinary, ComposeInv, NEW q \in DOMAIN pars, NEW s \in Slots,
         NEW f \in Paths \cup Shown(EraseSlot(Message, q, s).pars),
         Show(EraseSlot(Message, q, s), q, s, f), texts' = texts
  PROVE  ComposeInv' /\ ChangesOnly(Message, Message', {<<q, s>>})
<1>. DEFINE r == EraseSlot(Message, q, s)
<1>1. Sound(Message, attached) /\ q \in DOMAIN Message.pars
  BY MessageIsIt DEF ComposeInv
<1>2. /\ Sound(r, attached) /\ SetTo(Message.pars, r.pars, q, s, "")
      /\ ChangesOnly(Message, r, {<<q, s>>}) /\ NoTextComes(Message, r)
  BY <1>1, EraseSlotIs, EraseSlotChanges
<1>. HIDE DEF r
<1>3. q \in DOMAIN r.pars /\ r.pars[q][s] = "" /\ f \in Paths \cup Shown(r.pars) /\ Show(r, q, s, f)
  BY <1>1, <1>2 DEF SetTo, r
<1>4. /\ Sound(Message', attached') /\ ChangesOnly(r, Message', {<<q, s>>})
      /\ NoTextComes(r, Message')
  BY <1>2, <1>3, ShowIs
<1>5. ChangesOnly(Message, Message', {<<q, s>>})
  BY <1>2, <1>4, ChangesTransitive
<1>6. NoTextComes(Message, Message')
  BY <1>2, <1>4 DEF NoTextComes
<1>7. TextsFree'
  BY <1>6, TextsStayFree DEF ComposeInv
<1>. QED BY <1>4, <1>5, <1>7 DEF ComposeInv

LEMMA GeneratedIs ==
  /\ Len(Generated) \in Nat /\ DOMAIN Generated = 1 .. Len(Generated)
  /\ \A i, j \in DOMAIN Generated : Generated[i] = Generated[j] => i = j
<1>1. Generated \in Seq(Names) /\ \A i, j \in DOMAIN Generated : Generated[i] = Generated[j] => i = j
  BY ComposeAssumption
<1>. QED BY <1>1, SeqIs

LEMMA ParSetKeeps ==
  ASSUME AllOrdinary, ComposeInv, NEW q, NEW s \in Slots, NEW f \in Paths, ParSet(q, s, f)
  PROVE  ComposeInv' /\ ChangesOnly(Message, Message', {<<q, s>>})
<1>1. /\ q \in DOMAIN pars /\ Show(EraseSlot(Message, q, s), q, s, f) /\ texts' = texts
      /\ f \in Paths \cup Shown(EraseSlot(Message, q, s).pars)
  BY DEF ParSet
<1>. QED BY <1>1, EraseThenShow

LEMMA ParSetToShownKeeps ==
  ASSUME AllOrdinary, ComposeInv, NEW q, NEW s \in Slots, ParSetToShown(q, s)
  PROVE  ComposeInv' /\ ChangesOnly(Message, Message', {<<q, s>>})
<1>. DEFINE r == EraseSlot(Message, q, s)
<1>1. q \in DOMAIN pars /\ texts' = texts
  BY DEF ParSetToShown
<1>2. PICK at \in (DOMAIN pars) \X Slots : Show(r, q, s, r.pars[at[1]][at[2]])
  BY DEF ParSetToShown
<1>3. at[1] \in DOMAIN pars /\ at[2] \in Slots
  OBVIOUS
<1>4. DOMAIN r.pars = DOMAIN pars
  <2>1. Sound(Message, attached) /\ q \in DOMAIN Message.pars /\ Message.pars = pars
    BY <1>1, MessageIsIt DEF ComposeInv
  <2>2. SetTo(Message.pars, r.pars, q, s, "")
    BY <2>1, EraseSlotIs
  <2>. HIDE DEF r
  <2>. QED BY <2>1, <2>2 DEF SetTo
<1>. HIDE DEF r
<1>5. r.pars[at[1]][at[2]] \in Shown(r.pars)
  BY <1>3, <1>4 DEF Shown
<1>. DEFINE f == r.pars[at[1]][at[2]]
<1>6. f \in Paths \cup Shown(r.pars) /\ Show(r, q, s, f)
  BY <1>2, <1>5
<1>. HIDE DEF f
<1>. QED BY <1>1, <1>6, EraseThenShow DEF r

(* mms_par_set_text_buffer: the name it makes is of no part, and so are      *)
(* those to come.                                                          *)
LEMMA ParSetTextBufferKeeps ==
  ASSUME AllOrdinary, ComposeInv, NEW q, ParSetTextBuffer(q)
  PROVE  ComposeInv' /\ ChangesOnly(Message, Message', {<<q, "text">>})
<1>. DEFINE m == EraseSlot(Message, q, "text")
            f == Generated[texts + 1]
            r == SetSlot(AddPart(m, f), q, "text", f)
<1>1. /\ q \in DOMAIN pars /\ texts < Len(Generated) /\ texts' = texts + 1
      /\ attached' = attached /\ Become(r)
  BY DEF ParSetTextBuffer
<1>2. /\ Sound(Message, attached) /\ q \in DOMAIN Message.pars /\ "text" \in Slots
      /\ texts \in 0 .. Len(Generated) /\ TextsFree
  BY <1>1, MessageIsIt DEF ComposeInv, Slots
<1>3. /\ Sound(m, attached) /\ SetTo(Message.pars, m.pars, q, "text", "")
      /\ ChangesOnly(Message, m, {<<q, "text">>}) /\ NoTextComes(Message, m)
  BY <1>2, EraseSlotIs, EraseSlotChanges
<1>4. /\ Len(Generated) \in Nat /\ DOMAIN Generated = 1 .. Len(Generated)
      /\ \A i, j \in DOMAIN Generated : Generated[i] = Generated[j] => i = j
  BY GeneratedIs
<1>5. texts + 1 \in DOMAIN Generated /\ texts + 1 > texts
  BY <1>1, <1>2, <1>4
<1>6. f \in Range(Generated) /\ FileName[f] = f /\ f \notin NamesOf(parts)
  <2>1. f \in Range(Generated) /\ f \notin NamesOf(parts)
    BY <1>2, <1>5 DEF TextsFree, Range
  <2>. QED BY <2>1, NamesAre
<1>. HIDE DEF f, m
<1>7. f \in Files \cup Range(Generated) /\ FileName[f] \notin NamesOf(m.parts)
  BY <1>3, <1>6, MessageIsIt DEF NoTextComes
<1>8. q \in DOMAIN m.pars /\ m.pars[q]["text"] = ""
  BY <1>2, <1>3 DEF SetTo
<1>9. Added(m, r, attached, q, "text", FileName[f])
  BY <1>2, <1>3, <1>7, <1>8, AddThenSet
<1>. HIDE DEF r
<1>10. Message' = r /\ Sound(Message', attached')
  BY <1>1, <1>9, BecomeIs DEF Added, Sound
<1>11. ChangesOnly(Message, Message', {<<q, "text">>})
  BY <1>3, <1>9, <1>10, ChangesTransitive DEF Added
<1>12. TextsFree'
  <2>1. NamesOf(parts') = NamesOf(m.parts) \cup {f}
    BY <1>1, <1>6, <1>9 DEF Added, Become
  <2>2. SUFFICES ASSUME NEW k \in DOMAIN Generated, k > texts + 1
                 PROVE  Generated[k] \notin NamesOf(parts')
    BY <1>1 DEF TextsFree
  <2>3. k # texts + 1 /\ k > texts
    BY <1>2, <1>4, <2>2
  <2>4. Generated[k] # f
    BY <1>4, <1>5, <2>3 DEF f
  <2>5. Generated[k] \notin NamesOf(parts) /\ Generated[k] \in Range(Generated)
    BY <1>2, <2>3 DEF TextsFree, Range
  <2>. QED BY <1>3, <2>1, <2>4, <2>5, MessageIsIt DEF NoTextComes
<1>13. texts' \in 0 .. Len(Generated)
  BY <1>1, <1>2, <1>4
<1>. QED BY <1>10, <1>11, <1>12, <1>13 DEF ComposeInv

-----------------------------------------------------------------------------
(* Calls that change the list of pars.                                     *)

(* Pars that show the same names do for the same parts.                     *)
LEMMA ParsReplaced ==
  ASSUME AllOrdinary, NEW m, NEW att, Sound(m, att), NEW slides \in Seq(Par),
         Shown(slides) \subseteq Shown(m.pars) \cup {""},
         Shown(m.pars) \subseteq Shown(slides) \cup {""}
  PROVE  Sound([pars |-> slides, parts |-> m.parts], att)
<1>. DEFINE r == [pars |-> slides, parts |-> m.parts]
<1>1. /\ m \in AllMessages /\ OneName(m.parts)
      /\ Shown(m.pars) \ (Cids \cup {""}) \subseteq NamesOf(m.parts)
      /\ NamesOf(m.parts) \subseteq Shown(m.pars) \cup att /\ att \subseteq NamesOf(m.parts)
      /\ att \cap Shown(m.pars) = {}
  BY DEF Sound, Consistent
<1>2. m.parts \in Seq(PartSet) /\ NamesOf(m.parts) \subseteq Names /\ "" \notin Names
  BY <1>1, NamesTyped, NamesAre
<1>3. r \in AllMessages /\ r.pars = slides /\ r.parts = m.parts
  BY <1>2, MessageIs
<1>. HIDE DEF r
<1>4. Consistent(r, att)
  BY <1>1, <1>2, <1>3 DEF Consistent
<1>. QED BY <1>3, <1>4 DEF Sound, r

LEMMA EmptyParIs == EmptyPar \in Par /\ \A s \in Slots : EmptyPar[s] = ""
BY NamesAre DEF EmptyPar, Par

LEMMA ShownIs ==
  ASSUME NEW slides, NEW T
  PROVE  /\ \A p \in DOMAIN slides, s \in Slots : slides[p][s] \in Shown(slides)
         /\ (\A p \in DOMAIN slides, s \in Slots : slides[p][s] \in T) => Shown(slides) \subseteq T
BY DEF Shown

(* An empty par shows nothing.                                              *)
LEMMA EmptyShowsNothing ==
  ASSUME NEW slides, NEW other, NEW par, \A s \in Slots : par[s] = "",
         Range(other) \subseteq Range(slides) \cup {par}
  PROVE  Shown(other) \subseteq Shown(slides) \cup {""}
<1>1. ASSUME NEW p \in DOMAIN other, NEW s \in Slots
      PROVE  other[p][s] \in Shown(slides) \cup {""}
  <2>1. other[p] \in Range(slides) \/ other[p] = par
    BY DEF Range
  <2>2. ASSUME other[p] \in Range(slides) PROVE other[p][s] \in Shown(slides)
    <3>1. PICK j \in DOMAIN slides : other[p] = slides[j]
      BY <2>2 DEF Range
    <3>. QED BY <3>1, ShownIs
  <2>. QED BY <2>1, <2>2
<1>. QED BY <1>1, ShownIs

LEMMA AddParKeeps ==
  ASSUME AllOrdinary, ComposeInv, AddPar
  PROVE  ComposeInv' /\ Len(pars') # Len(pars)
<1>. DEFINE slides == Append(pars, EmptyPar)
<1>1. pars' = slides /\ UNCHANGED <<parts, texts, attached>>
  BY DEF AddPar
<1>2. Sound(Message, attached) /\ pars \in Seq(Par)
  <2>1. Sound(Message, attached) /\ Message \in AllMessages
    BY DEF ComposeInv, Sound
  <2>. QED BY <2>1, NamesTyped, MessageIsIt
<1>3. slides \in Seq(Par) /\ Len(slides) # Len(pars) /\ Range(slides) = Range(pars) \cup {EmptyPar}
  <2>1. EmptyPar \in Par
    BY EmptyParIs
  <2>. QED BY <1>2, <2>1, AppendedIs
<1>. HIDE DEF slides
<1>4. Shown(slides) \subseteq Shown(pars) \cup {""} /\ Shown(pars) \subseteq Shown(slides) \cup {""}
  <2>1. Range(slides) \subseteq Range(pars) \cup {EmptyPar} /\ Range(pars) \subseteq Range(slides) \cup {EmptyPar}
    BY <1>3
  <2>2. \A s \in Slots : EmptyPar[s] = ""
    BY EmptyParIs
  <2>. QED BY <2>1, <2>2, EmptyShowsNothing
<1>5. Message' = [pars |-> slides, parts |-> Message.parts]
  BY <1>1 DEF Message
<1>6. Sound([pars |-> slides, parts |-> Message.parts], attached)
  BY <1>2, <1>3, <1>4, MessageIsIt, ParsReplaced
<1>7. TextsFree'
  BY <1>1 DEF ComposeInv, TextsFree
<1>. QED BY <1>1, <1>3, <1>5, <1>6, <1>7 DEF ComposeInv

(* A par taken that showed nothing.                                         *)
ParTaken(slides, rest) ==
  /\ rest \in Seq(Par) /\ Len(rest) # Len(slides)
  /\ Shown(rest) \subseteq Shown(slides) \cup {""}
  /\ Shown(slides) \subseteq Shown(rest) \cup {""}

LEMMA RemoveParIs ==
  ASSUME NEW slides \in Seq(Par), NEW q \in DOMAIN slides, \A s \in Slots : slides[q][s] = ""
  PROVE  ParTaken(slides, RemoveAt(slides, q))
<1>. DEFINE rest == RemoveAt(slides, q)
<1>1. q \in 1 .. Len(slides)
  BY SeqIs
<1>2. /\ rest \in Seq(Par) /\ Len(rest) # Len(slides)
      /\ Range(rest) \subseteq Range(slides) /\ Range(slides) \subseteq Range(rest) \cup {slides[q]}
  BY <1>1, RemoveAtKeeps
<1>3. Range(rest) \subseteq Range(slides) \cup {slides[q]}
  BY <1>2
<1>. QED BY <1>2, <1>3, EmptyShowsNothing DEF ParTaken, rest

(* mms_erase_par empties the slots of the par one after the other.           *)
LEMMA EraseParKeeps ==
  ASSUME AllOrdinary, ComposeInv, NEW q, ErasePar(q)
  PROVE  ComposeInv' /\ (Len(pars') = Len(pars) => ChangesOnly(Message, Message', {}))
<1>. DEFINE one   == EraseSlot(Message, q, "text")
            two   == EraseSlot(one, q, "image")
            three == EraseSlot(two, q, "audio")
            rest  == RemoveAt(three.pars, q)
            r     == [three EXCEPT !.pars = rest]
<1>1. CASE q \in DOMAIN pars
  <2>1. Become(r) /\ UNCHANGED <<attached, texts>>
    BY <1>1 DEF ErasePar
  <2>2. /\ Sound(Message, attached) /\ q \in DOMAIN Message.pars /\ TextsFree
        /\ "text" \in Slots /\ "image" \in Slots /\ "audio" \in Slots
    BY <1>1, MessageIsIt DEF ComposeInv, Slots
  <2>3. /\ Sound(one, attached) /\ SetTo(Message.pars, one.pars, q, "text", "")
        /\ NoTextComes(Message, one)
    BY <2>2, EraseSlotIs, EraseSlotChanges
  <2>. HIDE DEF one
  <2>4. q \in DOMAIN one.pars /\ one.pars[q]["text"] = ""
    BY <2>2, <2>3 DEF SetTo
  <2>5. /\ Sound(two, attached) /\ SetTo(one.pars, two.pars, q, "image", "")
        /\ NoTextComes(one, two)
    BY <2>2, <2>3, <2>4, EraseSlotIs, EraseSlotChanges
  <2>. HIDE DEF two
  <2>6. q \in DOMAIN two.pars /\ two.pars[q]["text"] = "" /\ two.pars[q]["image"] = ""
    BY <2>2, <2>4, <2>5 DEF SetTo
  <2>7. /\ Sound(three, attached) /\ SetTo(two.pars, three.pars, q, "audio", "")
        /\ NoTextComes(two, three)
    BY <2>2, <2>5, <2>6, EraseSlotIs, EraseSlotChanges
  <2>. HIDE DEF three
  <2>8. /\ q \in DOMAIN three.pars /\ three.pars[q]["text"] = ""
        /\ three.pars[q]["image"] = "" /\ three.pars[q]["audio"] = ""
    BY <2>2, <2>6, <2>7 DEF SetTo
  <2>9. /\ three \in AllMessages /\ three.pars \in Seq(Par)
        /\ \A s \in Slots : three.pars[q][s] = ""
    BY <2>7, <2>8, NamesTyped DEF Sound, Slots
  <2>10. /\ rest \in Seq(Par) /\ Len(rest) # Len(three.pars)
         /\ Shown(rest) \subseteq Shown(three.pars) \cup {""}
         /\ Shown(three.pars) \subseteq Shown(rest) \cup {""}
    <3>1. ParTaken(three.pars, rest)
      BY <2>8, <2>9, RemoveParIs
    <3>. QED BY <3>1 DEF ParTaken
  <2>11. Sound([pars |-> rest, parts |-> three.parts], attached)
    BY <2>7, <2>10, ParsReplaced
  <2>. HIDE DEF rest
  <2>12. r = [pars |-> rest, parts |-> three.parts]
    <3>1. three = [pars |-> three.pars, parts |-> three.parts]
      BY <2>9 DEF AllMessages
    <3>. QED BY <3>1
  <2>. HIDE DEF r
  <2>13. Message' = r /\ Sound(Message', attached')
    BY <2>1, <2>11, <2>12, BecomeIs DEF Sound
  <2>14. NoTextComes(Message, Message')
    <3>1. r.parts = three.parts
      BY <2>12
    <3>. QED BY <2>3, <2>5, <2>7, <2>13, <3>1 DEF NoTextComes
  <2>15. TextsFree'
    BY <2>1, <2>2, <2>14, TextsStayFree
  <2>16. Len(pars') # Len(pars)
    BY <2>1, <2>3, <2>5, <2>7, <2>10, <2>12, MessageIsIt DEF SetTo, Become
  <2>. QED BY <2>1, <2>13, <2>15, <2>16 DEF ComposeInv
<1>2. CASE q \notin DOMAIN pars
  <2>1. UNCHANGED <<pars, parts, texts, attached>>
    BY <1>2 DEF ErasePar
  <2>. QED BY <2>1 DEF ComposeInv, Message, TextsFree, ChangesOnly
<1>. QED BY <1>1, <1>2

LEMMA StaysAsItIs ==
  ASSUME ComposeInv, UNCHANGED <<pars, parts, texts, attached>>
  PROVE  ComposeInv' /\ ChangesOnly(Message, Message', {})
BY DEF ComposeInv, Message, TextsFree, ChangesOnly

-----------------------------------------------------------------------------
(* Attachments.                                                            *)

LEMMA AddAttachmentKeeps ==
  ASSUME AllOrdinary, ComposeInv, NEW f \in Paths, AddAttachment(f)
  PROVE  ComposeInv' /\ ChangesOnly(Message, Message', {})
<1>1. CASE Shows(pars, f) \/ Find(parts, f) # 0 \/ f \notin Files
  BY <1>1, StaysAsItIs DEF AddAttachment
<1>2. CASE ~ (Shows(pars, f) \/ Find(parts, f) # 0 \/ f \notin Files)
  <2>. DEFINE r == AddPart(Message, f)
  <2>1. Become(r) /\ attached' = attached \cup {FileName[f]} /\ texts' = texts
    BY <1>2 DEF AddAttachment
  <2>2. Sound(Message, attached) /\ TextsFree
    BY DEF ComposeInv
  <2>3. f \in Files \cup Range(Generated) /\ FileName[f] \notin NamesOf(Message.parts)
    <3>1. f \in DOMAIN FileName /\ parts \in Seq(PartSet)
      BY <2>2, NamesTyped, NamesAre, MessageIsIt DEF Sound
    <3>. QED BY <1>2, <3>1, FindIs, MessageIsIt
  <2>4. /\ Sound(r, attached \cup {FileName[f]})
        /\ NamesOf(r.parts) = NamesOf(Message.parts) \cup {FileName[f]}
        /\ ChangesOnly(Message, r, {})
    BY <2>2, <2>3, AddPartIs
  <2>. HIDE DEF r
  <2>5. Message' = r
    BY <2>1, <2>4, BecomeIs DEF Sound
  <2>6. FileName[f] \notin Range(Generated)
    BY ComposeAssumption
  <2>7. NoTextComes(Message, Message')
    BY <2>4, <2>5, <2>6 DEF NoTextComes
  <2>8. TextsFree'
    BY <2>1, <2>2, <2>7, TextsStayFree
  <2>. QED BY <2>1, <2>4, <2>5, <2>8 DEF ComposeInv
<1>. QED BY <1>1, <1>2

(* mms_erase_attachment takes a part that no par shows.                     *)
LEMMA WithoutAttachmentIs ==
  ASSUME AllOrdinary, NEW m, NEW att, Sound(m, att), NEW f \in DOMAIN FileName
  PROVE  /\ Sound(WithoutAttachment(m, f), att \ {FileName[f]})
         /\ WithoutAttachment(m, f).pars = m.pars
         /\ Range(WithoutAttachment(m, f).parts) =
              {part \in Range(m.parts) : part.name # FileName[f] \/ part.name \in Shown(m.pars)}
<1>. DEFINE v == FileName[f]
            r == WithoutAttachment(m, f)
            list == EraseBodyPart(m.parts, f)
<1>1. /\ m \in AllMessages /\ OneName(m.parts)
      /\ Shown(m.pars) \ (Cids \cup {""}) \subseteq NamesOf(m.parts)
      /\ NamesOf(m.parts) \subseteq Shown(m.pars) \cup att /\ att \subseteq NamesOf(m.parts)
      /\ att \cap Shown(m.pars) = {}
  BY DEF Sound, Consistent
<1>2. m.parts \in Seq(PartSet) /\ m.pars \in Seq(Par)
  BY <1>1, NamesTyped
<1>3. Shows(m.pars, f) <=> v \in Shown(m.pars)
  BY ShowsIs
<1>4. CASE v \in Shown(m.pars)
  <2>1. r = m /\ att \ {v} = att
    BY <1>1, <1>3, <1>4 DEF WithoutAttachment
  <2>2. \A part \in Range(m.parts) : part.name # v \/ part.name \in Shown(m.pars)
    BY <1>4
  <2>. HIDE DEF r, v
  <2>. QED BY <2>1, <2>2 DEF r, v
<1>5. CASE v \notin Shown(m.pars)
  <2>1. /\ list \in Seq(PartSet) /\ OneName(list)
        /\ Range(list) = {part \in Range(m.parts) : part.name # v}
    BY <1>1, <1>2, EraseIs
  <2>2. r.pars = m.pars /\ r.parts = list /\ r = [pars |-> m.pars, parts |-> list]
    <3>1. m = [pars |-> m.pars, parts |-> m.parts]
      BY <1>1 DEF AllMessages
    <3>2. r = [m EXCEPT !.parts = list]
      BY <1>3, <1>5 DEF WithoutAttachment
    <3>. HIDE DEF list, r
    <3>. QED BY <3>1, <3>2
  <2>. HIDE DEF list, r, v
  <2>3. NamesOf(list) = NamesOf(m.parts) \ {v}
    BY <2>1 DEF NamesOf
  <2>4. r \in AllMessages
    BY <1>2, <2>1, <2>2, MessageIs
  <2>5. Consistent(r, att \ {v})
    <3>1. OneName(r.parts) /\ NamesOf(r.parts) = NamesOf(m.parts) \ {v} /\ Shown(r.pars) = Shown(m.pars)
      BY <2>1, <2>2, <2>3
    <3>2. Shown(r.pars) \ (Cids \cup {""}) \subseteq NamesOf(r.parts)
      BY <1>1, <1>5, <3>1
    <3>3. NamesOf(r.parts) \subseteq Shown(r.pars) \cup (att \ {v})
      BY <1>1, <3>1
    <3>4. att \ {v} \subseteq NamesOf(r.parts) /\ (att \ {v}) \cap Shown(r.pars) = {}
      BY <1>1, <3>1
    <3>. QED BY <3>1, <3>2, <3>3, <3>4 DEF Consistent
  <2>6. Range(r.parts) = {part \in Range(m.parts) : part.name # v \/ part.name \in Shown(m.pars)}
    BY <1>5, <2>1, <2>2
  <2>. QED BY <2>2, <2>4, <2>5, <2>6 DEF Sound, r, v
<1>. QED BY <1>4, <1>5

LEMMA PartsTakenChange ==
  ASSUME NEW m, NEW r, r.pars = m.pars, Range(r.parts) \subseteq Range(m.parts),
         \A part \in Range(m.parts) : part.name \in Shown(m.pars) => part \in Range(r.parts)
  PROVE  ChangesOnly(m, r, {}) /\ NoTextComes(m, r)
<1>1. ASSUME NEW p \in DOMAIN m.pars, NEW s \in Slots
      PROVE  Behind(r.parts, m.pars[p][s]) = Behind(m.parts, m.pars[p][s])
  <2>1. m.pars[p][s] \in Shown(m.pars)
    BY ShownIs
  <2>. QED BY <2>1 DEF Behind
<1>. QED BY <1>1 DEF ChangesOnly, NoTextComes, NamesOf

LEMMA EraseAttachmentKeeps ==
  ASSUME AllOrdinary, ComposeInv, NEW f \in Paths, EraseAttachment(f)
  PROVE  ComposeInv' /\ ChangesOnly(Message, Message', {})
<1>. DEFINE r == WithoutAttachment(Message, f)
<1>1. Become(r) /\ attached' = attached \ {FileName[f]} /\ texts' = texts
  BY DEF EraseAttachment
<1>2. Sound(Message, attached) /\ TextsFree /\ f \in DOMAIN FileName
  BY NamesAre DEF ComposeInv
<1>3. /\ Sound(r, attached \ {FileName[f]}) /\ r.pars = Message.pars
      /\ Range(r.parts) = {part \in Range(Message.parts) :
                             part.name # FileName[f] \/ part.name \in Shown(Message.pars)}
  BY <1>2, WithoutAttachmentIs
<1>. HIDE DEF r
<1>4. Message' = r
  BY <1>1, <1>3, BecomeIs DEF Sound
<1>5. ChangesOnly(Message, Message', {}) /\ NoTextComes(Message, Message')
  BY <1>3, <1>4, PartsTakenChange
<1>6. TextsFree'
  BY <1>1, <1>2, <1>5, TextsStayFree
<1>. QED BY <1>1, <1>3, <1>4, <1>5, <1>6 DEF ComposeInv

-----------------------------------------------------------------------------
(* mms_erase_all_attachments.                                              *)

(* One turn of its loop, and what its loop has made of m, turn by turn.      *)
Turn(m, x, i) ==
  IF m.parts[i].name \in Attachments(m) THEN WithoutAttachment(x, m.parts[i].name) ELSE x

IsLoop(m, g, k) == g = [i \in 0 .. k |-> IF i = 0 THEN m ELSE Turn(m, g[i - 1], i)]

LEMMA LoopExists ==
  ASSUME NEW m, NEW n \in Nat
  PROVE  \E g : IsLoop(m, g, n)
<1>. DEFINE T == {k \in Nat : ~ \E g : IsLoop(m, g, k)}
<1>1. SUFFICES ASSUME T # {} PROVE FALSE
  OBVIOUS
<1>2. PICK k \in T : \A j \in T : k <= j
  <2>1. T \subseteq Nat
    OBVIOUS
  <2>. HIDE DEF T
  <2>. QED BY <1>1, <2>1, LeastOf
<1>3. k \in Nat /\ ~ \E g : IsLoop(m, g, k)
  OBVIOUS
<1>4. CASE k = 0
  <2>. DEFINE g == [i \in 0 .. 0 |-> m]
  <2>1. IsLoop(m, g, 0)
    BY DEF IsLoop
  <2>. QED BY <1>3, <1>4, <2>1
<1>5. CASE k # 0
  <2>1. k - 1 \in Nat /\ ~ (k <= k - 1)
    BY <1>3, <1>5
  <2>2. k - 1 \notin T
    BY <1>2, <2>1
  <2>3. PICK g : IsLoop(m, g, k - 1)
    BY <2>1, <2>2
  <2>. DEFINE h == [i \in 0 .. k |-> IF i = k THEN Turn(m, g[k - 1], k) ELSE g[i]]
              d == [i \in 0 .. k |-> IF i = 0 THEN m ELSE Turn(m, h[i - 1], i)]
  <2>4. ASSUME NEW i \in 0 .. k PROVE h[i] = d[i]
    <3>1. CASE i = 0
      BY <1>3, <1>5, <2>1, <2>3, <3>1 DEF IsLoop
    <3>2. CASE i # 0 /\ i # k
      <4>1. i \in 0 .. k - 1 /\ i - 1 \in 0 .. k - 1 /\ i - 1 \in 0 .. k /\ i - 1 # k
        BY <1>3, <3>2
      <4>2. g[i] = Turn(m, g[i - 1], i)
        BY <3>2, <4>1, <2>3 DEF IsLoop
      <4>3. h[i] = g[i] /\ h[i - 1] = g[i - 1]
        BY <3>2, <4>1
      <4>. QED BY <3>2, <4>2, <4>3
    <3>3. CASE i # 0 /\ i = k
      <4>1. k - 1 \in 0 .. k /\ k - 1 # k
        BY <1>3, <1>5
      <4>2. h[k - 1] = g[k - 1] /\ h[k] = Turn(m, g[k - 1], k)
        BY <3>3, <4>1
      <4>. QED BY <3>3, <4>2
    <3>. QED BY <3>1, <3>2, <3>3
  <2>5. h = d
    BY <2>4
  <2>6. IsLoop(m, h, k)
    BY <2>5 DEF IsLoop
  <2>. QED BY <1>3, <2>6
<1>. QED BY <1>4, <1>5

LEMMA WithoutAttachmentsIs ==
  ASSUME NEW m, Len(m.parts) \in Nat
  PROVE  \E g : IsLoop(m, g, Len(m.parts)) /\ WithoutAttachments(m) = g[Len(m.parts)]
<1>. DEFINE n == Len(m.parts)
            loop == CHOOSE g : g = [i \in 0 .. n |-> IF i = 0 THEN m
                                      ELSE IF m.parts[i].name \in Attachments(m)
                                        THEN WithoutAttachment(g[i - 1], m.parts[i].name)
                                      ELSE g[i - 1]]
<1>1. WithoutAttachments(m) = loop[n]
  BY DEF WithoutAttachments
<1>2. \E g : g = [i \in 0 .. n |-> IF i = 0 THEN m
                                      ELSE IF m.parts[i].name \in Attachments(m)
                                        THEN WithoutAttachment(g[i - 1], m.parts[i].name)
                                      ELSE g[i - 1]]
  <2>1. PICK h : IsLoop(m, h, n)
    BY LoopExists
  <2>. QED BY <2>1 DEF IsLoop, Turn
<1>3. IsLoop(m, loop, n)
  BY <1>2 DEF IsLoop, Turn
<1>. QED BY <1>1, <1>3

(* After turn i there are gone, of the parts no par shows, those up to i.    *)
ErasedUpTo(m, x, i) ==
  /\ x.pars = m.pars
  /\ \E att : Sound(x, att)
  /\ Range(x.parts) =
       {part \in Range(m.parts) : \/ part.name \in Shown(m.pars)
                                  \/ \A j \in 1 .. i : part.name # m.parts[j].name}

LEMMA TurnErases ==
  ASSUME AllOrdinary, NEW m, m \in AllMessages, NEW i \in 1 .. Len(m.parts), NEW x,
         ErasedUpTo(m, x, i - 1)
  PROVE  ErasedUpTo(m, Turn(m, x, i), i)
<1>. DEFINE v == m.parts[i].name
            r == Turn(m, x, i)
<1>1. /\ m.parts \in Seq(PartSet) /\ Len(m.parts) \in Nat /\ m.parts[i] \in Range(m.parts)
  <2>1. m.parts \in Seq(PartSet)
    BY NamesTyped
  <2>2. DOMAIN m.parts = 1 .. Len(m.parts) /\ Len(m.parts) \in Nat
    BY <2>1, SeqIs
  <2>. QED BY <2>1, <2>2 DEF Range
<1>2. v \in NamesOf(m.parts) /\ v \in Plain
  BY <1>1, NamesTyped DEF NamesOf
<1>3. FileName[v] = v /\ v \in DOMAIN FileName
  BY <1>2, NamesAre
<1>4. v \in Attachments(m) <=> v \notin Shown(m.pars)
  BY <1>2, <1>3, ShowsIs DEF Attachments, NamesOf
<1>5. \A part : (\A j \in 1 .. i : part.name # m.parts[j].name)
                  <=> part.name # v /\ \A j \in 1 .. i - 1 : part.name # m.parts[j].name
  <2>1. \A j : j \in 1 .. i <=> j = i \/ j \in 1 .. i - 1
    BY <1>1
  <2>. HIDE DEF v
  <2>. QED BY <2>1 DEF v
<1>6. PICK att : Sound(x, att)
  BY DEF ErasedUpTo
<1>7. CASE v \in Shown(m.pars)
  <2>1. r = x
    BY <1>4, <1>7 DEF Turn
  <2>2. Range(x.parts) = {part \in Range(m.parts) : \/ part.name \in Shown(m.pars)
                                                    \/ \A j \in 1 .. i : part.name # m.parts[j].name}
    <3>. DEFINE Left(part) == \A j \in 1 .. i - 1 : part.name # m.parts[j].name
                Still(part) == \A j \in 1 .. i : part.name # m.parts[j].name
    <3>1. Range(x.parts) = {part \in Range(m.parts) : part.name \in Shown(m.pars) \/ Left(part)}
      BY DEF ErasedUpTo
    <3>2. \A part : part.name \in Shown(m.pars) \/ Left(part) <=> part.name \in Shown(m.pars) \/ Still(part)
      BY <1>5, <1>7
    <3>. HIDE DEF Left, Still
    <3>3. Range(x.parts) = {part \in Range(m.parts) : part.name \in Shown(m.pars) \/ Still(part)}
      BY <3>1, <3>2
    <3>. QED BY <3>3 DEF Still
  <2>3. x.pars = m.pars
    BY DEF ErasedUpTo
  <2>. HIDE DEF r
  <2>. QED BY <1>6, <2>1, <2>2, <2>3 DEF ErasedUpTo, r
<1>8. CASE v \notin Shown(m.pars)
  <2>1. r = WithoutAttachment(x, v)
    BY <1>4, <1>8 DEF Turn
  <2>2. /\ Sound(r, att \ {v}) /\ r.pars = x.pars
        /\ Range(r.parts) = {part \in Range(x.parts) : part.name # v \/ part.name \in Shown(x.pars)}
    <3>. HIDE DEF v, r
    <3> DEFINE w == WithoutAttachment(x, v)
    <3>1. /\ Sound(w, att \ {FileName[v]}) /\ w.pars = x.pars
          /\ Range(w.parts) = {part \in Range(x.parts) : part.name # FileName[v] \/ part.name \in Shown(x.pars)}
      BY <1>3, <1>6, WithoutAttachmentIs
    <3>. HIDE DEF w
    <3>. QED BY <1>3, <2>1, <3>1 DEF w
  <2>3. x.pars = m.pars
    BY DEF ErasedUpTo
  <2>4. Range(r.parts) = {part \in Range(m.parts) : \/ part.name \in Shown(m.pars)
                                                    \/ \A j \in 1 .. i : part.name # m.parts[j].name}
    BY <1>5, <1>8, <2>2, <2>3 DEF ErasedUpTo
  <2>. QED BY <2>2, <2>3, <2>4 DEF ErasedUpTo
<1>. QED BY <1>7, <1>8

LEMMA LoopErases ==
  ASSUME AllOrdinary, NEW m, NEW att, Sound(m, att), NEW g, IsLoop(m, g, Len(m.parts))
  PROVE  \A i \in 0 .. Len(m.parts) : ErasedUpTo(m, g[i], i)
<1>. DEFINE T == {i \in 0 .. Len(m.parts) : ~ ErasedUpTo(m, g[i], i)}
<1>1. SUFFICES ASSUME T # {} PROVE FALSE
  OBVIOUS
<1>2. m \in AllMessages /\ Len(m.parts) \in Nat
  <2>1. m \in AllMessages /\ m.parts \in Seq(PartSet)
    BY NamesTyped DEF Sound
  <2>. QED BY <2>1, SeqIs
<1>3. PICK i \in T : \A j \in T : i <= j
  <2>1. T \subseteq Nat
    OBVIOUS
  <2>. HIDE DEF T
  <2>. QED BY <1>1, <2>1, LeastOf
<1>4. i \in 0 .. Len(m.parts) /\ ~ ErasedUpTo(m, g[i], i)
  OBVIOUS
<1>5. CASE i = 0
  <2>1. g[0] = m
    BY <1>2 DEF IsLoop
  <2>2. Range(m.parts) = {part \in Range(m.parts) : \/ part.name \in Shown(m.pars)
                                                    \/ \A j \in 1 .. 0 : part.name # m.parts[j].name}
    OBVIOUS
  <2>3. ErasedUpTo(m, m, 0)
    BY <2>2 DEF ErasedUpTo
  <2>. QED BY <1>4, <1>5, <2>1, <2>3
<1>6. CASE i # 0
  <2>1. i - 1 \in 0 .. Len(m.parts) /\ ~ (i <= i - 1) /\ i \in 1 .. Len(m.parts)
    BY <1>2, <1>4, <1>6
  <2>2. ErasedUpTo(m, g[i - 1], i - 1)
    BY <1>3, <2>1
  <2>3. g[i] = Turn(m, g[i - 1], i)
    BY <1>4, <1>6 DEF IsLoop
  <2>. QED BY <1>2, <1>4, <2>1, <2>2, <2>3, TurnErases
<1>. QED BY <1>5, <1>6

(* What is left is what a par shows.                                        *)
LEMMA EraseAllIs ==
  ASSUME AllOrdinary, NEW m, NEW att, Sound(m, att)
  PROVE  /\ Sound(WithoutAttachments(m), {})
         /\ WithoutAttachments(m).pars = m.pars
         /\ Range(WithoutAttachments(m).parts) = {part \in Range(m.parts) : part.name \in Shown(m.pars)}
<1>. DEFINE n == Len(m.parts)
            r == WithoutAttachments(m)
<1>1. m \in AllMessages /\ n \in Nat /\ DOMAIN m.parts = 1 .. n
  <2>1. m \in AllMessages /\ m.parts \in Seq(PartSet)
    BY NamesTyped DEF Sound
  <2>. QED BY <2>1, SeqIs
<1>2. PICK g : IsLoop(m, g, n) /\ r = g[n]
  BY <1>1, WithoutAttachmentsIs
<1>3. ErasedUpTo(m, r, n)
  <2>1. n \in 0 .. n
    BY <1>1
  <2>. QED BY <1>2, <2>1, LoopErases
<1>. HIDE DEF r
<1>4. \A part \in Range(m.parts) : \E j \in 1 .. n : part.name = m.parts[j].name
  BY <1>1 DEF Range
<1>5. Range(r.parts) = {part \in Range(m.parts) : part.name \in Shown(m.pars)} /\ r.pars = m.pars
  BY <1>3, <1>4 DEF ErasedUpTo
<1>6. PICK any : Sound(r, any)
  BY <1>3 DEF ErasedUpTo
<1>7. NamesOf(r.parts) \subseteq Shown(r.pars)
  BY <1>5 DEF NamesOf
<1>8. Sound(r, {})
  BY <1>6, <1>7 DEF Sound, Consistent
<1>. QED BY <1>5, <1>8 DEF r

LEMMA EraseAllKeeps ==
  ASSUME AllOrdinary, ComposeInv, EraseAllAttachments
  PROVE  ComposeInv' /\ ChangesOnly(Message, Message', {})
<1>1. CASE \A i \in DOMAIN parts : Named(parts[i])
  <2>. DEFINE r == WithoutAttachments(Message)
  <2>1. Become(r) /\ attached' = {} /\ texts' = texts
    BY <1>1 DEF EraseAllAttachments
  <2>2. Sound(Message, attached) /\ TextsFree
    BY DEF ComposeInv
  <2>3. /\ Sound(r, {}) /\ r.pars = Message.pars
        /\ Range(r.parts) = {part \in Range(Message.parts) : part.name \in Shown(Message.pars)}
    BY <2>2, EraseAllIs
  <2>. HIDE DEF r
  <2>4. Message' = r
    BY <2>1, <2>3, BecomeIs DEF Sound
  <2>5. ChangesOnly(Message, Message', {}) /\ NoTextComes(Message, Message')
    BY <2>3, <2>4, PartsTakenChange
  <2>6. TextsFree'
    BY <2>1, <2>2, <2>5, TextsStayFree
  <2>. QED BY <2>1, <2>3, <2>4, <2>5, <2>6 DEF ComposeInv
<1>2. CASE ~ \A i \in DOMAIN parts : Named(parts[i])
  BY <1>2, StaysAsItIs DEF EraseAllAttachments
<1>. QED BY <1>1, <1>2

-----------------------------------------------------------------------------
(* A message received.                                                     *)

LEMMA GreatestOf ==
  ASSUME NEW n \in Nat, NEW T, T \subseteq 1 .. n, T # {}
  PROVE  \E x \in T : \A y \in T : y <= x
<1>. DEFINE D == {n - x : x \in T}
<1>1. D \subseteq Nat /\ D # {}
  <2>1. \A x \in T : x \in 1 .. n /\ n - x \in Nat
    OBVIOUS
  <2>. QED BY <2>1
<1>2. \E d \in D : \A e \in D : d <= e
  <2>. HIDE DEF D
  <2>. QED BY <1>1, LeastOf
<1>3. PICK x \in T : \A e \in D : n - x <= e
  BY <1>2
<1>4. ASSUME NEW y \in T PROVE y <= x
  <2>1. n - x <= n - y /\ x \in Nat /\ y \in Nat
    BY <1>3
  <2>. QED BY <2>1
<1>. QED BY <1>4

(* What a slot of it shows: a part, a cid of no part, or nothing.            *)
LEMMA ReceivedShows ==
  ASSUME AllOrdinary, NEW doc \in Documents, NEW p \in DOMAIN doc.pars, NEW s \in Slots
  PROVE  Received(doc)[p][s] \in NamesOf(doc.parts) \cup Cids \cup {""}
<1>. DEFINE src == doc.pars[p][s]
            named == {i \in DOMAIN doc.parts : doc.parts[i].cid = src.id}
            v == Received(doc)[p][s]
            last == CHOOSE i \in named : \A j \in named : j <= i
<1>1. v = IF src.kind = "cid" /\ named # {} THEN doc.parts[last].name ELSE SrcRead(src, s)
  BY DEF Received
<1>2. \/ src.kind = "none" /\ src.id = ""
      \/ src.kind = "cid" /\ src.id \in Cids
      \/ src.kind = "file" /\ \E i \in DOMAIN doc.parts : doc.parts[i].name = src.id
  <2>1. Ordinary(doc)
    BY DEF AllOrdinary
  <2>2. \A q \in DOMAIN doc.pars : \A t \in Slots :
          \/ doc.pars[q][t].kind = "none" /\ doc.pars[q][t].id = ""
          \/ doc.pars[q][t].kind = "cid" /\ doc.pars[q][t].id \in Cids
          \/ /\ doc.pars[q][t].kind = "file"
             /\ \E i \in DOMAIN doc.parts : doc.parts[i].name = doc.pars[q][t].id
    BY <2>1 DEF Ordinary
  <2>. QED BY <2>2
<1>3. DOMAIN doc.parts = 1 .. Len(doc.parts) /\ Len(doc.parts) \in Nat
  <2>1. doc.parts \in Seq(Range(doc.parts))
    BY ComposeAssumption
  <2>. QED BY <2>1, SeqIs
<1>4. CASE src.kind = "cid" /\ named # {}
  <2>1. named \subseteq 1 .. Len(doc.parts)
    BY <1>3
  <2>. HIDE DEF named, src
  <2>2. \E i \in named : \A j \in named : j <= i
    BY <1>3, <1>4, <2>1, GreatestOf
  <2>3. last \in named
    BY <2>2
  <2>. HIDE DEF last
  <2>4. last \in DOMAIN doc.parts
    BY <1>3, <2>1, <2>3
  <2>5. v = doc.parts[last].name
    BY <1>1, <1>4
  <2>. QED BY <2>4, <2>5 DEF NamesOf, Range
<1>5. CASE ~ (src.kind = "cid" /\ named # {})
  <2>1. v = SrcRead(src, s)
    BY <1>1, <1>5
  <2>2. v = "" \/ v = src.id
    BY <2>1 DEF SrcRead
  <2>3. src.id \in NamesOf(doc.parts) \cup Cids \cup {""}
    BY <1>2 DEF NamesOf, Range
  <2>. QED BY <2>2, <2>3
<1>. QED BY <1>4, <1>5

LEMMA ReceivedIs ==
  ASSUME AllOrdinary, NEW doc \in Documents
  PROVE  /\ Received(doc) \in Seq(Par) /\ doc.parts \in Seq(PartSet)
         /\ OneName(doc.parts)
         /\ NamesOf(doc.parts) \cap Range(Generated) = {}
         /\ Shown(Received(doc)) \subseteq NamesOf(doc.parts) \cup Cids \cup {""}
<1>1. /\ doc.parts \in Seq(Range(doc.parts)) /\ doc.pars \in Seq(Range(doc.pars))
  BY ComposeAssumption
<1>2. doc.parts \in Seq(PartSet)
  <2>1. Range(doc.parts) \subseteq PartSet
    BY DEF PartSet
  <2>. QED BY <1>1, <2>1
<1>3. OneName(doc.parts)
  BY DEF AllOrdinary, Ordinary, OneName
<1>4. NamesOf(doc.parts) \cap Range(Generated) = {}
  <2>1. \A i \in DOMAIN doc.parts : doc.parts[i].name \notin Range(Generated)
    BY DEF AllOrdinary, Ordinary
  <2>. QED BY <2>1 DEF NamesOf, Range
<1>5. NamesOf(doc.parts) \subseteq Plain
  <2>1. \A part \in Range(doc.parts) : part.name \in Plain
    <3>1. Range(doc.parts) \subseteq PartSet
      BY DEF PartSet
    <3>. QED BY <3>1, PartIs
  <2>. QED BY <2>1 DEF NamesOf
<1>6. \A p \in DOMAIN doc.pars, s \in Slots : Received(doc)[p][s] \in Plain
  <2>1. Cids \subseteq Plain /\ "" \in Plain
    BY NamesAre
  <2>. QED BY <1>5, <2>1, ReceivedShows
<1>7. Received(doc) \in Seq(Par)
  <2>1. DOMAIN doc.pars = 1 .. Len(doc.pars) /\ Len(doc.pars) \in Nat
    BY <1>1, SeqIs
  <2>2. \A p \in DOMAIN doc.pars : Received(doc)[p] \in Par
    <3>. SUFFICES ASSUME NEW p \in DOMAIN doc.pars PROVE Received(doc)[p] \in Par
      OBVIOUS
    <3>1. \A s \in Slots : Received(doc)[p][s] \in Plain
      BY <1>6
    <3>. DEFINE X(s) ==
           LET src   == doc.pars[p][s]
               named == {i \in DOMAIN doc.parts : doc.parts[i].cid = src.id}
           IN  IF src.kind = "cid" /\ named # {}
                 THEN doc.parts[CHOOSE i \in named : \A j \in named : j <= i].name
               ELSE SrcRead(src, s)
    <3>2. Received(doc)[p] = [s \in Slots |-> X(s)]
      BY DEF Received
    <3>. HIDE DEF X
    <3>3. \A s \in Slots : X(s) \in Plain
      BY <3>1, <3>2
    <3>. QED BY <3>2, <3>3 DEF Par
  <2>3. Received(doc) = [p \in 1 .. Len(doc.pars) |-> Received(doc)[p]]
    BY <2>1 DEF Received
  <2>. DEFINE t == Received(doc)
  <2>. HIDE DEF t
  <2>4. t = [p \in 1 .. Len(doc.pars) |-> t[p]] /\ \A p \in 1 .. Len(doc.pars) : t[p] \in Par
    BY <2>1, <2>2, <2>3 DEF t
  <2>5. t \in [1 .. Len(doc.pars) -> Par]
    BY <2>4
  <2>6. t \in Seq(Par)
    BY <2>1, <2>5, SeqDef
  <2>. QED BY <2>6 DEF t
<1>8. Shown(Received(doc)) \subseteq NamesOf(doc.parts) \cup Cids \cup {""}
  <2>1. DOMAIN Received(doc) = DOMAIN doc.pars
    BY DEF Received
  <2>. QED BY <2>1, ReceivedShows, ShownIs
<1>. QED BY <1>2, <1>3, <1>4, <1>7, <1>8

LEMMA ReceiveKeeps ==
  ASSUME AllOrdinary, ComposeInv, NEW doc \in Documents, Receive(doc)
  PROVE  ComposeInv'
<1>1. CASE UNCHANGED <<pars, parts, attached>>
  BY <1>1, StaysAsItIs DEF Receive
<1>2. CASE ~ UNCHANGED <<pars, parts, attached>>
  <2>. DEFINE r == [pars |-> Received(doc), parts |-> doc.parts]
              left == NamesOf(doc.parts) \ Shown(Received(doc))
  <2>1. /\ pars' = Received(doc) /\ parts' = doc.parts /\ texts' = texts
        /\ attached' = Attachments([pars |-> pars', parts |-> parts'])
    BY <1>2 DEF Receive, Become
  <2>2. /\ Received(doc) \in Seq(Par) /\ doc.parts \in Seq(PartSet)
        /\ OneName(doc.parts)
        /\ NamesOf(doc.parts) \cap Range(Generated) = {}
        /\ Shown(Received(doc)) \subseteq NamesOf(doc.parts) \cup Cids \cup {""}
    BY ReceivedIs
  <2>3. r \in AllMessages /\ Message' = r /\ r.pars = Received(doc) /\ r.parts = doc.parts
    BY <2>1, <2>2, MessageIs DEF Message
  <2>4. NamesOf(r.parts) \subseteq Plain
    BY <2>3, NamesTyped
  <2>5. attached' = left
    <3>1. attached' = {n \in NamesOf(doc.parts) : ~ Shows(Received(doc), n)}
      BY <2>1 DEF Attachments, NamesOf
    <3>2. \A n \in NamesOf(doc.parts) : Shows(Received(doc), n) <=> n \in Shown(Received(doc))
      BY <2>3, <2>4, NamesAre, ShowsIs
    <3>. QED BY <3>1, <3>2
  <2>. HIDE DEF r
  <2>6. Consistent(r, left)
    BY <2>2, <2>3 DEF Consistent
  <2>7. TextsFree'
    BY <2>1, <2>2 DEF TextsFree, Range
  <2>. QED BY <2>1, <2>3, <2>5, <2>6, <2>7 DEF ComposeInv, Sound
<1>. QED BY <1>1, <1>2

(* Nothing, as at first and after mms_destroy.                              *)
LEMMA NothingIsSound ==
  AllOrdinary => Sound([pars |-> <<>>, parts |-> <<>>], {})
<1>. SUFFICES ASSUME AllOrdinary PROVE Sound([pars |-> <<>>, parts |-> <<>>], {})
  OBVIOUS
<1>1. [pars |-> <<>>, parts |-> <<>>] \in AllMessages
  BY DEF AllMessages
<1>2. Shown(<<>>) = {} /\ NamesOf(<<>>) = {} /\ OneName(<<>>)
  BY DEF Shown, NamesOf, OneName, Range
<1>. QED BY <1>1, <1>2 DEF Sound, Consistent

LEMMA DestroyKeeps ==
  ASSUME AllOrdinary, ComposeInv, Destroy
  PROVE  ComposeInv' /\ (Len(pars') = Len(pars) => ChangesOnly(Message, Message', {}))
<1>1. pars' = <<>> /\ parts' = <<>> /\ attached' = {} /\ texts' = texts
  BY DEF Destroy
<1>2. Message' = [pars |-> <<>>, parts |-> <<>>]
  BY <1>1 DEF Message
<1>3. Sound(Message', attached')
  BY <1>1, <1>2, NothingIsSound
<1>4. NamesOf(parts') = {}
  BY <1>1 DEF NamesOf, Range
<1>5. TextsFree'
  BY <1>4 DEF TextsFree
<1>6. ASSUME Len(pars') = Len(pars)
      PROVE  ChangesOnly(Message, Message', {})
  <2>1. pars \in Seq(Par)
    <3>1. Message \in AllMessages
      BY DEF ComposeInv, Sound
    <3>. QED BY <3>1, NamesTyped, MessageIsIt
  <2>2. Len(pars) = 0
    BY <1>1, <1>6
  <2>3. pars = <<>>
    BY <2>1, <2>2
  <2>. QED BY <1>1, <2>3 DEF ChangesOnly, Message
<1>. QED BY <1>1, <1>3, <1>5, <1>6 DEF ComposeInv

-----------------------------------------------------------------------------
(* Every step.                                                             *)

LEMMA StepKeeps ==
  ASSUME AllOrdinary, ComposeInv, [Next]_vars
  PROVE  /\ ComposeInv'
         /\ phase = "live" /\ Len(pars') = Len(pars) =>
              \E at : ChangesOnly(Message, Message', {at})
<1>. DEFINE OneSlot == \E at : ChangesOnly(Message, Message', {at})
<1>0. ChangesOnly(Message, Message', {}) => OneSlot
  BY DEF ChangesOnly
<1>1. CASE Create
  <2>1. UNCHANGED <<pars, parts, texts, attached>>
    BY <1>1 DEF Create
  <2>. QED BY <1>0, <2>1, StaysAsItIs
<1>2. ASSUME NEW doc \in Documents, Receive(doc) PROVE ComposeInv' /\ phase # "live"
  BY <1>2, ReceiveKeeps DEF Receive
<1>3. CASE Destroy
  BY <1>0, <1>3, DestroyKeeps
<1>4. CASE AddPar
  BY <1>4, AddParKeeps
<1>5. ASSUME NEW p \in 1 .. MaxPars, ErasePar(p)
      PROVE  ComposeInv' /\ (Len(pars') = Len(pars) => OneSlot)
  BY <1>0, <1>5, EraseParKeeps
<1>6. ASSUME NEW p \in 1 .. MaxPars, NEW s \in Slots, ParErase(p, s) PROVE ComposeInv' /\ OneSlot
  BY <1>6, ParEraseKeeps
<1>7. ASSUME NEW p \in 1 .. MaxPars, NEW s \in Slots, NEW f \in Paths, ParSet(p, s, f)
      PROVE  ComposeInv' /\ OneSlot
  BY <1>7, ParSetKeeps
<1>8. ASSUME NEW p \in 1 .. MaxPars, NEW s \in Slots, ParSetToShown(p, s) PROVE ComposeInv' /\ OneSlot
  BY <1>8, ParSetToShownKeeps
<1>9. ASSUME NEW p \in 1 .. MaxPars, ParSetTextBuffer(p) PROVE ComposeInv' /\ OneSlot
  BY <1>9, ParSetTextBufferKeeps
<1>10. ASSUME NEW f \in Paths, AddAttachment(f) PROVE ComposeInv' /\ OneSlot
  BY <1>0, <1>10, AddAttachmentKeeps
<1>11. ASSUME NEW f \in Paths, EraseAttachment(f) PROVE ComposeInv' /\ OneSlot
  BY <1>0, <1>11, EraseAttachmentKeeps
<1>12. CASE EraseAllAttachments
  BY <1>0, <1>12, EraseAllKeeps
<1>13. CASE UNCHANGED vars
  BY <1>0, <1>13, StaysAsItIs DEF vars
<1>. DEFINE Kept == ComposeInv' /\ (phase = "live" /\ Len(pars') = Len(pars) => OneSlot)
<1>14. UNCHANGED vars => Kept
  BY <1>13
<1>15. Create \/ Destroy \/ AddPar \/ EraseAllAttachments => Kept
  BY <1>1, <1>3, <1>4, <1>12
<1>16. \A doc \in Documents : Receive(doc) => Kept
  BY <1>2
<1>17. \A p \in 1 .. MaxPars : ErasePar(p) \/ ParSetTextBuffer(p) => Kept
  BY <1>5, <1>9
<1>18. \A p \in 1 .. MaxPars, s \in Slots : ParErase(p, s) \/ ParSetToShown(p, s) => Kept
  BY <1>6, <1>8
<1>19. \A p \in 1 .. MaxPars, s \in Slots, f \in Paths : ParSet(p, s, f) => Kept
  BY <1>7
<1>20. \A f \in Paths : AddAttachment(f) \/ EraseAttachment(f) => Kept
  BY <1>10, <1>11
<1>. HIDE DEF Kept
<1>21. Kept
  BY <1>14, <1>15, <1>16, <1>17, <1>18, <1>19, <1>20 DEF Next
<1>. QED BY <1>21 DEF Kept

(* The invariant: types; the two halves of a message, tied by names alone,   *)
(* agree on what is shown and what is attached; and the names of texts to   *)
(* come are free.                                                           *)
THEOREM ComposeInvariance ==
  ASSUME AllOrdinary
  PROVE  Spec => []ComposeInv
<1>1. Init => ComposeInv
  <2>. SUFFICES ASSUME Init PROVE ComposeInv
    OBVIOUS
  <2>1. Message = [pars |-> <<>>, parts |-> <<>>] /\ attached = {} /\ texts = 0 /\ parts = <<>>
    BY DEF Init, Message
  <2>2. NamesOf(parts) = {}
    BY <2>1 DEF NamesOf, Range
  <2>3. texts \in 0 .. Len(Generated)
    BY <2>1, GeneratedIs
  <2>. QED BY <2>1, <2>2, <2>3, NothingIsSound DEF ComposeInv, TextsFree
<1>2. ComposeInv /\ [Next]_vars => ComposeInv'
  BY StepKeeps
<1>. QED BY <1>1, <1>2, PTL DEF Spec

(* Facts of the invariant, as the properties need them.                      *)
LEMMA InvariantIs ==
  ASSUME AllOrdinary, ComposeInv
  PROVE  /\ parts \in Seq(PartSet) /\ OneName(parts)
         /\ NamesOf(parts) \subseteq Names \cap Plain /\ Shown(pars) \subseteq Plain
         /\ \A p \in DOMAIN pars, s \in Slots : pars[p][s] \in Plain /\ pars[p][s] \in Shown(pars)
         /\ Shown(pars) \ (Cids \cup {""}) \subseteq NamesOf(parts)
         /\ NamesOf(parts) \subseteq Shown(pars) \cup attached
         /\ attached \subseteq NamesOf(parts)
         /\ \A f \in Plain : FileName[f] = f /\ f \in DOMAIN FileName
<1>1. Message \in AllMessages /\ Consistent(Message, attached)
  BY DEF ComposeInv, Sound
<1>2. \A f \in Plain : FileName[f] = f /\ f \in DOMAIN FileName
  BY NamesAre
<1>3. /\ NamesOf(Message.parts) \subseteq Names \cap Plain
      /\ Shown(Message.pars) \subseteq Plain
      /\ Message.parts \in Seq(PartSet)
      /\ \A p \in DOMAIN Message.pars, s \in Slots :
           Message.pars[p][s] \in Plain /\ Message.pars[p][s] \in Shown(Message.pars)
  BY <1>1, NamesTyped
<1>. QED BY <1>1, <1>2, <1>3, MessageIsIt DEF Consistent

(* Every file a par shows is in the message: no set, erase or failure takes *)
(* a part that a slot needs (mms.c:438-512, mms_body_part.c:284-316).       *)
THEOREM ReferencesResolvedInvariant ==
  ASSUME AllOrdinary
  PROVE  Spec => []ReferencesResolved
<1>1. ASSUME ComposeInv PROVE ReferencesResolved
  <2>. SUFFICES ASSUME NEW p \in DOMAIN pars, NEW s \in Slots, pars[p][s] \notin Cids \cup {""}
                PROVE  Find(parts, pars[p][s]) # 0
    BY DEF ReferencesResolved
  <2>. DEFINE f == pars[p][s]
  <2>1. /\ parts \in Seq(PartSet) /\ f \in DOMAIN FileName /\ FileName[f] = f
        /\ f \in NamesOf(parts)
    BY <1>1, InvariantIs
  <2>. HIDE DEF f
  <2>2. Find(parts, f) # 0
    BY <2>1, FindIs
  <2>. QED BY <2>2 DEF f
<1>2. ComposeInv => ReferencesResolved
  BY <1>1
<1>. QED BY <1>2, ComposeInvariance, PTL

(* The message carries nothing that is neither shown nor attached: the last *)
(* slot to let go of a part takes it along (mms.c:438-455, :572-601).       *)
THEOREM NothingUnaskedInvariant ==
  ASSUME AllOrdinary
  PROVE  Spec => []NothingUnasked
<1>1. ASSUME ComposeInv PROVE NothingUnasked
  <2>. SUFFICES ASSUME NEW i \in DOMAIN parts
                PROVE  Shows(pars, parts[i].name) \/ parts[i].name \in attached
    BY DEF NothingUnasked
  <2>1. parts[i].name \in NamesOf(parts)
    BY DEF NamesOf, Range
  <2>2. parts[i].name \in Shown(pars) \cup attached /\ FileName[parts[i].name] = parts[i].name
    BY <1>1, <2>1, InvariantIs
  <2>. QED BY <2>2, ShowsIs
<1>2. ComposeInv => NothingUnasked
  BY <1>1
<1>. QED BY <1>2, ComposeInvariance, PTL

(* No two parts answer to one name, so the first that does is the part meant *)
(* (mms_list.c:282-312 under mms_body_find_body_part).                      *)
THEOREM OnePartPerNameInvariant ==
  ASSUME AllOrdinary
  PROVE  Spec => []OnePartPerName
<1>1. ASSUME ComposeInv PROVE OnePartPerName
  BY <1>1, InvariantIs DEF OnePartPerName, OneName
<1>2. ComposeInv => OnePartPerName
  BY <1>1
<1>. QED BY <1>2, ComposeInvariance, PTL

(* What was attached stays until it is erased or a par shows it, whatever   *)
(* slots are emptied meanwhile (mms.c:558-601).                             *)
THEOREM AttachmentsKeptInvariant ==
  ASSUME AllOrdinary
  PROVE  Spec => []AttachmentsKept
<1>1. ASSUME ComposeInv PROVE AttachmentsKept
  <2>. SUFFICES ASSUME NEW n \in attached PROVE Find(parts, n) # 0
    BY DEF AttachmentsKept
  <2>1. /\ parts \in Seq(PartSet) /\ n \in DOMAIN FileName /\ FileName[n] = n
        /\ n \in NamesOf(parts)
    BY <1>1, InvariantIs
  <2>. QED BY <2>1, FindIs
<1>2. ComposeInv => AttachmentsKept
  BY <1>1
<1>. QED BY <1>2, ComposeInvariance, PTL

(* The file behind a name is told by the parts of that name.                *)
LEMMA SameBehind ==
  ASSUME AllOrdinary, NEW list \in Seq(PartSet), OneName(list), NEW other \in Seq(PartSet),
         OneName(other), NEW f \in Plain, Behind(list, f) = Behind(other, f)
  PROVE  FileBehind(list, f) = FileBehind(other, f)
<1>1. FileName[f] = f /\ f \in DOMAIN FileName
  BY NamesAre
<1>2. \A t : f \in NamesOf(t) <=> Behind(t, f) # {}
  BY DEF NamesOf, Behind
<1>3. Find(list, f) = 0 <=> Find(other, f) = 0
  BY <1>1, <1>2, FindIs
<1>4. CASE Find(list, f) = 0
  BY <1>3, <1>4 DEF FileBehind
<1>5. CASE Find(list, f) # 0
  <2>. DEFINE i == Find(list, f)
              j == Find(other, f)
  <2>1. /\ i \in 1 .. Len(list) /\ list[i].name = f
        /\ j \in 1 .. Len(other) /\ other[j].name = f
    BY <1>1, <1>3, <1>5, FindIs
  <2>. HIDE DEF i, j
  <2>2. DOMAIN list = 1 .. Len(list) /\ DOMAIN other = 1 .. Len(other)
    BY SeqIs
  <2>3. other[j] \in Behind(list, f)
    BY <2>1, <2>2 DEF Behind, Range
  <2>4. PICK k \in 1 .. Len(list) : other[j] = list[k] /\ list[k].name = f
    BY <2>2, <2>3 DEF Behind, Range
  <2>5. k = i
    BY <2>1, <2>4, NameIsIndex
  <2>6. list[i] = other[j]
    BY <2>4, <2>5
  <2>. QED BY <1>3, <1>5, <2>6 DEF FileBehind, i, j
<1>. QED BY <1>4, <1>5

(* A call that keeps the pars changes at most one slot; behind the names the *)
(* others show are the files that were there (mms.c:438-531).               *)
THEOREM AtMostOneSlotChanges ==
  ASSUME AllOrdinary
  PROVE  Spec => AtMostOneSlot
<1>1. ASSUME ComposeInv, ComposeInv', [Next]_vars PROVE OneSlotAtMost
  <2>. SUFFICES ASSUME phase = "live", Len(pars') = Len(pars)
                PROVE  Cardinality(SlotsChanged) <= 1
    BY DEF OneSlotAtMost
  <2>1. PICK one : ChangesOnly(Message, Message', {one})
    BY <1>1, StepKeeps
  <2>2. parts \in Seq(PartSet) /\ OneName(parts) /\ parts' \in Seq(PartSet) /\ OneName(parts')
    BY <1>1, InvariantIs DEF ComposeInv, Sound, Consistent, Message, AllMessages
  <2>3. ASSUME NEW p \in DOMAIN pars, NEW s \in Slots, <<p, s>> # one
        PROVE  /\ pars'[p][s] = pars[p][s]
               /\ pars[p][s] # "" => FileBehind(parts', pars[p][s]) = FileBehind(parts, pars[p][s])
    <3>1. /\ pars'[p][s] = pars[p][s]
          /\ pars[p][s] # "" => Behind(parts', pars[p][s]) = Behind(parts, pars[p][s])
      BY <2>1, <2>3 DEF ChangesOnly, Message
    <3>2. pars[p][s] \in Plain
      BY <1>1, InvariantIs
    <3>. QED BY <2>2, <3>1, <3>2, SameBehind
  <2>4. SlotsChanged \subseteq {one}
    <3>. SUFFICES ASSUME NEW at \in (DOMAIN pars) \X Slots, at \in SlotsChanged, at # one
                  PROVE  FALSE
      BY DEF SlotsChanged
    <3>1. \/ pars'[at[1]][at[2]] # pars[at[1]][at[2]]
          \/ /\ pars[at[1]][at[2]] # ""
             /\ FileBehind(parts', pars[at[1]][at[2]]) # FileBehind(parts, pars[at[1]][at[2]])
      BY DEF SlotsChanged
    <3>2. at[1] \in DOMAIN pars /\ at[2] \in Slots /\ at = <<at[1], at[2]>>
      OBVIOUS
    <3>. QED BY <2>3, <3>1, <3>2
  <2>5. IsFiniteSet({one}) /\ Cardinality({one}) = 1
    BY FS_Singleton
  <2>6. Cardinality(SlotsChanged) <= Cardinality({one})
    BY <2>4, <2>5, FS_Subset
  <2>. QED BY <2>5, <2>6
<1>2. ComposeInv /\ ComposeInv' /\ [Next]_vars => [OneSlotAtMost]_vars
  BY <1>1
<1>. QED BY <1>2, ComposeInvariance, PTL DEF Spec, AtMostOneSlot

=============================================================================
