------------------------------ MODULE MmsUnpack ------------------------------
(***************************************************************************)
(* Unpacking a message: mms_unpack with the header, content type and body  *)
(* part unpackers under it, and wap_push_unpack, all reading through one   *)
(* MmsInputBuffer.                                                         *)
(*                                                                         *)
(* What is left to do is a sequence of tasks, the C stack and the          *)
(* statements after each call; one step is one call of the input buffer or *)
(* one return.  What the bytes say (which header, which length) is free, so *)
(* any message is read, well formed or not.                                *)
(***************************************************************************)
EXTENDS MmsInputBuffer

CONSTANTS
  Lengths,      (* What a value length or a variable length integer may say. *)
  Counts        (* What the number of body parts may say.                    *)

ASSUME UnpackAssumption ==
  Lengths \subseteq SizeT /\ Counts \subseteq Nat

VARIABLES
  todo,       (* Tasks, the next one first; <<"aborted">> when an assert failed. *)
  codec,      (* The unpack_item in use: "mms" or "wsp".                     *)
  value,      (* The length read last: size_t header_length, long length.    *)
  body,       (* size_t body_length.                                         *)
  end,        (* size_t end of mms_content_type_unpack.                      *)
  nr,         (* Body parts still to unpack.                                 *)
  body_parts, (* [head, data, length] of each; headLength, plain and cut are *)
              (* history.                                                    *)
  (* History, read by the properties only. *)
  declared,   (* Where the value of this header ends by its own length.      *)
  overran,    (* In this part, a string ran past the limit.                  *)
  cut,        (* In this part, a header made no item and ended the loop.     *)
  wrapped     (* A sum of an offset and a length wrapped.                    *)

locals  == <<codec, value, body, end, nr, body_parts>>
history == <<declared, overran, cut, wrapped>>
unpackVars == <<bufferVars, todo, locals, history>>

None    == -1   \* No such offset.
Refused == -2   \* Of declared: a push was refused in this header.

Tasks ==
  {"items", "value", "length", "push", "number", "address", "charset", "string", "skip",
   "pop", "ctype", "media", "params", "nr", "parts", "body", "data", "pdu", "content",
   "destroy", "aborted"}

UnpackInit ==
  /\ BufferInit
  /\ todo = <<>> /\ codec = "mms"
  /\ value = 0 /\ body = 0 /\ end = 0 /\ nr = 0 /\ body_parts = <<>>
  /\ declared = None /\ overran = FALSE /\ cut = FALSE /\ wrapped = FALSE

(* The next task is task, and others come before what is left after it.    *)
Doing(task) == todo # <<>> /\ Head(todo) = task
Then(tasks) == todo' = tasks \o Tail(todo)

(* A step that moves the offset only, and one that moves the limits only.   *)
Reads == UNCHANGED <<live, length, limit, limits>>
Keeps == UNCHANGED bufferVars

Start(n, tasks) ==
  /\ todo = <<>> /\ CreateInput(n) /\ todo' = tasks
  /\ value' = 0 /\ body' = 0 /\ end' = 0 /\ nr' = 0 /\ body_parts' = <<>>
  /\ declared' = None /\ overran' = FALSE /\ cut' = FALSE /\ wrapped' = FALSE

-----------------------------------------------------------------------------
(* Values.                                                                 *)

Number ==
  /\ Doing("number") /\ Then(<<>>)
  /\ Reads /\ \E k \in SizeT : GetBytes(k)
  /\ UNCHANGED <<locals, history>>

(* A string past the limit is noted.                                       *)
StringRead ==
  /\ Reads /\ \E k \in SizeT : GetString(k)
  /\ overran' = (overran \/ offset' > limit)
  /\ UNCHANGED <<locals, declared, cut, wrapped>>

String == Doing("string") /\ Then(<<>>) /\ StringRead

(* A value that is an integer or a string, and a charset likewise.         *)
Value ==
  /\ \E task \in {"value", "charset"} : Doing(task)
  /\ Then(<<>>)
  /\ \/ StringRead
     \/ /\ Reads /\ \E k \in SizeT : GetBytes(k)
        /\ UNCHANGED <<locals, history>>

(* get_value_length, get_var_int: 0 at the end of the buffer.              *)
LengthRead(v) == IF Eof THEN v = 0 ELSE v \in Lengths

Length ==
  /\ Doing("length") /\ Then(<<>>)
  /\ Reads /\ \E k \in SizeT : GetBytes(k)
  /\ value' \in SizeT /\ LengthRead(value')
  /\ UNCHANGED <<codec, body, end, nr, body_parts, history>>

(* push_limit at tell + length; nobody looks at what it returns.           *)
Push ==
  LET l == Plus(offset, value)
  IN  /\ Doing("push") /\ Then(<<>>)
      /\ PushLimit(l) /\ UNCHANGED <<live, length, offset>>
      /\ declared' = IF ~AcceptsLimit(l) THEN Refused ELSE IF declared = None THEN l ELSE declared
      /\ wrapped' = (wrapped \/ offset + value >= Word)
      /\ UNCHANGED <<locals, overran, cut>>

Skip ==
  /\ Doing("skip") /\ Then(<<>>)
  /\ Reads /\ SkipToLimit
  /\ UNCHANGED <<locals, history>>

Pop ==
  /\ Doing("pop") /\ Then(<<>>)
  /\ PopLimit /\ UNCHANGED <<live, length, offset>>
  /\ UNCHANGED <<locals, history>>

(* mms_input_buffer_get_encoded_string with a value length.                *)
EncodedString == <<"length", "push", "charset", "string", "skip", "pop">>

(* altered: what is left of the address is not skipped.                     *)
FromUnskipped == <<"length", "push", "number", "address", "pop">>

From == <<"length", "push", "number", "address", "skip", "pop">>

(* The address of From: absent, a text, or an encoded string.              *)
Address ==
  /\ Doing("address")
  /\ \E tasks \in {<<>>, <<"string">>, EncodedString} : Then(tasks)
  /\ Keeps /\ UNCHANGED <<locals, history>>

-----------------------------------------------------------------------------
(* mms_header_unpack over mms_header_unpack_item or wsp_header_unpack_item. *)

(* altered: the end is that of the message.                                 *)
ItemsEndOfMessage ==
  /\ Doing("items") /\ offset >= length /\ Then(<<>>)
  /\ Keeps /\ UNCHANGED <<locals, history>>

ItemsEnd ==
  /\ Doing("items") /\ Eof /\ Then(<<>>)
  /\ Keeps /\ UNCHANGED <<locals, history>>

(* A header by name: two strings.                                          *)
NamedItem ==
  /\ Doing("items") /\ ~Eof /\ Then(<<"string", "items">>)
  /\ Reads /\ \E k \in SizeT : GetString(k)
  /\ overran' = (overran \/ offset' > limit)
  /\ declared' = None
  /\ UNCHANGED <<locals, cut, wrapped>>

(* A header by number, in the headers of a part or a push.  A number with   *)
(* no name has its value read and makes no item, which ends the loop.       *)
WspItem ==
  /\ Doing("items") /\ ~Eof /\ codec = "wsp"
  /\ Reads /\ GetBytes(1)
  /\ \/ Then(<<"value", "items">>) /\ cut' = cut
     \/ Then(<<"value">>) /\ cut' = TRUE
  /\ declared' = None
  /\ UNCHANGED <<locals, overran, wrapped>>

(* A header by number, in the header of a message.  No item comes of a      *)
(* number with no value after it or of one with no case, nor of an encoded  *)
(* string with charset 0 or no text: it ends the loop, after its value.     *)
(* Content-Type ends it as the last item.                                   *)
NumberedItem ==
  /\ Doing("items") /\ ~Eof /\ codec = "mms"
  /\ Reads /\ GetBytes(1)
  /\ declared' = None
  /\ \/ Then(<<>>)
     \/ /\ offset' < limit
        /\ \/ Then(<<"ctype">>) \/ Then(EncodedString) \/ Then(From)
           \/ \E form \in {<<"value">>, EncodedString, From} : Then(Append(form, "items"))
  /\ UNCHANGED <<locals, overran, cut, wrapped>>

(* A value length, which nobody compares with the value, the token and the  *)
(* integer of Expiry and Delivery-Time.                                     *)
TimeItem ==
  /\ Doing("items") /\ ~Eof /\ codec = "mms"
  /\ Reads /\ GetBytes(1) /\ offset' < limit
  /\ Then(<<"number", "number", "number", "items">>)
  /\ declared' = None
  /\ UNCHANGED <<locals, overran, cut, wrapped>>

(* One of the mms_asserts on what was read; NDEBUG goes on.                *)
AssertFails ==
  /\ (Doing("items") /\ ~Eof) \/ Doing("media") \/ Doing("value")
  /\ todo' = <<"aborted">>
  /\ Keeps /\ UNCHANGED <<locals, history>>

-----------------------------------------------------------------------------
(* mms_content_type_unpack.                                                *)

ContentType ==
  /\ Doing("ctype")
  /\ \/ /\ ~Eof /\ Then(<<>>)
        /\ Reads /\ GetBytes(1)
        /\ UNCHANGED <<locals, history>>
     \/ ~Eof /\ Then(<<>>) /\ StringRead
     \/ /\ Then(<<"media", "params">>)
        /\ Reads /\ \E k \in SizeT : GetBytes(k)
        /\ \E v \in SizeT : LengthRead(v) /\ end' = Plus(offset', v)
        /\ UNCHANGED <<codec, value, body, nr, body_parts, history>>

(* The media type itself: a number, a name, or neither.                    *)
Media ==
  /\ Doing("media") /\ Then(<<>>)
  /\ \/ Reads /\ GetBytes(1) /\ UNCHANGED <<locals, history>>
     \/ ~Eof /\ StringRead
     \/ Keeps /\ UNCHANGED <<locals, history>>

(* while(tell < end): a parameter's number, then its value.                *)
Params ==
  /\ Doing("params")
  /\ \/ /\ offset >= end /\ Then(<<>>)
        /\ Keeps /\ UNCHANGED <<locals, history>>
     \/ /\ offset < end /\ Then(<<"value", "params">>)
        /\ Reads /\ GetBytes(IF Eof THEN 0 ELSE 1)
        /\ UNCHANGED <<locals, history>>

-----------------------------------------------------------------------------
(* mms_unpack, mms_body_unpack, mms_body_part_unpack.                      *)

Unpack(n) ==
  /\ Start(n, <<"items", "nr", "parts", "destroy">>)
  /\ codec' = "mms"

PartCount ==
  /\ Doing("nr") /\ Then(<<>>)
  /\ Reads /\ \E k \in SizeT : GetBytes(k)
  /\ \E n \in Counts \cup {0} : nr' = IF Eof THEN 0 ELSE n
  /\ UNCHANGED <<codec, value, body, end, body_parts, history>>

Part == <<"length", "body", "push", "ctype", "items", "pop", "data">>

Parts ==
  /\ Doing("parts")
  /\ \/ (nr = 0 \/ Eof) /\ Then(<<>>) /\ UNCHANGED <<codec, nr, overran, cut>>
     \/ /\ nr > 0 /\ ~Eof /\ Then(Append(Part, "parts"))
        /\ codec' = "wsp" /\ nr' = nr - 1 /\ overran' = FALSE /\ cut' = FALSE
  /\ Keeps /\ UNCHANGED <<value, body, end, body_parts, declared, wrapped>>

(* body_length, and header_offset after it.                                *)
BodyLength ==
  /\ Doing("body") /\ Then(<<>>)
  /\ Reads /\ \E k \in SizeT : GetBytes(k)
  /\ body' \in SizeT /\ LengthRead(body')
  /\ body_parts' = Append(body_parts, [head |-> offset', headLength |-> value,
                                       data |-> None, length |-> 0, plain |-> FALSE, cut |-> FALSE])
  /\ UNCHANGED <<codec, value, end, nr, history>>

(* The part keeps the length whether or not get_data gave it the data.      *)
Data ==
  LET i == Len(body_parts)
      l == Plus(body_parts[i].head, value)
  IN  /\ Doing("data") /\ Then(<<>>)
      /\ Reads /\ GetData(body)
      /\ body_parts' = [body_parts EXCEPT
           ![i].data = IF HasData(body) THEN offset ELSE None,
           ![i].length = body,
           ![i].plain = ~overran /\ body_parts[i].head + value <= length,
           ![i].cut = cut]
      /\ wrapped' = (wrapped \/ (HasData(body) /\ offset + body >= Word))
      /\ UNCHANGED <<codec, value, body, end, nr, declared, overran, cut>>

DestroyBuffer ==
  /\ Doing("destroy") /\ Then(<<>>)
  /\ DestroyInput
  /\ UNCHANGED <<locals, history>>

-----------------------------------------------------------------------------
(* wap_push_create.                                                        *)

UnpackPush(n) ==
  /\ Start(n, <<"number", "pdu", "content", "destroy">>)
  /\ codec' = "wsp"

(* pdu_type: only a push is unpacked further.                              *)
PduType ==
  /\ Doing("pdu")
  /\ \/ Then(<<>>)
     \/ Then(<<"length", "push", "ctype", "items", "pop">>)
  /\ Reads /\ GetBytes(IF Eof THEN 0 ELSE 1)
  /\ UNCHANGED <<locals, history>>

(* The content is what follows, length - offset of it.                     *)
Content ==
  /\ Doing("content") /\ Then(<<>>)
  /\ body_parts' = <<[head |-> 0, headLength |-> 0, data |-> offset, plain |-> FALSE, cut |-> FALSE,
                      length |-> IF offset <= length THEN length - offset
                                 ELSE length - offset + Word]>>
  /\ Keeps /\ UNCHANGED <<codec, value, body, end, nr, history>>

-----------------------------------------------------------------------------
UnpackNext ==
  \/ \E n \in Messages : Unpack(n) \/ UnpackPush(n)
  \/ Number \/ String \/ Value \/ Length \/ Push \/ Skip \/ Pop \/ Address
  \/ ItemsEnd \/ NamedItem \/ WspItem \/ NumberedItem \/ TimeItem \/ AssertFails
  \/ ContentType \/ Media \/ Params
  \/ PartCount \/ Parts \/ BodyLength \/ Data \/ DestroyBuffer
  \/ PduType \/ Content

UnpackSpec == UnpackInit /\ [][UnpackNext]_unpackVars

(* The unpackers are one running thread that waits for nothing.            *)
FairUnpackSpec == UnpackSpec /\ WF_unpackVars(UnpackNext /\ live)

-----------------------------------------------------------------------------
(* Properties.                                                             *)

(* Every variable has its type.                                            *)
TypeOK ==
  /\ BufferTypeOK
  /\ todo \in Seq(Tasks) /\ codec \in {"mms", "wsp"}
  /\ value \in SizeT /\ body \in SizeT /\ end \in SizeT /\ nr \in Nat
  /\ declared \in SizeT \cup {None, Refused} /\ overran \in BOOLEAN
  /\ cut \in BOOLEAN /\ wrapped \in BOOLEAN
  /\ \A i \in 1 .. Len(body_parts) :
       /\ body_parts[i].head \in SizeT /\ body_parts[i].headLength \in SizeT
       /\ body_parts[i].data \in SizeT \cup {None} /\ body_parts[i].length \in SizeT

(* Between two headers of the message, and when the data of a part is       *)
(* taken, no limit is left over from a value or a part header, although     *)
(* every push may be refused and every pop is made: else the rest of the    *)
(* message would be read against the limit of a value already past.         *)
LimitsBalanced ==
  (Doing("items") /\ codec = "mms") \/ Doing("data") \/ Doing("content") =>
    limits = <<>> /\ limit = length

(* A header whose value says its length ends exactly there when the message *)
(* has that much, even if a text in it ran past the limit or an encoded     *)
(* string in it claims more than its share: the next header is found.       *)
ValueEndsWhereDeclared ==
  Doing("items") /\ codec = "mms" /\ declared \in SizeT => offset = declared

(* The data of every part lies in the message, and parts do not overlap,    *)
(* nor reach into the header of the next, unless a length wraps; and, when  *)
(* the message has as much as the header's length says and no string in it  *)
(* ran past it, the data begins nowhere behind that length, and exactly     *)
(* there unless a header made no item and the rest of them was left unread. *)
DataInMessage ==
  \A i \in {j \in 1 .. Len(body_parts) : body_parts[j].data # None} :
    /\ live /\ ~wrapped /\ body_parts[i].data + body_parts[i].length < Word =>
         /\ body_parts[i].head <= body_parts[i].data
         /\ body_parts[i].data + body_parts[i].length <= length
         /\ i < Len(body_parts) => body_parts[i].data + body_parts[i].length < body_parts[i + 1].head
    /\ body_parts[i].plain =>
         /\ body_parts[i].data <= body_parts[i].head + body_parts[i].headLength
         /\ ~body_parts[i].cut =>
              body_parts[i].data = body_parts[i].head + body_parts[i].headLength

(* The parameter loop of a content type whose length reaches past the limit *)
(* does not end: reads at the end of the buffer do not move the offset.     *)
Spinning == Eof /\ offset < end /\ \E i \in 1 .. Len(todo) : todo[i] = "params"

(* Unpacking ends, or fails an assert, whatever is in the message: of the   *)
(* loops over headers, parameters and parts only the one named Spinning can *)
(* go on for ever, and any of them once a sum has wrapped.                  *)
UnpackEnds == live ~> (~live \/ Doing("aborted") \/ Spinning \/ wrapped)

=============================================================================
