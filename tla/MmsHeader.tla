------------------------------ MODULE MmsHeader ------------------------------
(***************************************************************************)
(* The header of a message or of a part: a list of named items             *)
(* (mms_header.c), the items (mms_util.c), and the calls of the message    *)
(* that fill it (mms.c).                                                   *)
(*                                                                         *)
(* Names are compared without their case: a name here is the class of its  *)
(* spellings.  Two names that are the same appear in a header only when it *)
(* was read from a message that repeats one.  A call that is refused (an   *)
(* empty text, an expiry of zero) changes nothing and is no step.          *)
(***************************************************************************)
EXTENDS Naturals, Sequences, SequencesExt

CONSTANTS
  Names,        (* Names of headers.                                         *)
  Open,         (* Those a caller sets by name, or erases.                   *)
  Settable,     (* The bound: the names whose own setters are called.        *)
  Texts,        (* Texts that are not empty.                                 *)
  Charsets,     (* Charsets above 0.                                         *)
  Numbers,      (* Other integers a caller sets.                             *)
  Times,        (* Times above 0.                                            *)
  Token,        (* 129, the from that the server inserts.                    *)
  ContentTypes, (* Content types: objects of their own.                      *)
  Plain,        (* No charset.                                               *)
  Received,     (* What may be read: sequences of items.                     *)
  Absent, Unknown

Protocol == <<"X-Mms-Message-Type", "X-Mms-Transaction-Id", "X-Mms-MMS-Version">>
Reports  == {"X-Mms-Delivery-Report", "X-Mms-Read-Report"}
Leading  == {Protocol[k] : k \in 1 .. 3}

String(v)      == [type |-> "string", value |-> v, extra |-> Plain]
Encoded(v, cs) == [type |-> "encoded_string", value |-> v, extra |-> cs]
Long(v)        == [type |-> "long_int", value |-> v, extra |-> Plain]
Time(r, v)     == [type |-> "time", value |-> v, extra |-> r]
Object(v)      == [type |-> "data", value |-> v, extra |-> Plain]

Contents ==
  [type : {"string"}, value : Texts, extra : {Plain}]
    \cup [type : {"encoded_string"}, value : Texts, extra : Charsets]
    \cup [type : {"long_int"}, value : Numbers \cup Times \cup {Token, "send_req", "ack", "yes", "no"}, extra : {Plain}]
    \cup [type : {"time"}, value : Times, extra : {"relative", "absolute"}]
    \cup [type : {"data"}, value : ContentTypes, extra : {Plain}]

Items == [name : Names, content : Contents]
Item(n, c) == [name |-> n, content |-> c]

ASSUME HeaderAssumption ==
  /\ Leading \cup Reports \subseteq Names
  /\ {"Content-Type", "From", "To", "Subject", "X-Mms-Expiry", "Date"} \subseteq Names
  /\ Open \subseteq Names
  /\ Texts # {} /\ ContentTypes # {}
  /\ Received \subseteq Seq(Items)
  /\ Absent \notin Contents /\ Unknown \notin Contents /\ Absent # Unknown

VARIABLES
  items,
  unpack_end_at_content_type,
  origin,       (* "new", "send_req", "ack" or "received".                   *)
  (* History, read by the properties only. *)
  asked,        (* The last call, with its name and content.                 *)
  moved         (* The names of Protocol whose item was erased, by a caller  *)
                (* or for an item of another type, since this message began. *)

vars == <<items, unpack_end_at_content_type, origin, asked, moved>>

Asks(call, n, c) == asked' = [call |-> call, name |-> n, content |-> c]
Calls(call)      == Asks(call, "none", Absent)

Init ==
  /\ items = <<>> /\ origin = "new"
  /\ unpack_end_at_content_type \in BOOLEAN
  /\ asked = [call |-> "create", name |-> "none", content |-> Absent]
  /\ moved = {}

-----------------------------------------------------------------------------
(* mms_list_find and mms_list_erase take the first item of a name.          *)
First(s, n) == CHOOSE i \in DOMAIN s :
                 s[i].name = n /\ \A j \in DOMAIN s : s[j].name = n => i <= j

Has(s, n) == \E i \in DOMAIN s : s[i].name = n

Erased(s, n) == IF Has(s, n) THEN RemoveAt(s, First(s, n)) ELSE s

(* An item of the same type gets the new value; one of another type, or a   *)
(* content type, gives way to a new item at the end.                        *)
InPlace(s, n, c) == Has(s, n) /\ s[First(s, n)].content.type = c.type /\ c.type # "data"

(* altered: the old item of another type stays in front of the new one.     *)
WithBehind(s, n, c) ==
  IF Has(s, n) /\ s[First(s, n)].content.type = c.type
  THEN [s EXCEPT ![First(s, n)] = Item(n, c)]
  ELSE Append(s, Item(n, c))

With(s, n, c) ==
  IF InPlace(s, n, c)
  THEN [s EXCEPT ![First(s, n)] = Item(n, c)]
  ELSE Append(Erased(s, n), Item(n, c))

Set(n, c) ==
  /\ items' = With(items, n, c)
  /\ Asks("set", n, c)
  /\ moved' = IF InPlace(items, n, c) THEN moved ELSE moved \cup ({n} \cap Leading)
  /\ UNCHANGED <<unpack_end_at_content_type, origin>>

TextOf(v, cs) == IF cs = Plain THEN String(v) ELSE Encoded(v, cs)

(* What the setters of the message set: mms_set_from, whose NULL stands for *)
(* the token, mms_set_to, mms_set_subject, mms_set_expire, relative or not, *)
(* mms_set_delivery_report and mms_set_read_report.                         *)
OwnItems ==
  {Item("From", Long(Token))}
    \cup {Item(n, TextOf(v, cs)) :
            n \in {"From", "To", "Subject"}, v \in Texts, cs \in Charsets \cup {Plain}}
    \cup {Item("X-Mms-Expiry", Time(r, t)) : r \in {"relative", "absolute"}, t \in Times}
    \cup {Item(n, Long(v)) : n \in Reports, v \in {"yes", "no"}}

SetOwn ==
  /\ unpack_end_at_content_type
  /\ \E it \in OwnItems : it.name \in Settable /\ Set(it.name, it.content)

SetHeader ==
  \E n \in Open :
     \/ \E v \in Texts : Set(n, String(v))
     \/ \E v \in Numbers : Set(n, Long(v))
     \/ \E r \in {"relative", "absolute"}, t \in Times : Set(n, Time(r, t))

SetContentType == \E ct \in ContentTypes : Set("Content-Type", Object(ct))

Erase(n) ==
  /\ items' = Erased(items, n) /\ Asks("erase", n, Absent)
  /\ moved' = moved \cup ({n} \cap Leading)
  /\ UNCHANGED <<unpack_end_at_content_type, origin>>

Clear ==
  /\ items' = <<>> /\ origin' = "new" /\ Calls("clear") /\ moved' = {}
  /\ UNCHANGED unpack_end_at_content_type

-----------------------------------------------------------------------------
(* Composing.                                                               *)

(* altered: the sender is set before the message type.                      *)
SendReqFromFirst(ct, id, date, expiry) ==
  <<Item("Content-Type", ct), Item("From", Long(Token)), Item(Protocol[1], Long("send_req")),
    Item(Protocol[2], id), Item(Protocol[3], Long("yes"))>>
  \o expiry \o <<Item("Date", date)>>

(* What mms_create_send_req puts in; what has one value for all messages    *)
(* and no setter of its own is left out.  mms_set_to with NULL is refused.  *)
SendReq(ct, id, date, expiry) ==
  <<Item("Content-Type", ct), Item(Protocol[1], Long("send_req")), Item(Protocol[2], id),
    Item(Protocol[3], Long("yes")), Item("From", Long(Token))>>
  \o expiry \o
  <<Item("Date", date), Item("X-Mms-Delivery-Report", Long("no")),
    Item("X-Mms-Read-Report", Long("no"))>>

CreateSendReq ==
  /\ origin = "new" /\ items = <<>> /\ unpack_end_at_content_type
  /\ \E ct \in ContentTypes, id \in Texts, date \in Times :
       \/ items' = SendReq(Object(ct), String(id), Long(date), <<>>)
       \/ \E t \in Times :
            items' = SendReq(Object(ct), String(id), Long(date),
                             <<Item("X-Mms-Expiry", Time("absolute", t))>>)
  /\ origin' = "send_req" /\ Calls("compose") /\ moved' = {}
  /\ UNCHANGED unpack_end_at_content_type

CreateDeliveryAck ==
  /\ origin = "new" /\ items = <<>> /\ unpack_end_at_content_type
  /\ \E id \in Texts :
       items' = <<Item(Protocol[1], Long("ack")), Item(Protocol[2], String(id)),
                  Item(Protocol[3], Long("yes"))>>
  /\ origin' = "ack" /\ Calls("compose") /\ moved' = {}
  /\ UNCHANGED unpack_end_at_content_type

-----------------------------------------------------------------------------
(* Packing and unpacking.                                                   *)

(* altered: the content type stays where it is.                             *)
ContentTypeAnywhere(s) == s

ContentTypeLast(s) ==
  IF Has(s, "Content-Type")
  THEN Append(RemoveAt(s, First(s, "Content-Type")), s[First(s, "Content-Type")])
  ELSE s

Pack ==
  /\ items' = IF unpack_end_at_content_type THEN ContentTypeLast(items) ELSE items
  /\ Calls("pack")
  /\ UNCHANGED <<unpack_end_at_content_type, origin, moved>>

(* What unpacking takes of a header.                                        *)
UpToContentType(s) ==
  IF Has(s, "Content-Type") THEN SubSeq(s, 1, First(s, "Content-Type")) ELSE s

(* A message that was received, or the one that was just packed here.       *)
Readable == Received \cup (IF asked.call = "pack" THEN {items} ELSE {})

Unpack ==
  \E s \in Readable :
     /\ items' = IF unpack_end_at_content_type THEN UpToContentType(s) ELSE s
     /\ origin' = "received" /\ Calls("unpack") /\ moved' = {}
     /\ UNCHANGED unpack_end_at_content_type

Next ==
  \/ SetOwn \/ SetHeader
  \/ SetContentType \/ (\E n \in Open : Erase(n)) \/ Clear
  \/ CreateSendReq \/ CreateDeliveryAck \/ Pack \/ Unpack

Spec == Init /\ [][Next]_vars

-----------------------------------------------------------------------------
(* Properties.                                                              *)

(* The items are named and typed as the setters and the codecs make them.   *)
TypeOK ==
  /\ items \in Seq(Items)
  /\ unpack_end_at_content_type \in BOOLEAN
  /\ origin \in {"new", "send_req", "ack", "received"}
  /\ asked.call \in {"create", "compose", "set", "erase", "clear", "pack", "unpack"}
  /\ moved \subseteq Leading

(* A message's header is read up to its content type, so nothing may be     *)
(* packed behind it: all of what was packed is read, whatever was set,      *)
(* erased and read before, in whatever order.                               *)
WholeIsRead ==
  asked.call = "pack" /\ unpack_end_at_content_type => UpToContentType(items) = items

Kept == {k \in 1 .. 3 : Protocol[k] \notin moved}

(* A message composed here is packed with its type, its transaction id and  *)
(* its version in front, in this order, as WAP-209 asks, however often it   *)
(* is packed and whatever the caller sets with whatever types, any of the   *)
(* three and the content type among it: only the one that the caller set    *)
(* with another type, or erased, has lost its place, and the others close   *)
(* up.                                                                      *)
ProtocolFirst ==
  origin \in {"send_req", "ack"} /\ asked.call = "pack" =>
    \A k \in Kept :
      /\ Has(items, Protocol[k])
      /\ \A j \in DOMAIN items : items[j].name = Protocol[k] =>
           \A i \in 1 .. j - 1 : \E l \in Kept : l < k /\ items[i].name = Protocol[l]

(* What the getters show of a name.                                         *)
Shown(s, n) ==
  IF ~Has(s, n) THEN Absent
  ELSE IF \A i, j \in DOMAIN s : s[i].name = n /\ s[j].name = n => i = j
       THEN s[First(s, n)].content
  ELSE Unknown

Abstract == INSTANCE HeaderFields WITH fields <- [n \in Names |-> Shown(items, n)]

(* The list of items is a map from names to contents: a setter or an erase  *)
(* changes its own name and no other, packing changes nothing, and no call  *)
(* but reading makes a name occur twice.                                    *)
ImplementsFields == Abstract!Spec

=============================================================================
