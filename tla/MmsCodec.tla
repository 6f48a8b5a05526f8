------------------------------- MODULE MmsCodec -------------------------------
(***************************************************************************)
(* A header and a body packed to bytes and unpacked from them: the codecs  *)
(* of MMS, WSP and HTTP headers, of the content type, the body parts and   *)
(* the body, over the encodings of ByteFormats.                            *)
(*                                                                         *)
(* One program packs items one by one and, for a message, its content type *)
(* and its body; another, or the same one later, unpacks what was written. *)
(* A header name stands for its spelling as one text; the name that has    *)
(* number id in a table is the text the table gives for id.                *)
(***************************************************************************)
EXTENDS ByteFormats

CONSTANTS
  Items,      (* The header items a program packs, for each codec.           *)
  Messages,   (* Content type and parts of a message: [ct, parts].           *)
  MaxItems    (* Header items before the content type.                       *)

ASSUME CodecAssumption ==
  DOMAIN Items \subseteq {"mms", "wsp", "http"} /\ MaxItems \in Nat

VARIABLES
  codec,      (* Of pack_item and unpack_item.                               *)
  stage,      (* "pack", "unpack", "read", or "aborted" by an mms_assert.     *)
  wire,       (* The bytes.                                                  *)
  at,         (* Offset of the input buffer.                                 *)
  sent, ends, (* What was packed, and where each of it ended.                 *)
  received

codecVars == <<codec, stage, wire, at, sent, ends, received>>

-----------------------------------------------------------------------------
(* Names and numbers (g_mms_headers, g_wsp_headers, g_content_types).        *)

MmsNames   == [id \in 0 .. 33 |-> <<64, 40 + id>>]
WspNames   == [id \in 0 .. 71 |-> <<65, 40 + (IF id = 61 THEN 8 ELSE id)>>]
MediaNames == [id \in 0 .. 75 |-> <<66, 40 + id>>]

(* mms_name_to_id: the first, or -1.                                       *)
IdOf(names, name) ==
  LET ids == {id \in DOMAIN names : names[id] = name}
  IN  IF ids = {} THEN -1 ELSE CHOOSE id \in ids : \A other \in ids : id <= other

ContentTypeId == 4
Longs    == {5, 14}                             \* Date, Message-Size.
Chars    == {6, 12, 15, 16, 17, 18, 20, 21}     \* Reports, types, statuses.
Strings  == {3, 24}                             \* Content-Location, Transaction-Id.
Encodeds == {1, 2, 11, 19, 22, 23}              \* Bcc .. To.
Times    == {7, 8}                              \* Delivery-Time, Expiry.
FromId    == 9
ClassId   == 10
VersionId == 13
Statuses == {25, 26, 27}                        \* Retrieve-Status, -Text, Read-Status.

AddressPresent == 128

StringItem(name, text)           == [name |-> name, type |-> "string", text |-> text]
EncodedItem(name, text, charset) ==
  [name |-> name, type |-> "encoded", text |-> text, charset |-> charset]
LongItem(name, long)             == [name |-> name, type |-> "long", long |-> long]
TimeItem(name, token, time)      == [name |-> name, type |-> "time", token |-> token, time |-> time]
DataItem(name, ct)               == [name |-> name, type |-> "data", ct |-> ct]

(* What an unpacker gives that fails an mms_assert or never returns; NULL.   *)
Failed  == [type |-> "failed"]
Nothing == [type |-> "nothing"]

-----------------------------------------------------------------------------
(* mms_content_type.                                                       *)

ContentTypeNamed(name) ==
  [id |-> IdOf(MediaNames, name), name |-> name,
   type |-> <<>>, param |-> <<>>, filename |-> <<>>, start |-> <<>>]

(* A well-known type by number, any other by name.                          *)
PutMedia(name) ==
  LET id == IdOf(MediaNames, name)
  IN  IF id >= 0 THEN PutShortInt(AsLong(id)) ELSE PutString(name)

HasParams(ct) == \E text \in {ct.param, ct.type, ct.filename, ct.start} : text # <<>>

Param(number, text, bytes) == IF text = <<>> THEN <<>> ELSE PutShortInt(AsLong(number)) \o bytes

Params(ct) ==
  Param(9, ct.type, PutMedia(ct.type))
    \o Param(5, ct.param, PutString(ct.param))
    \o Param(6, ct.filename, PutString(ct.filename))
    \o Param(10, ct.start, PutString(ct.start))

(* mms_assert(!"invalid content-type"); without parameters it cannot fail.  *)
PacksContentType(ct) == HasParams(ct) => ct.name # <<>>

PackContentType(ct) ==
  LET value == PutMedia(ct.name) \o Params(ct)
  IN  IF HasParams(ct) THEN PutValueLength(Len(value)) \o value ELSE PutMedia(ct.name)

(* The media type, by number or by name.                                   *)
MediaName(short) == IF Low(short) \in DOMAIN MediaNames THEN MediaNames[Low(short)] ELSE <<>>

GetMedia(w, from, end) ==
  IF IsShortInt(w, from, end) THEN Of(MediaName, GetShortInt(w, from, end))
  ELSE GetString(w, from, end)

(* The field a parameter sets, and how it is read: charset and unknown ones *)
(* are read and dropped.                                                   *)
FieldOf(option) ==
  CASE option = 5  -> "param"
    [] option = 10 -> "start"
    [] option = 9  -> "type"
    [] OTHER       -> "none"

GetDropped(option, w, from, end) ==
  IF option # 1 /\ IsString(w, from, end) THEN GetString(w, from, end) ELSE GetInt(w, from, end)

GetParam(option, w, from, end) ==
  CASE option = 9          -> GetMedia(w, from, end)
    [] option \in {5, 10} -> GetString(w, from, end)
    [] OTHER               -> GetDropped(option, w, from, end)

WithField(ct, field, text) ==
  IF field = "none" \/ text = Null THEN ct ELSE [ct EXCEPT ![field] = text]

(* A turn of the loop over the parameters before offset stop.              *)
ParamsTurn(read, w, stop, end) ==
  IF read.at >= stop \/ read.value = Failed THEN read
  ELSE IF read.at >= end THEN Read(Failed, read.at)   \* Reads nothing for ever.
  ELSE
  Then(GetShortInt(w, read.at, end), LAMBDA option, behind :
    Of(LAMBDA text : WithField(read.value, FieldOf(Low(option)), text),
       GetParam(Low(option), w, behind, end)))

(* A turn moves on, or is the last: there are no more of them than bytes.   *)
BytesLeft(from, to) == IF from < to THEN to - from ELSE 0

UnpackParams(ct, w, from, stop, end) ==
  LET turns == 1 + BytesLeft(from, IF stop < end THEN stop ELSE end)
      after[i \in 0 .. turns] ==
        IF i = 0 THEN Read(ct, from) ELSE ParamsTurn(after[i - 1], w, stop, end)
  IN  after[turns]

UnpackParamsOf(w, from, stop, end) ==
  IF IsValueLength(w, from, end) THEN Read(Failed, from)
  ELSE Then(GetMedia(w, from, end), LAMBDA media, next :
         UnpackParams(ContentTypeNamed(media), w, next, stop, end))

UnpackContentType(w, from, end) ==
  IF IsValueLength(w, from, end)
  THEN Then(GetValueLength(w, from, end), LAMBDA length, next :
         UnpackParamsOf(w, next, next + length, end))
  ELSE Of(ContentTypeNamed, GetMedia(w, from, end))

-----------------------------------------------------------------------------
(* mms_header_pack_item and mms_header_unpack_item.                          *)

(* The types its mms_asserts let pass.                                     *)
PacksMms(item) ==
  LET id == IdOf(MmsNames, item.name)
  IN  CASE id < 0 \/ id \in Strings          -> item.type = "string"
        [] id = ContentTypeId                -> item.type = "data" /\ PacksContentType(item.ct)
        [] id \in Longs \union Chars         -> item.type = "long"
        [] id \in Encodeds                   -> item.type \in {"string", "encoded"}
        [] id = FromId                       -> item.type \in {"string", "encoded", "long"}
        [] id \in Times                      -> item.type = "time"
        [] OTHER                             -> item.type \in {"string", "long"}

(* altered: the token is not counted.                                       *)
PutTimeTokenUncounted(item) ==
  PutValueLength(LongIntBytes(item.time)) \o <<item.token>> \o PutLongInt(item.time)

PutTime(item) ==
  PutValueLength(LongIntBytes(item.time) + 1) \o <<item.token>> \o PutLongInt(item.time)

(* The token alone, or an address behind it.                               *)
PutFrom(item) ==
  LET address == IF item.type = "string" THEN PutString(item.text)
                 ELSE PutEncodedString(item.text, item.charset)
  IN  IF item.type = "long" THEN PutValueLength(1) \o <<Low(item.long)>>
      ELSE PutValueLength(Len(address) + 1) \o <<AddressPresent>> \o address

PackMms(item) ==
  LET id == IdOf(MmsNames, item.name)
      value ==
        CASE id = ContentTypeId -> PackContentType(item.ct)
          [] id \in Longs       -> PutLongInt(item.long)
          [] id \in Times       -> PutTime(item)
          [] id = FromId        -> PutFrom(item)
          [] id \in Chars \/ (id = ClassId /\ item.type = "long") -> <<Low(item.long)>>
          [] id = VersionId     -> PutShortInt(item.long)
          [] OTHER              ->
               CASE item.type = "string"  -> PutString(item.text)
                 [] item.type = "encoded" -> PutEncodedString(item.text, item.charset)
                 [] item.type = "long"    -> PutInt(item.long)
  IN  IF id < 0 THEN PutString(item.name) \o PutString(item.text) ELSE <<128 + id>> \o value

(* An item by its name, in any codec but HTTP's.                            *)
UnpackNamed(w, from, end) ==
  Then(GetString(w, from, end), LAMBDA name, next :
    Of(LAMBDA text : StringItem(name, text), GetString(w, next, end)))

(* A text with or without a charset.                                       *)
UnpackText(name, w, from, end) ==
  Of(LAMBDA s : IF IsValueLength(w, from, end) THEN EncodedItem(name, s.text, s.charset)
                ELSE StringItem(name, s.text),
     GetEncodedString(w, from, end))

UnpackAddress(name, w, from, limit) ==
  Then(GetInt8(w, from, limit), LAMBDA token, next :
    Read(IF token = AddressPresent THEN UnpackText(name, w, next, limit).value
         ELSE LongItem(name, AsLong(token)), limit))

UnpackFrom(name, w, from, end) ==
  Then(GetValueLength(w, from, end), LAMBDA length, next :
    UnpackAddress(name, w, next, Limit(w, next + length, end)))

(* The value length of a time is not compared with the value.               *)
UnpackTime(name, w, from, end) ==
  Then(GetInt8(w, GetValueLength(w, from, end).at, end), LAMBDA token, next :
    Of(LAMBDA time : TimeItem(name, token, time), GetLongInt(w, next, end)))

UnpackChar(name, w, from, end) ==
  Of(LAMBDA byte : LongItem(name, AsLong(byte)), GetInt8(w, from, end))

UnpackString(name, w, from, end) ==
  Of(LAMBDA text : StringItem(name, text), GetString(w, from, end))

UnpackMmsValue(id, name, w, from, end) ==
  CASE id = ContentTypeId ->
         Of(LAMBDA ct : DataItem(name, ct), UnpackContentType(w, from, end))
    [] id \in Longs     -> Of(LAMBDA long : LongItem(name, long), GetLongInt(w, from, end))
    [] id = VersionId   -> Of(LAMBDA long : LongItem(name, long), GetShortInt(w, from, end))
    [] id \in Encodeds  -> UnpackText(name, w, from, end)
    [] id \in Times     -> UnpackTime(name, w, from, end)
    [] id = FromId      -> UnpackFrom(name, w, from, end)
    [] id \in Chars \/ (id \in Statuses \union {ClassId} /\ IsShortInt(w, from, end)) ->
         UnpackChar(name, w, from, end)
    [] id \in Strings \/ (id = ClassId /\ ~IsShortInt(w, from, end))
                      \/ (id \in Statuses /\ IsString(w, from, end)) ->
         UnpackString(name, w, from, end)
    [] OTHER            -> Read(Failed, from)

UnpackMms(w, from, end) ==
  IF IsString(w, from, end) THEN UnpackNamed(w, from, end)
  ELSE Then(GetInt8(w, from, end), LAMBDA byte, next :
         IF next >= end THEN Read(Nothing, next)
         ELSE UnpackMmsValue((byte + 128) % 256, MmsNames[(byte + 128) % 256], w, next, end))

-----------------------------------------------------------------------------
(* wsp_header_pack_item and wsp_header_unpack_item; http_header_pack_item   *)
(* and http_header_unpack_item.                                            *)

WspContentType == WspNames[17]
WspContentId   == WspNames[64]
WspDate        == 18
WspTexts       == {14, 48}    \* Content-Location, X-Wap-Content-URI.

PacksWsp(item) ==
  LET id == IdOf(WspNames, item.name)
  IN  \/ item.name = WspContentType
      \/ item.type = "string"
      \/ item.type = "long" /\ id >= 0 /\ id \notin WspTexts /\ item.name # WspContentId

(* Nothing for the content type, which body parts pack themselves.          *)
PackWsp(item) ==
  LET id == IdOf(WspNames, item.name)
  IN  CASE item.name = WspContentType -> <<>>
        [] id < 0 \/ item.name = WspContentId -> PutString(item.name) \o PutString(item.text)
        [] OTHER -> PutShortInt(AsLong(id))
                      \o (IF item.type = "string" THEN PutString(item.text) ELSE PutLongInt(item.long))

GetWspLong(id, w, from, end) ==
  IF id = WspDate THEN GetLongInt(w, from, end) ELSE GetInt(w, from, end)

UnpackWspValue(id, w, from, end) ==
  IF id \notin DOMAIN WspNames THEN Read(Failed, from)
  ELSE IF id \in WspTexts \/ IsString(w, from, end)
  THEN UnpackString(WspNames[id], w, from, end)
  ELSE Of(LAMBDA long : LongItem(WspNames[id], long), GetWspLong(id, w, from, end))

UnpackWsp(w, from, end) ==
  IF IsString(w, from, end) THEN UnpackNamed(w, from, end)
  ELSE Then(GetInt8(w, from, end), LAMBDA byte, next :
         UnpackWspValue((byte + 128) % 256, w, next, end))

Colon   == 58
Newline == 10
Return  == 13
Spaces  == {9, 10, 11, 12, 13, 32}

(* isspace() bytes in front are skipped.                                   *)
Stripped(text) ==
  LET ink == {i \in DOMAIN text : text[i] \notin Spaces}
  IN  IF ink = {} THEN <<>>
      ELSE SubSeq(text, CHOOSE i \in ink : \A j \in ink : i <= j, Len(text))

WithoutReturn(text) ==
  IF text # <<>> /\ text[Len(text)] = Return THEN SubSeq(text, 1, Len(text) - 1) ELSE text

(* A long is written as "%d"; up to three bytes of it here.                *)
Decimal(long) ==
  LET n     == Number(long, 256)
      count == 1 + Cardinality({bound \in {9, 99, 999, 9999, 99999, 999999, 9999999} : n > bound})
  IN  [i \in 1 .. count |-> 48 + Digits(n, 10, count)[i]]

PackHttp(item) ==
  item.name \o <<Colon, 32>> \o (IF item.type = "string" THEN item.text ELSE Decimal(item.long))
    \o <<Return, Newline>>

UnpackHttp(w, from, end) ==
  Then(GetStringEndWith(w, from, end, Colon), LAMBDA name, next :
    IF next >= end THEN Read(Nothing, next)
    ELSE Of(LAMBDA value : StringItem(Stripped(name), WithoutReturn(Stripped(value))),
            GetStringEndWith(w, next, end, Newline)))

-----------------------------------------------------------------------------
(* The three codecs, and the headers of body parts.                         *)

Packs(item) ==
  CASE codec = "mms" -> PacksMms(item) [] codec = "wsp" -> PacksWsp(item) [] OTHER -> TRUE

Pack(item) ==
  CASE codec = "mms" -> PackMms(item) [] codec = "wsp" -> PackWsp(item) [] OTHER -> PackHttp(item)

Unpack(w, from, end) ==
  CASE codec = "mms" -> UnpackMms(w, from, end)
    [] codec = "wsp" -> UnpackWsp(w, from, end)
    [] OTHER         -> UnpackHttp(w, from, end)

-----------------------------------------------------------------------------
(* mms_body_part, and the smil's part alike; mms_body.                       *)

PackPartOf(header, data) == PutVarInt(Len(header)) \o PutVarInt(Len(data)) \o header \o data

PartHeader(part) ==
  PackContentType(part.ct) \o FlattenSeq([i \in DOMAIN part.items |-> PackWsp(part.items[i])])

PackPart(part) == PackPartOf(PartHeader(part), part.data)

(* Nothing, not a 0, for no parts.                                         *)
PackBody(parts) ==
  IF parts = <<>> THEN <<>>
  ELSE PutValueLength(Len(parts)) \o FlattenSeq([i \in DOMAIN parts |-> PackPart(parts[i])])

(* A turn of the loop over the items up to the limit; it moves on too.      *)
ItemsTurn(read, w, end) ==
  IF read.at >= end \/ (read.value # <<>> /\ Last(read.value) = Failed) THEN read
  ELSE Of(LAMBDA item : Append(read.value, item), UnpackWsp(w, read.at, end))

UnpackItems(w, from, end) ==
  LET turns == BytesLeft(from, end)
      after[i \in 0 .. turns] ==
        IF i = 0 THEN Read(<<>>, from) ELSE ItemsTurn(after[i - 1], w, end)
  IN  after[turns]

(* The data begin where the items ended, which is not made to be the limit. *)
UnpackPartOf(length, w, from, limit, end) ==
  Then(UnpackContentType(w, from, limit), LAMBDA ct, first :
    Then(UnpackItems(w, first, limit), LAMBDA items, next :
      Of(LAMBDA data : [ct |-> ct, items |-> items, data |-> data], GetData(w, next, end, length))))

UnpackPart(w, from, end) ==
  Then(GetVarInt(w, from, end), LAMBDA header, next :
    Then(GetVarInt(w, next, end), LAMBDA length, first :
      UnpackPartOf(length, w, first, Limit(w, first + header, end), end)))

(* count parts, or up to the end of the bytes.                              *)
PartsTurn(read, w) ==
  IF read.at >= Len(w) THEN read
  ELSE Of(LAMBDA part : Append(read.value, part), UnpackPart(w, read.at, Len(w)))

UnpackParts(count, w, from) ==
  LET turns == IF count < BytesLeft(from, Len(w)) THEN count ELSE BytesLeft(from, Len(w))
      after[i \in 0 .. turns] ==
        IF i = 0 THEN Read(<<>>, from) ELSE PartsTurn(after[i - 1], w)
  IN  after[turns]

(* The number of parts is read as a variable length integer.                *)
UnpackBody(w, from) ==
  Then(GetVarInt(w, from, Len(w)), LAMBDA count, next : UnpackParts(count, w, next))

Body(parts) == [type |-> "body", parts |-> parts]

-----------------------------------------------------------------------------
(* Packing, then unpacking.                                                *)

ContentType == MmsNames[ContentTypeId]

CodecInit ==
  /\ codec \in DOMAIN Items /\ stage = "pack"
  /\ wire = <<>> /\ at = 0 /\ sent = <<>> /\ ends = <<>> /\ received = <<>>

(* One item behind the others.                                             *)
PackItem(item) ==
  /\ stage = "pack" /\ Len(sent) < MaxItems
  /\ IF Packs(item)
     THEN /\ wire' = wire \o Pack(item)
          /\ sent' = Append(sent, item) /\ ends' = Append(ends, Len(wire'))
          /\ UNCHANGED stage
     ELSE stage' = "aborted" /\ UNCHANGED <<wire, sent, ends>>
  /\ UNCHANGED <<codec, at, received>>

(* The content type of a message, the last item, and the body.              *)
PackMessage(ct, parts) ==
  LET item == DataItem(ContentType, ct)
  IN  /\ stage = "pack" /\ codec = "mms" /\ stage' = "unpack"
      /\ wire' = wire \o PackMms(item) \o PackBody(parts)
      /\ sent' = sent \o <<item, Body(parts)>>
      /\ ends' = ends \o <<Len(wire \o PackMms(item)), Len(wire')>>
      /\ UNCHANGED <<codec, at, received>>

(* A header alone.                                                         *)
Close ==
  /\ stage = "pack" /\ codec # "mms" /\ stage' = "unpack"
  /\ UNCHANGED <<codec, wire, at, sent, ends, received>>

AtContentType ==
  codec = "mms" /\ received # <<>> /\ Last(received).name = ContentType

UnpackItem ==
  /\ stage = "unpack" /\ at < Len(wire) /\ ~AtContentType
  /\ \E item \in {Unpack(wire, at, Len(wire))} :
       /\ at' = item.at
       /\ IF item.value = Failed \/ (item.value.type = "data" /\ item.value.ct = Failed)
          THEN stage' = "aborted" /\ UNCHANGED received
          ELSE IF item.value = Nothing THEN stage' = "read" /\ UNCHANGED received
          ELSE received' = Append(received, item.value) /\ UNCHANGED stage
  /\ UNCHANGED <<codec, wire, sent, ends>>

(* The end of a header alone.                                              *)
EndItems ==
  /\ stage = "unpack" /\ at >= Len(wire) /\ ~AtContentType
  /\ stage' = "read"
  /\ UNCHANGED <<codec, wire, at, sent, ends, received>>

(* The body behind the content type.                                       *)
UnpackMessage ==
  /\ stage = "unpack" /\ AtContentType
  /\ \E body \in {UnpackBody(wire, at)} :
       /\ at' = body.at
       /\ IF \E part \in Range(body.value) : part.ct = Failed \/ Failed \in Range(part.items)
          THEN stage' = "aborted" /\ UNCHANGED received
          ELSE stage' = "read" /\ received' = Append(received, Body(body.value))
  /\ UNCHANGED <<codec, wire, sent, ends>>

CodecNext ==
  \/ \E item \in Items[codec] : PackItem(item)
  \/ \E m \in Messages : PackMessage(m.ct, m.parts)
  \/ Close \/ UnpackItem \/ EndItems \/ UnpackMessage

CodecSpec == CodecInit /\ [][CodecNext]_codecVars

-----------------------------------------------------------------------------
(* What can be read again, as the properties suppose of all that is packed.  *)

Octets     == 0 .. 255
Characters == 1 .. 255       \* Octets of a text.
MaxText    == 4096 * 4096    \* Length of a text.
MaxPart    == 16384 * 16384  \* Of a part's header, and of its data: 2^28.
MaxCharset == 32767 * 65536 + 65535

IsList(list)     == list \in Seq(Range(list))
IsText(t)        == t \in Seq(Characters) /\ Len(t) < MaxText
Begins(t, first) == t # <<>> /\ t[1] \in first
IsName(t)        == IsText(t) /\ Begins(t, 32 .. 127)
IsLong(d)        == /\ d \in Seq(Octets) /\ Len(d) <= 4
                    /\ d # <<>> => d[1] # 0
                    /\ Len(d) = 4 => d[1] < 128
IsCharset(c)     == c \in Nat /\ c <= MaxCharset /\ c # 128

HasText(item) == item = StringItem(item.name, item.text) /\ IsText(item.text)
HasLong(item) == item = LongItem(item.name, item.long) /\ IsLong(item.long)
HasChar(item) == HasLong(item) /\ Len(item.long) <= 1
HasTime(item) ==
  item = TimeItem(item.name, item.token, item.time) /\ item.token \in Octets /\ IsLong(item.time)
HasEncoded(item) ==
  /\ item = EncodedItem(item.name, item.text, item.charset)
  /\ IsText(item.text) /\ IsCharset(item.charset)

(* A reader takes an octet below 32 in front for a value length.             *)
IsAddress(item) ==
  \/ item.type = "string" /\ HasText(item) /\ Begins(item.text, 32 .. 255)
  \/ item.type = "encoded" /\ HasEncoded(item) /\ (item.charset = 0 => Begins(item.text, 32 .. 255))

CanReadMms(item) ==
  LET id == IdOf(MmsNames, item.name)
  IN  \/ item.type = "string" /\ HasText(item)
           /\ \/ id < 0 /\ IsName(item.name)
              \/ id \in Strings
              \/ id = ClassId /\ Begins(item.text, 1 .. 127)
              \/ id \in Statuses /\ Begins(item.text, 32 .. 127)
      \/ id \in Encodeds \union {FromId} /\ IsAddress(item)
      \/ id \in Times /\ item.type = "time" /\ HasTime(item)
      \/ item.type = "long"
           /\ \/ id \in Longs /\ HasLong(item)
              \/ id \in Chars /\ HasChar(item)
              \/ id = FromId /\ HasChar(item) /\ Low(item.long) # AddressPresent
              \/ id = ClassId /\ HasChar(item) /\ Low(item.long) >= 128
              \/ id = VersionId /\ HasChar(item) /\ Low(item.long) < 128

CanReadWsp(item) ==
  LET id == IdOf(WspNames, item.name)
  IN  \/ item.type = "string" /\ HasText(item)
           /\ \/ IsName(item.name) /\ (id < 0 \/ item.name = WspContentId)
              \/ id \in WspTexts
              \/ id >= 0 /\ item.name # WspContentType /\ Begins(item.text, 32 .. 127)
      \/ item.type = "long" /\ HasLong(item) /\ id >= 0 /\ id \notin WspTexts
           /\ item.name \notin {WspContentType, WspContentId}

CanReadHttp(item) ==
  /\ IsText(item.name) /\ Begins(item.name, 1 .. 255 \ Spaces) /\ Colon \notin Range(item.name)
  /\ \/ /\ item.type = "string" /\ HasText(item) /\ Newline \notin Range(item.text)
        /\ item.text # <<>> => Begins(item.text, 1 .. 255 \ Spaces)
     \/ item.type = "long" /\ HasLong(item)

CanRead(items) ==
  \A c \in DOMAIN items : \A item \in items[c] :
    CASE c = "mms" -> CanReadMms(item) [] c = "wsp" -> CanReadWsp(item) [] OTHER -> CanReadHttp(item)

IsContentType(ct) ==
  /\ ct = [ContentTypeNamed(ct.name) EXCEPT !.type = ct.type, !.param = ct.param,
                                            !.filename = ct.filename, !.start = ct.start]
  /\ IsName(ct.name)
  /\ ct.type # <<>> => IsName(ct.type)
  /\ ct.filename # <<>> => IsName(ct.filename)
  /\ IsText(ct.param) /\ IsText(ct.start)

IsPart(part) ==
  /\ part = [ct |-> part.ct, items |-> part.items, data |-> part.data]
  /\ IsContentType(part.ct)
  /\ IsList(part.items)
  /\ \A i \in DOMAIN part.items : part.items[i].name = WspContentType \/ CanReadWsp(part.items[i])
  /\ Len(PartHeader(part)) < MaxPart
  /\ part.data \in Seq(Octets) /\ Len(part.data) < MaxPart

CanReadMessages(messages) ==
  \A m \in messages :
    /\ IsContentType(m.ct)
    /\ IsList(m.parts) /\ Len(m.parts) <= 30
    /\ \A i \in DOMAIN m.parts : IsPart(m.parts[i])

-----------------------------------------------------------------------------
(* Properties.                                                             *)

(* No mms_assert of a packer or an unpacker fails: what one of them leaves   *)
(* out as impossible, the other does not write.                             *)
NeverAborts == stage # "aborted"

(* Behind every item the unpacker stands where the packer stood, so that no   *)
(* item is read from the middle of a value; no mms_assert of it fails; and   *)
(* when it stops, everything has been read.                                  *)
InStep ==
  /\ stage # "aborted"
  /\ received # <<>> => at = ends[Len(received)]
  /\ stage = "read" => Len(received) = Len(sent) /\ at = Len(wire)

(* Every value length in an item says how many bytes follow, to the byte     *)
(* (the unpackers here look for the end of some of these values themselves, *)
(* those of others need not).                                               *)
Fills(bytes, from) ==
  LET length == GetValueLength(bytes, from, Len(bytes)) IN length.at + length.value = Len(bytes)

LengthsTrue ==
  codec = "mms" =>
  \A i \in DOMAIN sent :
    LET id    == IF sent[i].type = "body" THEN -1 ELSE IdOf(MmsNames, sent[i].name)
        bytes == SubSeq(wire, IF i = 1 THEN 1 ELSE ends[i - 1] + 1, ends[i])
        inner == GetValueLength(bytes, 1, Len(bytes)).at + 1
    IN  /\ (id \in Times \union {FromId} \/ (id \in Encodeds \union {ContentTypeId}
                                              /\ IsValueLength(bytes, 1, Len(bytes))))
              => Fills(bytes, 1)
        /\ (id = FromId /\ sent[i].type = "encoded" /\ sent[i].charset # 0) => Fills(bytes, inner)

(* What an item says: a text of charset 0 has none; the file name of a       *)
(* content type is packed and not unpacked; the headers of a part hold its   *)
(* content type, which is packed before them; HTTP's numbers become texts.   *)
WithoutFilename(ct) == [ct EXCEPT !.filename = <<>>]

Kept(item) == IF item.name = WspContentType THEN <<>> ELSE <<item>>

PartMeans(part) ==
  [part EXCEPT !.ct    = WithoutFilename(part.ct),
               !.items = FlattenSeq([i \in DOMAIN part.items |-> Kept(part.items[i])])]

Means(item) ==
  CASE item.type = "encoded" /\ item.charset = 0 -> StringItem(item.name, item.text)
    [] item.type = "long" /\ codec = "http" -> StringItem(item.name, Decimal(item.long))
    [] item.type = "data" -> [item EXCEPT !.ct = WithoutFilename(item.ct)]
    [] item.type = "body" -> Body([i \in DOMAIN item.parts |-> PartMeans(item.parts[i])])
    [] OTHER              -> item

(* The codecs are a channel: what is unpacked is what was packed, item by   *)
(* item, the parts of a body with their headers and data among them.         *)
Channel == INSTANCE ItemChannel WITH
  sent     <- [i \in DOMAIN sent |-> Means(sent[i])],
  received <- [i \in DOMAIN received |-> Means(received[i])]

ImplementsChannel == Channel!Spec

=============================================================================
