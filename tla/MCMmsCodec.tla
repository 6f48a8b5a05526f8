------------------------------ MODULE MCMmsCodec ------------------------------
(***************************************************************************)
(* MmsCodec for TLC: items of every kind, with the numbers, charsets and   *)
(* lengths at which an encoding changes.                                   *)
(***************************************************************************)
EXTENDS MmsCodec

Letters(n) == [i \in 1 .. n |-> 97]

(* The value length of a text goes from one byte to two between 28 and 29.  *)
Texts    == {<<97, 200>>, Letters(28), Letters(29)}
Numbers  == {<<>>, <<1>>, <<127>>, <<128>>, <<1, 0>>, <<127, 255, 255, 255>>}
Charsets == {0, 3, 106, 127, 129, 255, 256, 65535, 65536, 1048575, 1048576}
Unknown  == <<120, 45>>

Each(names, ids, Item(_, _), values) == {Item(names[id], v) : id \in ids, v \in values}

MmsItems ==
  UNION {
    Each(MmsNames, {5}, LongItem, Numbers),
    Each(MmsNames, {12, 10, 15}, LongItem, {<<128>>, <<132>>}),
    Each(MmsNames, {24, 10, 26, 9}, StringItem, Texts),
    Each(MmsNames, {23}, StringItem, Texts \union {<<200, 97>>}),
    {EncodedItem(MmsNames[23], t, 106) : t \in Texts},
    {EncodedItem(MmsNames[22], <<200>>, c) : c \in Charsets},
    {EncodedItem(MmsNames[9], t, c) : t \in Texts, c \in {3, 1048576}},
    Each(MmsNames, {9}, LongItem, {<<129>>}),
    {TimeItem(MmsNames[8], token, n) : token \in {128, 129}, n \in Numbers},
    Each(MmsNames, {13}, LongItem, {<<17>>}),
    {StringItem(Unknown, <<97>>)} }

WspItems ==
  UNION {
    Each(WspNames, {14, 64, 18, 19}, StringItem, {<<97, 200>>}),
    Each(WspNames, {18, 5}, LongItem, Numbers),
    {StringItem(Unknown, <<97>>)} }

HttpItems ==
  {StringItem(Unknown, t) : t \in {<<>>, <<97>>, <<97, 32, 58, 97>>}}
    \union {LongItem(Unknown, n) : n \in {<<>>, <<9>>, <<1, 0>>}}

MCItems == [mms |-> MmsItems, wsp |-> WspItems, http |-> HttpItems]

Related == [ContentTypeNamed(MediaNames[51]) EXCEPT !.type = MediaNames[3], !.start = <<60, 97>>]
Other   == [ContentTypeNamed(Unknown) EXCEPT !.type = Unknown, !.filename = <<98>>]
Plain   == ContentTypeNamed(MediaNames[3])

Part(ct, items, data) == [ct |-> ct, items |-> items, data |-> data]
Text    == Part([Plain EXCEPT !.param = <<97>>], <<StringItem(WspNames[14], <<97>>)>>, <<0, 31, 200>>)
Empty   == Part(ContentTypeNamed(Unknown), <<>>, <<>>)
(* A header and data of more than 127 bytes; their lengths take two.         *)
Long    == Part([Plain EXCEPT !.param = Letters(60)],
                <<StringItem(WspNames[64], <<60>> \o Letters(60)), DataItem(WspNames[17], Plain),
                  StringItem(Unknown, <<97>>)>>, Letters(128))

ASSUME MCHeaderTakesTwo == Len(PartHeader(Long)) > 127

Message(ct, parts) == [ct |-> ct, parts |-> parts]

MCMessages ==
  { Message(Plain, <<>>), Message(ContentTypeNamed(Unknown), <<Empty>>),
    Message(Other, <<Long, Empty>>), Message(Related, [i \in 1 .. 30 |-> Part(Plain, <<>>, <<>>)]) }

ASSUME MCCanRead == CanRead(MCItems) /\ CanReadMessages(MCMessages)

StatusAgain   == [mms |-> Each(MmsNames, {25}, LongItem, {<<128>>})]

=============================================================================
