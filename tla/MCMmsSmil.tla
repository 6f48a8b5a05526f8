----------------------------- MODULE MCMmsSmil -----------------------------
(***************************************************************************)
(* Instances of MmsSmil for TLC.                                           *)
(***************************************************************************)
EXTENDS MmsSmil

MCTitles      == {"", "t"}
MCRegionNames == {"image", "Image"}
MCFold        == [r \in MCRegionNames |-> IF r = "Image" THEN "image" ELSE r]
Box(x, y, w, h) == [x |-> x, y |-> y, width |-> w, height |-> h]
(* All of the width in percent, and pixels up to the largest that are.      *)
MCBoxes       == {Box(0, Percent, Percent + 100, Percent + 20), Box(65535, 1, 2, 3)}
MCScreens     == {[width |-> 240, height |-> 320]}
MCCids        == {"cid:a", "cid:b", "cid:c"}

(* A document another program wrote: its own order of attributes, some that *)
(* no handler knows, a region with a capital, an element no handler knows,  *)
(* an image by cid and with a capital, a text of a file, then of none, then *)
(* by cid with no part, a sound by cid with no part, a slide before any par. *)
Foreign == <<
  Element("img", <<Text("src"), Text("f")>>),
  Element("meta", <<Text("name"), Text("title"), Text("content"), Text("t")>>),
  Element("root-layout", <<Text("background-color"), Text("white"),
                           Text("height"), Number(226), Text("width"), Number(229)>>),
  Element("region", <<Text("id"), Text("Image"), Text("left"), FormatSize(0), Text("top"), FormatSize(Percent),
                      Text("width"), FormatSize(Percent + 100), Text("height"), FormatSize(Percent + 20),
                      Text("fit"), Text("meet")>>),
  Element("transition", <<Text("id"), Text("x")>>),
  Element("par", <<Text("duration"), Number(1)>>),
  Element("Img", <<Text("alt"), Text("picture"), Text("src"), Text("cid:a"), Text("region"), Text("Image")>>),
  Element("text", <<Text("src"), Text("f")>>),
  Element("Text", <<Text("src"), Text("")>>),
  Element("text", <<Text("src"), Text("cid:b"), Text("region"), Text("image")>>),
  Element("audio", <<Text("src"), Text("cid:c"), Text("region"), Text("image")>>)
>>

MCDocuments == {[elements |-> Foreign, names |-> [c \in {"cid:a"} |-> "f"]]}

(* ... and what it shows, by hand.                                         *)
MCReceived ==
  {[title |-> "t",
    regions |-> [n \in {"image"} |-> Box(0, Percent, Percent + 100, Percent + 20)],
    slides |-> <<[duration |-> 1,
                  shown |-> [s \in Slots |->
                     CASE s = "img"   -> [file |-> "f", region |-> "Image"]
                       [] s = "audio" -> [file |-> "cid:c", region |-> "image"]
                       [] s = "text"  -> NotShown]]>>]}

=============================================================================
