------------------------------- MODULE MmsSmil -------------------------------
(***************************************************************************)
(* The SMIL of a message (mms_smil.c): a title, a screen, regions and pars *)
(* edited by calls, written as an XML document (mms_smil_dump_xml) and     *)
(* read back by handlers of the XML parser's start of element.             *)
(*                                                                         *)
(* A document is a sequence of elements with their attributes in order, as *)
(* expat calls the handlers with them: name, value, name, value.  A text   *)
(* or a number with an optional percent sign is one token of them.  Line   *)
(* lengths, strncpy's limits and the metas nobody reads are left out.      *)
(***************************************************************************)
EXTENDS Integers, Sequences, FiniteSets, SequencesExt

CONSTANTS
  Titles,       (* What the title may be set to.                             *)
  RegionNames,  (* Names of regions, as spelled.                             *)
  Fold,         (* What strcasecmp makes of them.                            *)
  Boxes,        (* Places of regions: [x, y, width, height].                 *)
  Screens,      (* Sizes for the root layout: [width, height].               *)
  Durations,
  Files,        (* File names without a directory.                           *)
  Cids,         (* Sources that begin with "cid:".                           *)
  Marked,       (* Texts with a character that XML wants escaped.            *)
  Documents,    (* Received ones: [elements, names], see Receive.            *)
  MaxPars,      (* Bound: pars.                                              *)
  MaxEdits,     (* Bound: edits in a behaviour.                              *)
  Received      (* What they show: that of Presentation.                     *)

Slots == {"img", "audio", "text"}
Media == Slots \cup {"Img", "Audio", "Text"}   \* As g_element_handlers spells them.
SlotOf(el) == CASE el = "Img" -> "img" [] el = "Audio" -> "audio" [] el = "Text" -> "text" [] OTHER -> el

Empty == ""
Percent == 65536
SmilToPercent(n) == IF (n \div Percent) % 2 = 1 THEN n ELSE n + Percent
SmilFromPercent(n) == n % Percent
SmilIsPercent(n) == n < 0 \/ n >= Percent

Sizes == 0 .. 2 * Percent - 1
Layouts == [x: Sizes, y: Sizes, width: Sizes, height: Sizes]

ASSUME SmilAssumption ==
  /\ Empty \in Titles /\ {MaxPars, MaxEdits} \subseteq Nat
  /\ Titles \cup RegionNames \cup Files \cup Cids \subseteq STRING
  /\ Fold \in [RegionNames -> RegionNames]
  /\ Files \cap Cids = {} /\ Empty \notin Files \cup Cids
  /\ Boxes \subseteq Layouts
  /\ Screens \subseteq [width: Nat, height: Nat]
  /\ Durations \subseteq Nat

VARIABLES
  smil,      (* [title, root, regions, pars], see NewSmil.                    *)
  document,  (* What mms_smil_dump_xml wrote last, <<>> if nothing.           *)
  crashed,   (* A handler read past its attributes.                          *)
  edits,     (* Edits made.                                                  *)
  written    (* History: what the SMIL showed when it was written, or <<>>.  *)

vars == <<smil, document, crashed, edits, written>>

Screen0 == [width |-> 0, height |-> 0]
NoFile  == [filename |-> Empty, region |-> Empty, cid |-> Empty]   \* no cid: not cid_exist.
NewPar(d) == [duration |-> d, file |-> [s \in Slots |-> NoFile]]

(* mms_smil_create.                                                        *)
NewSmil == [title |-> Empty, root |-> Screen0, regions |-> <<>>, pars |-> <<>>]

-----------------------------------------------------------------------------
(* Tokens, elements and attributes.                                        *)

Text(t)   == [t |-> t, n |-> 0, p |-> FALSE]
Number(n) == [t |-> Empty, n |-> n, p |-> FALSE]

(* mms_smil_format_size and mms_smil_scanf_size.                           *)
FormatSize(n) == [t |-> Empty, n |-> IF SmilIsPercent(n) THEN SmilFromPercent(n) ELSE n,
                  p |-> SmilIsPercent(n)]

ScanfSize(a) == IF a.p THEN SmilToPercent(a.n) ELSE a.n

Element(el, atts) == [el |-> el, atts |-> atts]

Tokens   == [t: STRING, n: Nat, p: BOOLEAN]
Elements == [el: STRING, atts: Seq(Tokens)]

(* The positions at which a handler that knows "keys" finds one of them: it  *)
(* looks past the value of a name it knows, else one further, on a value too. *)
Visits(atts, keys) ==
  LET known[i \in 1 .. Len(atts)] == atts[i].t \in keys /\ (i = 1 \/ ~ known[i - 1])
  IN  {i \in 1 .. Len(atts) : known[i]}

(* The token after the last k found, or "absent".                          *)
Attribute(atts, keys, k, absent) ==
  LET at == {i \in Visits(atts, keys) : atts[i].t = k}
  IN  IF at = {} THEN absent ELSE atts[(CHOOSE i \in at : \A j \in at : j <= i) + 1]

RootKeys   == {"width", "height"}
RegionKeys == {"id", "left", "top", "width", "height"}
ParKeys    == {"duration", "dur"}
FileKeys   == {"region", "src"}

KeysOf(el) ==
  CASE el = "root-layout" -> RootKeys
    [] el = "region" -> RegionKeys
    [] el = "par" -> ParKeys
    [] el \in Media -> FileKeys
    [] OTHER -> {}

(* A name the handler knows comes last: it reads the NULL for its value.    *)
ReadsPast(e) == Len(e.atts) \in Visits(e.atts, KeysOf(e.el))

(* A meta has a name and a content; a region's sizes keep off the percent bit. *)
WellFormed(e) ==
  /\ ~ ReadsPast(e)
  /\ e.el = "meta" => Len(e.atts) >= 4
  /\ e.el = "region" => \A k \in DOMAIN e.atts : e.atts[k].n < Percent

(* The words of the language are texts: true of any literal, and taken as a  *)
(* fact because the provers do not know it of one.                          *)
Words == {"meta", "root-layout", "region", "par", "name", "title", "content", "id"}
           \cup Slots \cup RegionKeys \cup ParKeys \cup FileKeys

ASSUME WordsAssumption == Words \subseteq STRING

(* No part is named as a cid is.                                           *)
ASSUME DocumentsAssumption ==
  \A d \in Documents :
    /\ d.elements \in Seq(Elements) /\ \A i \in DOMAIN d.elements : WellFormed(d.elements[i])
    /\ \A c \in DOMAIN d.names : d.names[c] \in STRING \ Cids

-----------------------------------------------------------------------------
(* Writing: mms_smil_dump_xml.                                             *)

RegionToXml(r) ==
  Element("region", <<Text("id"), Text(r.name),
                      Text("height"), FormatSize(r.box.height), Text("width"), FormatSize(r.box.width),
                      Text("left"), FormatSize(r.box.x), Text("top"), FormatSize(r.box.y)>>)

FileToXml(s, f) ==
  IF f.filename = Empty THEN <<>>
  ELSE <<Element(s, <<Text("region"), Text(f.region), Text("src"), Text(f.filename)>>)>>

ParToXml(p) ==
  <<Element("par", <<Text("dur"), Number(p.duration)>>)>>
    \o FileToXml("img", p.file["img"]) \o FileToXml("audio", p.file["audio"])
    \o FileToXml("text", p.file["text"])

RootLayout(s) ==
  LET full == s.root.width = 0 \/ s.root.height = 0
      size(n) == IF full THEN [Number(100) EXCEPT !.p = TRUE] ELSE Number(n)
  IN  Element("root-layout", <<Text("width"), size(s.root.width), Text("height"), size(s.root.height),
                               Text("title"), Text(s.title)>>)

DumpXml(s) ==
  <<Element("meta", <<Text("name"), Text("title"), Text("content"), Text(s.title)>>), RootLayout(s)>>
    \o [i \in DOMAIN s.regions |-> RegionToXml(s.regions[i])]
    \o FlattenSeq([i \in DOMAIN s.pars |-> ParToXml(s.pars[i])])

-----------------------------------------------------------------------------
(* Reading: the handlers.                                                  *)

(* altered: the name is compared as spelled.                                *)
AddRegionAsSpelled(s, name, box) ==
  LET at == {i \in DOMAIN s.regions : s.regions[i].name = name}
  IN  IF at = {} THEN [s EXCEPT !.regions = Append(@, [name |-> name, box |-> box])]
      ELSE [s EXCEPT !.regions[CHOOSE i \in at : \A j \in at : i <= j].box = box]

(* mms_smil_add_region: the first region of that name moves, and keeps the  *)
(* spelling it has.                                                         *)
AddRegion(s, name, box) ==
  LET at == {i \in DOMAIN s.regions : Fold[s.regions[i].name] = Fold[name]}
  IN  IF at = {} THEN [s EXCEPT !.regions = Append(@, [name |-> name, box |-> box])]
      ELSE [s EXCEPT !.regions[CHOOSE i \in at : \A j \in at : i <= j].box = box]

OnMeta(s, a) == IF a[2].t = "title" THEN [s EXCEPT !.title = a[4].t] ELSE s

(* sscanf of "%d": a percent sign is not looked at.                         *)
OnRootLayout(s, a) ==
  LET was(n) == Number(n)
  IN  [s EXCEPT !.root = [width |-> Attribute(a, RootKeys, "width", was(@.width)).n,
                          height |-> Attribute(a, RootKeys, "height", was(@.height)).n]]

OnRegion(s, a) ==
  LET size(k) == ScanfSize(Attribute(a, RegionKeys, k, Number(0)))
  IN  AddRegion(s, Attribute(a, RegionKeys, "id", Text(Empty)).t,
                [x |-> size("left"), y |-> size("top"), width |-> size("width"), height |-> size("height")])

OnPar(s, a) ==
  LET at == Visits(a, ParKeys)
      d  == IF at = {} THEN 0 ELSE a[(CHOOSE i \in at : \A j \in at : j <= i) + 1].n
  IN  [s EXCEPT !.pars = Append(@, NewPar(d))]

(* mms_smil_get_filename: a cid leaves the file name as it was.             *)
GetFilename(f, src) ==
  IF src \in Cids THEN [f EXCEPT !.cid = src] ELSE [f EXCEPT !.filename = src, !.cid = Empty]

(* What an element with these attributes makes of a file, an empty source   *)
(* among them; audio keeps a cid as its file name too, until it is resolved. *)
FileFrom(f, slot, a) ==
  LET src == Attribute(a, FileKeys, "src", Text(Empty)).t
      g   == [f EXCEPT !.region = Attribute(a, FileKeys, "region", Text(@)).t]
      h   == IF slot = "audio" THEN [g EXCEPT !.filename = src] ELSE g
  IN  IF \E i \in Visits(a, FileKeys) : a[i].t = "src" THEN GetFilename(h, src) ELSE g

(* altered: the elements of a slide go to the first par.                    *)
OnFileOfFirst(s, slot, a) ==
  IF s.pars = <<>> THEN s ELSE [s EXCEPT !.pars[1].file[slot] = FileFrom(@, slot, a)]

(* mms_smil_on_image, _text and _audio, on the last par.                   *)
OnFile(s, slot, a) ==
  IF s.pars = <<>> THEN s ELSE [s EXCEPT !.pars[Len(s.pars)].file[slot] = FileFrom(@, slot, a)]

OnStart(s, e) ==
  CASE e.el = "meta" -> OnMeta(s, e.atts)
    [] e.el = "root-layout" -> OnRootLayout(s, e.atts)
    [] e.el = "region" -> OnRegion(s, e.atts)
    [] e.el = "par" -> OnPar(s, e.atts)
    [] e.el \in Media -> OnFile(s, SlotOf(e.el), e.atts)
    [] OTHER -> s

(* What the parser reports of a document: the elements up to the first with *)
(* a text that was written without the escapes XML wants.                   *)
Parsed(elements) ==
  LET bad == {i \in DOMAIN elements : \E k \in DOMAIN elements[i].atts : elements[i].atts[k].t \in Marked}
  IN  IF bad = {} THEN elements
      ELSE SubSeq(elements, 1, (CHOOSE i \in bad : \A j \in bad : i <= j) - 1)

Crashes(elements) == \E i \in DOMAIN elements : ReadsPast(elements[i])

(* mms_smil_unpack into s: the parser calls a handler for each element.     *)
Unpacked(s, elements) ==
  LET after[i \in 0 .. Len(elements)] == IF i = 0 THEN s ELSE OnStart(after[i - 1], elements[i])
  IN  after[Len(elements)]

(* mms_smil_fix_filename_by_cid, for every part of the message.             *)
Named(f, names) == IF f.cid \in DOMAIN names THEN [f EXCEPT !.filename = names[f.cid]] ELSE f

ParNamed(p, names) == [p EXCEPT !.file = [slot \in Slots |-> Named(p.file[slot], names)]]

FixFilenames(s, names) ==
  [s EXCEPT !.pars = [i \in DOMAIN s.pars |-> ParNamed(s.pars[i], names)]]

(* What a SMIL shows: of a par the files by slot, of a region its place.    *)
RegionsOf(s) ==
  [n \in {Fold[r] : r \in RegionNames} |->
     LET at == {i \in DOMAIN s.regions : Fold[s.regions[i].name] = n}
     IN  IF at = {} THEN [x |-> 0] ELSE s.regions[CHOOSE i \in at : TRUE].box]

NotShown == [file |-> Empty, region |-> Empty]

SlideOf(p) ==
  [duration |-> p.duration,
   shown |-> [slot \in Slots |->
                IF p.file[slot].filename = Empty THEN NotShown
                ELSE [file |-> p.file[slot].filename, region |-> p.file[slot].region]]]

SlidesOf(s) == [i \in DOMAIN s.pars |-> SlideOf(s.pars[i])]

ViewOf(s) == [title |-> s.title, regions |-> RegionsOf(s), slides |-> SlidesOf(s)]

(* A received SMIL, its names fixed.                                        *)
ReceivedSmil(d) == FixFilenames(Unpacked(NewSmil, d.elements), d.names)

ASSUME ReceivedAssumption == \A d \in Documents : ViewOf(ReceivedSmil(d)) \in Received

-----------------------------------------------------------------------------
Init == smil = NewSmil /\ document = <<>> /\ crashed = FALSE /\ edits = 0 /\ written = <<>>

SetTitle == smil' \in {[smil EXCEPT !.title = t] : t \in Titles}

SetRootRegion == smil' \in {[smil EXCEPT !.root = r] : r \in Screens}

PlaceRegion == smil' \in {AddRegion(smil, n, b) : n \in RegionNames, b \in Boxes}

AddPar ==
  /\ Len(smil.pars) < MaxPars
  /\ smil' \in {[smil EXCEPT !.pars = Append(@, NewPar(d))] : d \in Durations}

ErasePar == smil' \in {[smil EXCEPT !.pars = RemoveAt(@, i)] : i \in DOMAIN smil.pars}

ParSetDuration ==
  smil' \in {[smil EXCEPT !.pars[i].duration = d] : i \in DOMAIN smil.pars, d \in Durations}

(* mms_smil_par_set_audio, _image and _text with a region; the cid stays.   *)
SetFile(f, filename, region) == [f EXCEPT !.filename = filename, !.region = region]

ParSetFile ==
  smil' \in {[smil EXCEPT !.pars[i].file[s] = SetFile(@, f, r)] :
               i \in DOMAIN smil.pars, s \in Slots, f \in Files, r \in RegionNames}

Edit ==
  /\ edits < MaxEdits /\ edits' = edits + 1
  /\ SetTitle \/ SetRootRegion \/ PlaceRegion \/ AddPar \/ ErasePar \/ ParSetDuration \/ ParSetFile
  /\ UNCHANGED <<document, crashed, written>>

(* mms_smil_pack.                                                          *)
Pack ==
  /\ document' = DumpXml(smil)
  /\ written' = <<ViewOf(smil)>>
  /\ UNCHANGED <<smil, crashed, edits>>

(* mms_smil_unpack, into a new SMIL or into the one at hand.                *)
Unpack(s) ==
  /\ document # <<>>
  /\ Len(s.pars) + Cardinality({i \in DOMAIN document : document[i].el = "par"}) <= MaxPars
  /\ LET elements == Parsed(document)
     IN  IF Crashes(elements)
           THEN crashed' = TRUE /\ UNCHANGED smil
           ELSE smil' = Unpacked(s, elements) /\ UNCHANGED crashed
  /\ UNCHANGED <<document, edits, written>>

(* mms_body_unpack of a received message: its SMIL, with the escapes of XML  *)
(* undone, then the names of the parts its cids stand for.                  *)
Receive ==
  /\ smil' \in {ReceivedSmil(d) : d \in Documents}
  /\ UNCHANGED <<document, crashed, edits, written>>

Next == ~crashed /\ (Edit \/ Pack \/ Unpack(NewSmil) \/ Unpack(smil) \/ Receive)

Spec == Init /\ [][Next]_vars

-----------------------------------------------------------------------------
(* Properties.                                                             *)

(* Regions that only differ in case are one: a lookup finds the only one,   *)
(* though received documents spell them with capitals and the library does  *)
(* not.                                                                    *)
OneRegionPerName ==
  \A i, j \in DOMAIN smil.regions :
    Fold[smil.regions[i].name] = Fold[smil.regions[j].name] => i = j

(* Saving loses nothing, and reading what was saved gives what was saved:   *)
(* title, places and slides, whatever was edited, received, opened or saved *)
(* before; opening into a SMIL at hand adds to it.  The size of the screen  *)
(* is not in it: none set is written as 100%, and read as 100 pixels.        *)
Saved == INSTANCE Presentation WITH
  title <- smil.title, regions <- RegionsOf(smil), slides <- SlidesOf(smil),
  saved <- written, RegionNames <- {Fold[r] : r \in RegionNames},
  Slides <- [duration: Nat, shown: [Slots -> [file: STRING, region: STRING]]]

ImplementsPresentation == Saved!Spec

=============================================================================
