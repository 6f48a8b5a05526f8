------------------------------ MODULE MmsCompose ------------------------------
(***************************************************************************)
(* A message being composed or edited (mms.c), made of its two halves: the    *)
(* slides, the pars of its SMIL, which show body parts by file name        *)
(* (mms_smil.c), and the list of body parts, which are found by any of the *)
(* names they answer to (mms_body.c, mms_body_part.c).  One part serves    *)
(* every par that shows its name, and what no par shows is an attachment;  *)
(* nothing but names ties the two halves together.                         *)
(*                                                                         *)
(* A received message enters with its parts and its SMIL as a document.    *)
(* Regions, durations and the MMS header are left out: no operation on     *)
(* them reads or changes what is here.  Return codes are left out too: a   *)
(* call that fails is the alternative that shows or adds nothing.          *)
(***************************************************************************)
EXTENDS Integers, Sequences, FiniteSets, SequencesExt

CONSTANTS
  Names,        (* What parts are called; only a received part may be called  *)
                (* something with a directory.                               *)
  Paths,        (* What the application passes as a filename.                *)
  FileName,     (* mms_get_file_name, as a function.                         *)
  Files,        (* Paths of files that can be read and are not empty.        *)
  Generated,    (* Names mms_par_set_text_buffer makes up, in order.         *)
  Cids,         (* Content-IDs as a src spells them, "cid:...".              *)
  Documents,    (* Received messages, see Received.                          *)
  MaxPars       (* Bound: pars of a message.                                 *)

Slots == {"text", "image", "audio"}

ASSUME ComposeAssumption ==
  /\ "" \notin Names /\ Range(Generated) \subseteq Names
  /\ Files \subseteq Paths
  /\ Cids \cap (Names \cup Paths \cup {""}) = {}
  /\ FileName \in [Paths \cup Names \cup Cids \cup {""} -> Names \cup Cids \cup {""}]
  /\ \A n \in Range(Generated) \cup Cids \cup {""} : FileName[n] = n
  /\ \A p \in Paths : /\ FileName[p] \notin Range(Generated) \cup Cids
                      /\ FileName[FileName[p]] = FileName[p]
  /\ \A f \in Files : FileName[f] # ""
  /\ Generated \in Seq(Names)
  /\ \A i, j \in DOMAIN Generated : Generated[i] = Generated[j] => i = j
  /\ \A doc \in Documents : /\ doc.parts \in Seq(Range(doc.parts))
                           /\ doc.pars \in Seq(Range(doc.pars))
  /\ MaxPars \in Nat

VARIABLES
  phase,      (* "none", "live", or "aborted" with the process.               *)
  pars,       (* Of each par the file name of each slot, "" for none.        *)
  parts,      (* Body parts: [name, keys, cid, path].                        *)
  texts,      (* Names of Generated in use or used up.                       *)
  (* History, read by the properties only. *)
  attached    (* Names the application attached, not erased or shown since.  *)

vars == <<phase, pars, parts, texts, attached>>

EmptyPar == [s \in Slots |-> ""]

-----------------------------------------------------------------------------
(* Names.                                                                  *)

(* A body part made from a file or a buffer: mms_body_part_set_name gives   *)
(* it the file name as location and as name.  Its generated Content-ID is   *)
(* nobody's file name.                                                      *)
NewPart(f) ==
  [name |-> FileName[f], keys |-> {FileName[f]}, cid |-> "", path |-> f]

(* mms_body_part_compare_by_name, and the first part it accepts.           *)
Answers(part, f) == FileName[f] \in part.keys
Find(list, f)    == SelectInSeq(list, LAMBDA part : Answers(part, f))

(* altered: the head of the list goes.                                      *)
EraseHead(list, f) == IF Find(list, f) = 0 THEN list ELSE Tail(list)

EraseBodyPart(list, f) ==
  IF Find(list, f) = 0 THEN list ELSE RemoveAt(list, Find(list, f))

(* mms_smil_is_file_exist: does a par show f?                              *)
Shows(slides, f) == \E p \in DOMAIN slides : \E s \in Slots : slides[p][s] = FileName[f]

-----------------------------------------------------------------------------
(* Operations on the two halves of a message, taken and returned as one.   *)

Message == [pars |-> pars, parts |-> parts]

(* altered: the part goes without a look at the other pars.                 *)
EraseSlotUnchecked(m, p, s) ==
  LET f == m.pars[p][s]
  IN  IF f = "" THEN m
      ELSE [pars |-> [m.pars EXCEPT ![p][s] = ""], parts |-> EraseBodyPart(m.parts, f)]

(* altered: the look at the pars comes before the slot is emptied.          *)
EraseSlotLate(m, p, s) ==
  LET f == m.pars[p][s]
  IN  IF f = "" THEN m
      ELSE [pars  |-> [m.pars EXCEPT ![p][s] = ""],
            parts |-> IF Shows(m.pars, f) THEN m.parts ELSE EraseBodyPart(m.parts, f)]

(* MMS_ERASE_FILE: the slot is emptied, and the part it showed goes unless  *)
(* another slot shows it.                                                   *)
EraseSlot(m, p, s) ==
  LET f       == m.pars[p][s]
      cleared == [m.pars EXCEPT ![p][s] = ""]
  IN  IF f = "" THEN m
      ELSE [pars  |-> cleared,
            parts |-> IF Shows(cleared, f) THEN m.parts ELSE EraseBodyPart(m.parts, f)]

SetSlot(m, p, s, f) == [m EXCEPT !.pars[p][s] = FileName[f]]

AddPart(m, f) == [m EXCEPT !.parts = Append(@, NewPart(f))]

Become(m) == pars' = m.pars /\ parts' = m.parts

(* mms_get_attachments: the names of the parts no par shows.               *)
Attachments(m) == {n \in {part.name : part \in Range(m.parts)} : ~Shows(m.pars, n)}

(* mms_erase_attachment.                                                   *)
WithoutAttachment(m, f) ==
  IF Shows(m.pars, f) THEN m ELSE [m EXCEPT !.parts = EraseBodyPart(@, f)]

(* The loop of mms_erase_all_attachments, over a list taken before the      *)
(* first goes, in the order of the parts: after part i of those that were.  *)
WithoutAttachments(m) ==
  LET erased[i \in 0 .. Len(m.parts)] ==
        IF i = 0 THEN m
        ELSE IF m.parts[i].name \in Attachments(m)
          THEN WithoutAttachment(erased[i - 1], m.parts[i].name)
        ELSE erased[i - 1]
  IN  erased[Len(m.parts)]

-----------------------------------------------------------------------------
Init ==
  /\ phase = "none" /\ pars = <<>> /\ parts = <<>> /\ texts = 0
  /\ attached = {}

(* mms_create_send_req.                                                    *)
Create ==
  /\ phase = "none" /\ phase' = "live"
  /\ UNCHANGED <<pars, parts, texts, attached>>

(* What a slot shows once its src has been read: a cid is set aside by      *)
(* mms_smil_get_filename, but mms_smil_on_audio has copied it before.       *)
SrcRead(src, s) == IF src.kind = "cid" /\ s # "audio" THEN "" ELSE src.id

(* The pars of a received message, after mms_body_unpack has mended those   *)
(* that are a cid by the parts, in order.  A src that is a file names a     *)
(* part of the message; a cid may be of none.                               *)
Received(doc) ==
  [p \in DOMAIN doc.pars |->
    [s \in Slots |->
      LET src   == doc.pars[p][s]
          named == {i \in DOMAIN doc.parts : doc.parts[i].cid = src.id}
      IN  IF src.kind = "cid" /\ named # {}
            THEN doc.parts[CHOOSE i \in named : \A j \in named : j <= i].name
          ELSE SrcRead(src, s)]]

(* A slot is mended only where cid_exist says that its src was a cid.       *)
MendsSlot(doc) ==
  \E p \in DOMAIN doc.pars : \E s \in Slots : doc.pars[p][s].kind = "cid"

(* mms_create_from_buffer.  Mending a slot reads the Content-ID of every     *)
(* part, which is NULL for a part that has none: the process dies of it.    *)
Receive(doc) ==
  /\ phase = "none"
  /\ IF MendsSlot(doc) /\ \E i \in DOMAIN doc.parts : doc.parts[i].cid = ""
       THEN phase' = "aborted" /\ UNCHANGED <<pars, parts, attached>>
       ELSE /\ phase' = "live"
            /\ Become([pars |-> Received(doc), parts |-> doc.parts])
            /\ attached' = Attachments([pars |-> pars', parts |-> parts'])
  /\ UNCHANGED texts

Destroy ==
  /\ phase = "live" /\ phase' = "none"
  /\ pars' = <<>> /\ parts' = <<>> /\ attached' = {}
  /\ UNCHANGED texts

-----------------------------------------------------------------------------
(* Pars.                                                                   *)

AddPar ==
  /\ phase = "live" /\ Len(pars) < MaxPars
  /\ pars' = Append(pars, EmptyPar)
  /\ UNCHANGED <<phase, parts, texts, attached>>

(* mms_erase_par; an index out of range changes nothing and is OK.         *)
ErasePar(p) ==
  /\ phase = "live"
  /\ IF p \in DOMAIN pars
       THEN LET m == EraseSlot(EraseSlot(EraseSlot(Message, p, "text"), p, "image"), p, "audio")
            IN  Become([m EXCEPT !.pars = RemoveAt(@, p)])
       ELSE UNCHANGED <<pars, parts>>
  /\ UNCHANGED <<phase, texts, attached>>

(* mms_par_erase_text, mms_par_erase_image, mms_par_erase_audio.           *)
ParErase(p, s) ==
  /\ phase = "live" /\ p \in DOMAIN pars
  /\ Become(EraseSlot(Message, p, s))
  /\ UNCHANGED <<phase, texts, attached>>

(* altered: a part is added without a look for one of that name.            *)
ShowAnew(m, p, s, f) ==
  IF f \in Files
    THEN /\ Become(SetSlot(AddPart(m, f), p, s, f))
         /\ attached' = attached \ {FileName[f]}
    ELSE Become(m) /\ UNCHANGED attached

(* altered: a part that is there takes the bytes of the new file.           *)
ShowRefreshed(m, p, s, f) ==
  LET i == Find(m.parts, f)
  IN  /\ Become(IF i # 0 THEN SetSlot([m EXCEPT !.parts[i].path = f], p, s, f)
                ELSE IF f \in Files THEN SetSlot(AddPart(m, f), p, s, f) ELSE m)
      /\ attached' = attached \ {FileName[f]}

(* mms_add_body_part and mms_smil_par_set_xxx, on a message whose slot has  *)
(* been emptied: a part that answers to the name is used again, else one is *)
(* made from the file.                                                      *)
Show(m, p, s, f) ==
  \/ /\ Find(m.parts, f) # 0
     /\ Become(SetSlot(m, p, s, f))
     /\ attached' = attached \ {FileName[f]}
  \/ /\ Find(m.parts, f) = 0 /\ f \in Files
     /\ Become(SetSlot(AddPart(m, f), p, s, f))
     /\ attached' = attached \ {FileName[f]}
  \/ /\ Find(m.parts, f) = 0 /\ f \notin Files
     /\ Become(m)
     /\ UNCHANGED attached

(* MMS_PAR_SET_FILE: what the slot showed is gone before the new file is    *)
(* looked for.                                                              *)
ParSet(p, s, f) ==
  /\ phase = "live" /\ p \in DOMAIN pars
  /\ Show(EraseSlot(Message, p, s), p, s, f)
  /\ UNCHANGED <<phase, texts>>

(* The same, with a pointer that mms_par_get_xxx handed out for some slot:  *)
(* the name is read from there after the erase.                             *)
ParSetToShown(p, s) ==
  /\ phase = "live" /\ p \in DOMAIN pars
  /\ LET m     == EraseSlot(Message, p, s)
         shown == {m.pars[at[1]][at[2]] : at \in (DOMAIN pars) \X Slots}
     IN  \E f \in shown : Show(m, p, s, f)
  /\ UNCHANGED <<phase, texts>>

(* mms_par_set_text_buffer.                                                *)
ParSetTextBuffer(p) ==
  /\ phase = "live" /\ p \in DOMAIN pars
  /\ texts < Len(Generated) /\ texts' = texts + 1
  /\ LET f == Generated[texts + 1]
     IN  Become(SetSlot(AddPart(EraseSlot(Message, p, "text"), f), p, "text", f))
  /\ UNCHANGED <<phase, attached>>

-----------------------------------------------------------------------------
(* Attachments.                                                            *)

AddAttachment(f) ==
  /\ phase = "live"
  /\ IF Shows(pars, f) \/ Find(parts, f) # 0 \/ f \notin Files
       THEN UNCHANGED <<parts, attached>>
       ELSE /\ Become(AddPart(Message, f))
            /\ attached' = attached \cup {FileName[f]}
  /\ UNCHANGED <<phase, pars, texts>>

EraseAttachment(f) ==
  /\ phase = "live"
  /\ Become(WithoutAttachment(Message, f))
  /\ attached' = attached \ {FileName[f]}
  /\ UNCHANGED <<phase, texts>>

(* A part has a name, or mms_get_attachments stops at its assertion.        *)
Named(part) == part.name # ""

(* mms_erase_all_attachments.                                              *)
EraseAllAttachments ==
  /\ phase = "live"
  /\ IF \A i \in DOMAIN parts : Named(parts[i])
       THEN /\ Become(WithoutAttachments(Message))
            /\ attached' = {} /\ UNCHANGED phase
       ELSE phase' = "aborted" /\ UNCHANGED <<pars, parts, attached>>
  /\ UNCHANGED texts

-----------------------------------------------------------------------------
Next ==
  \/ Create
  \/ \E doc \in Documents : Receive(doc)
  \/ Destroy
  \/ AddPar
  \/ \E p \in 1 .. MaxPars : ErasePar(p)
  \/ \E p \in 1 .. MaxPars, s \in Slots : ParErase(p, s)
  \/ \E p \in 1 .. MaxPars, s \in Slots, f \in Paths : ParSet(p, s, f)
  \/ \E p \in 1 .. MaxPars, s \in Slots : ParSetToShown(p, s)
  \/ \E p \in 1 .. MaxPars : ParSetTextBuffer(p)
  \/ \E f \in Paths : AddAttachment(f)
  \/ \E f \in Paths : EraseAttachment(f)
  \/ EraseAllAttachments

Spec == Init /\ [][Next]_vars

-----------------------------------------------------------------------------
(* Properties.                                                             *)

(* What they suppose of a received message: a part has a name without a      *)
(* directory, its own among the parts, and what else it answers to is       *)
(* nothing a file goes by; and a src that is a file is the name of a part.  *)
Ordinary(doc) ==
  /\ \A i \in DOMAIN doc.parts :
       LET part == doc.parts[i]
       IN  /\ part.name \in Names \ Range(Generated)
           /\ FileName[part.name] = part.name
           /\ part.name \in part.keys
           /\ \A n \in DOMAIN FileName : FileName[n] \in part.keys => FileName[n] = part.name
  /\ \A i, j \in DOMAIN doc.parts : doc.parts[i].keys \cap doc.parts[j].keys # {} => i = j
  /\ \A p \in DOMAIN doc.pars : \A s \in Slots :
       LET src == doc.pars[p][s]
       IN  \/ src.kind = "none" /\ src.id = ""
           \/ src.kind = "cid" /\ src.id \in Cids
           \/ src.kind = "file" /\ \E i \in DOMAIN doc.parts : doc.parts[i].name = src.id

(* Every file a par shows is in the message, after any sequence of sets,    *)
(* erases and attachments: a slot that is emptied takes along no part that  *)
(* another slot needs, and no failure leaves a name without its part.  The  *)
(* exception is the raw cid that a received audio may show.                 *)
ReferencesResolved ==
  \A p \in DOMAIN pars : \A s \in Slots :
    pars[p][s] \notin Cids \cup {""} => Find(parts, pars[p][s]) # 0

(* The message carries nothing but what a par shows or what was attached:   *)
(* a part whose last slot lets go of it leaves with it, so that the size    *)
(* and the packed message do not keep what the user took out.               *)
NothingUnasked ==
  \A i \in DOMAIN parts : Shows(pars, parts[i].name) \/ parts[i].name \in attached

(* One name, one part: par and attachment share it, and mms_par_get_file_-  *)
(* data, which takes the first, cannot pick another.                        *)
OnePartPerName ==
  \A i, j \in DOMAIN parts : parts[i].keys \cap parts[j].keys # {} => i = j

(* What was attached, and not shown by a par or erased since, is there.     *)
AttachmentsKept == \A n \in attached : Find(parts, n) # 0

(* A call that keeps the pars, a failing one included, changes at most one  *)
(* slot: the others show the names they showed, and behind each name the    *)
(* file that was there.                                                     *)
FileBehind(list, f) ==
  LET i == Find(list, f) IN IF i = 0 THEN "" ELSE list[i].path

SlotsChanged ==
  {at \in (DOMAIN pars) \X Slots :
    LET f == pars[at[1]][at[2]]
    IN  \/ pars'[at[1]][at[2]] # f
        \/ f # "" /\ FileBehind(parts', f) # FileBehind(parts, f)}

OneSlotAtMost ==
  phase = "live" /\ Len(pars') = Len(pars) => Cardinality(SlotsChanged) <= 1

AtMostOneSlot == [][OneSlotAtMost]_vars

(* No call ends the process: no received message has a slot mended from a   *)
(* part without a Content-ID, and, as mms.c:615 asserts, every part has a    *)
(* name when attachments are listed.                                        *)
NeverAborts == phase # "aborted"

=============================================================================
