---------------------------- MODULE Presentation ----------------------------
(***************************************************************************)
(* What an application keeps in a SMIL: a title, regions by name, and      *)
(* slides that show files in regions.  It can be saved, opened again, and  *)
(* opened into another.                                                    *)
(***************************************************************************)
EXTENDS Integers, Sequences

CONSTANTS
  Titles, RegionNames, Boxes,
  Slides,    (* What a slide can be.                                         *)
  Received   (* Presentations that others made.                              *)

VARIABLES title, regions, slides, saved

vars == <<title, regions, slides, saved>>

NoBox == [x |-> 0]

Init ==
  /\ title = "" /\ regions = [r \in RegionNames |-> NoBox] /\ slides = <<>>
  /\ saved = <<>>

SetTitle ==
  /\ UNCHANGED <<regions, slides, saved>>
  /\ title' \in Titles

PlaceRegion ==
  /\ UNCHANGED <<title, slides, saved>>
  /\ \E r \in RegionNames, b \in Boxes : regions' = [regions EXCEPT ![r] = b]

EditSlides ==
  /\ UNCHANGED <<title, regions, saved>>
  /\ slides' \in Seq(Slides)
  /\ \/ Len(slides') = Len(slides) + 1 /\ SubSeq(slides', 1, Len(slides)) = slides
     \/ Len(slides') = Len(slides) /\ \E i \in DOMAIN slides : slides' = [slides EXCEPT ![i] = slides'[i]]
     \/ \E i \in DOMAIN slides : slides' = SubSeq(slides, 1, i - 1) \o SubSeq(slides, i + 1, Len(slides))

Save ==
  /\ UNCHANGED <<title, regions, slides>>
  /\ saved' = <<[title |-> title, regions |-> regions, slides |-> slides]>>

Open ==
  /\ UNCHANGED saved
  /\ saved # <<>>
  /\ title' = saved[1].title /\ regions' = saved[1].regions /\ slides' = saved[1].slides

Receive ==
  /\ UNCHANGED saved
  /\ \E v \in Received : title' = v.title /\ regions' = v.regions /\ slides' = v.slides

(* The saved one is added to the one at hand.                              *)
OpenInto ==
  /\ UNCHANGED saved
  /\ saved # <<>>
  /\ title' = saved[1].title
  /\ regions' = [r \in RegionNames |->
                   IF saved[1].regions[r] = NoBox THEN regions[r] ELSE saved[1].regions[r]]
  /\ slides' = slides \o saved[1].slides

Next == SetTitle \/ PlaceRegion \/ EditSlides \/ Save \/ Open \/ OpenInto \/ Receive

Spec == Init /\ [][Next]_vars

=============================================================================
